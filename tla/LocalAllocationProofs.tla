------------------------ MODULE LocalAllocationProofs ------------------------
(***************************************************************************)
(* LocalAllocation, for every list of claims: claims that share a local    *)
(* do not meet, and no local is taken while a lower one was free.          *)
(***************************************************************************)
EXTENDS LocalAllocation, TLAPS

LocalTypes == [type : Types, end : Nat]

\* A local is of the type of its claims and reserved to the end of the last one.
LocalsCover ==
    \A i \in DOMAIN assigned :
        /\ locals[assigned[i]].type = claims[i].type
        /\ claims[i].end <= locals[assigned[i]].end

\* The end of a local is that of one of its claims.
EndsAreClaimed ==
    \A local \in DOMAIN locals : \E i \in DOMAIN assigned :
        assigned[i] = local /\ claims[i].end = locals[local].end

AllocationInvariant ==
    /\ AllocationTypeOK /\ LocalsCover /\ EndsAreClaimed
    /\ NoInterference /\ NoLocalWasted

-----------------------------------------------------------------------------
\* What either step does: the current claim gets a local, and no claim before it
\* loses its own (LocalPlanner.allocate, locals.ts:228-254).
Assigns(local) ==
    /\ Len(assigned) < Len(claims)
    /\ claims' = claims
    /\ assigned' = Append(assigned, local)
    /\ local \in DOMAIN locals' /\ local \in Nat
    /\ DOMAIN locals \subseteq DOMAIN locals'
    /\ DOMAIN locals' = DOMAIN locals \cup {local}
    /\ locals' \in Seq(LocalTypes)
    /\ locals'[local] = [type |-> Current.type, end |-> Current.end]
    /\ \A other \in DOMAIN locals \ {local} : locals'[other] = locals[other]
    /\ local \in DOMAIN locals => Fits(local)

\* The claim that is next is a claim, and none before it starts later.
LEMMA CurrentClaim ==
    ASSUME AllocationTypeOK, Len(assigned) < Len(claims)
    PROVE  /\ Len(assigned) + 1 \in DOMAIN claims
           /\ Current \in Claims
           /\ \A i \in DOMAIN assigned : i \in DOMAIN claims /\ claims[i] \in Claims
                                         /\ claims[i].start <= Current.start
<1>1. /\ claims \in Seq(Claims) /\ assigned \in Seq(Nat)
      /\ Len(assigned) \in Nat /\ Len(claims) \in Nat
  BY DEF AllocationTypeOK
<1>2. Len(assigned) + 1 \in DOMAIN claims /\ Current \in Claims
  BY <1>1 DEF Current
<1>3. ASSUME NEW i \in DOMAIN assigned
      PROVE  i \in DOMAIN claims /\ claims[i] \in Claims /\ claims[i].start <= Current.start
  <2>1. i \in 1 .. Len(assigned) /\ i \in DOMAIN claims
    BY <1>1, <1>3
  <2>2. claims[i] \in Claims
    BY <1>1, <2>1
  <2>3. claims[i].start <= claims[Len(assigned) + 1].start
    BY <1>2, <2>1, <1>1 DEF AllocationTypeOK, Sorted
  <2> QED BY <2>1, <2>2, <2>3 DEF Current
<1> QED BY <1>2, <1>3

\* A local is reserved to some site.
LEMMA LocalEnd ==
    ASSUME AllocationTypeOK, NEW local \in DOMAIN locals
    PROVE  locals[local].end \in Nat
<1>1. locals \in Seq(LocalTypes)
  BY DEF AllocationTypeOK, LocalTypes
<1>2. locals[local] \in LocalTypes
  BY <1>1
<1> QED BY <1>2 DEF LocalTypes

\* Taking a local that fits is such a step.
LEMMA ReuseAssigns ==
    ASSUME AllocationTypeOK, NEW local \in DOMAIN locals, Reuse(local)
    PROVE  Assigns(local)
<1>1. locals \in Seq(LocalTypes) /\ Len(assigned) < Len(claims) /\ Fits(local)
  BY DEF AllocationTypeOK, Reuse, LocalTypes
<1>2. Current \in Claims
  BY <1>1, CurrentClaim
<1>3. [type |-> Current.type, end |-> Current.end] \in LocalTypes
  BY <1>2 DEF Claims, LocalTypes
<1>4. local \in Nat /\ DOMAIN locals = 1 .. Len(locals)
  BY <1>1
<1>5. locals' = [locals EXCEPT ![local] = [type |-> Current.type, end |-> Current.end]]
  BY DEF Reuse
<1>6. locals' \in Seq(LocalTypes) /\ DOMAIN locals' = DOMAIN locals
  BY <1>1, <1>3, <1>5
<1> QED BY <1>1, <1>4, <1>5, <1>6 DEF Assigns, Reuse

\* So is taking a new local.
LEMMA TakeNewAssigns ==
    ASSUME AllocationTypeOK, TakeNew
    PROVE  Assigns(Len(locals) + 1)
<1>1. locals \in Seq(LocalTypes) /\ Len(assigned) < Len(claims) /\ Len(locals) \in Nat
  BY DEF AllocationTypeOK, TakeNew, LocalTypes
<1>2. Current \in Claims
  BY <1>1, CurrentClaim
<1>3. [type |-> Current.type, end |-> Current.end] \in LocalTypes
  BY <1>2 DEF Claims, LocalTypes
<1>4. locals' = Append(locals, [type |-> Current.type, end |-> Current.end])
  BY DEF TakeNew
<1>5. /\ locals' \in Seq(LocalTypes) /\ DOMAIN locals' = 1 .. Len(locals) + 1
      /\ DOMAIN locals = 1 .. Len(locals)
  BY <1>1, <1>3, <1>4
<1>6. /\ locals'[Len(locals) + 1] = [type |-> Current.type, end |-> Current.end]
      /\ \A other \in DOMAIN locals : locals'[other] = locals[other]
  BY <1>1, <1>4
<1>7. Len(locals) + 1 \notin DOMAIN locals
  BY <1>1, <1>5
<1> QED BY <1>1, <1>4, <1>5, <1>6, <1>7 DEF Assigns, TakeNew

-----------------------------------------------------------------------------
\* What the conjuncts of the next state read.
LEMMA AssignedNext ==
    ASSUME AllocationTypeOK, NEW local, Assigns(local)
    PROVE  /\ DOMAIN assigned' = DOMAIN assigned \cup {Len(assigned) + 1}
           /\ Len(assigned) + 1 \notin DOMAIN assigned
           /\ \A i \in DOMAIN assigned : i < Len(assigned) + 1
           /\ \A i \in DOMAIN assigned : assigned'[i] = assigned[i] /\ assigned[i] \in DOMAIN locals
           /\ assigned'[Len(assigned) + 1] = local
           /\ assigned' \in Seq(Nat) /\ Len(assigned') = Len(assigned) + 1
<1>1. assigned \in Seq(Nat) /\ local \in Nat /\ assigned' = Append(assigned, local)
  BY DEF AllocationTypeOK, Assigns
<1>2. DOMAIN assigned = 1 .. Len(assigned) /\ Len(assigned) \in Nat
  BY <1>1
<1>3. \A i \in DOMAIN assigned : assigned[i] \in DOMAIN locals
  BY DEF AllocationTypeOK
<1>4. /\ assigned' \in Seq(Nat) /\ Len(assigned') = Len(assigned) + 1
      /\ DOMAIN assigned' = 1 .. Len(assigned) + 1
      /\ assigned'[Len(assigned) + 1] = local
      /\ \A i \in 1 .. Len(assigned) : assigned'[i] = assigned[i]
  BY <1>1
<1> QED BY <1>2, <1>3, <1>4

LEMMA AssignsKeepsType ==
    ASSUME AllocationTypeOK, NEW local, Assigns(local)
    PROVE  AllocationTypeOK'
<1>1. /\ assigned' \in Seq(Nat) /\ Len(assigned') = Len(assigned) + 1
      /\ \A i \in DOMAIN assigned' : assigned'[i] \in DOMAIN locals'
  BY AssignedNext DEF Assigns
<1>2. claims' = claims /\ locals' \in Seq(LocalTypes) /\ Len(assigned) < Len(claims)
  BY DEF Assigns
<1>3. Len(assigned) \in Nat /\ Len(claims) \in Nat
  BY DEF AllocationTypeOK
<1>4. Len(assigned') <= Len(claims')
  BY <1>1, <1>2, <1>3
<1>5. claims' \in Seq(Claims) /\ Sorted(claims')
  BY <1>2 DEF AllocationTypeOK
<1> QED BY <1>1, <1>2, <1>4, <1>5 DEF AllocationTypeOK, LocalTypes

LEMMA AssignsKeepsCover ==
    ASSUME AllocationTypeOK, LocalsCover, NEW local, Assigns(local)
    PROVE  LocalsCover'
<1>1. Len(assigned) < Len(claims) /\ claims' = claims
  BY DEF Assigns
<1>2. Current \in Claims /\ \A i \in DOMAIN assigned : claims[i] \in Claims
  BY <1>1, CurrentClaim
<1>3. locals'[local] = [type |-> Current.type, end |-> Current.end]
  BY DEF Assigns
<1>4. ASSUME NEW i \in DOMAIN assigned
      PROVE  /\ locals'[assigned'[i]].type = claims[i].type
             /\ claims[i].end <= locals'[assigned'[i]].end
  <2>1. /\ assigned'[i] = assigned[i] /\ assigned[i] \in DOMAIN locals
        /\ locals[assigned[i]].type = claims[i].type
        /\ claims[i].end <= locals[assigned[i]].end
    BY <1>4, AssignedNext DEF LocalsCover
  <2>2. CASE assigned[i] = local
    <3>1. Fits(local)
      BY <2>1, <2>2 DEF Assigns
    <3>2. locals[local].type = Current.type /\ locals[local].end < Current.start
      BY <3>1 DEF Fits
    <3>3. locals[local].end \in Nat
      BY <2>1, <2>2, LocalEnd
    <3>4. Current.start \in Nat /\ Current.end \in Nat /\ Current.start <= Current.end
          /\ claims[i].end \in Nat
      BY <1>2 DEF Claims
    <3>5. locals'[local].type = Current.type /\ locals'[local].end = Current.end
      BY <1>3
    <3> QED BY <2>1, <2>2, <3>2, <3>3, <3>4, <3>5
  <2>3. CASE assigned[i] # local
    BY <2>1, <2>3 DEF Assigns
  <2> QED BY <2>2, <2>3
<1>5. /\ locals'[local].type = Current.type
      /\ Current.end <= locals'[local].end
  BY <1>2, <1>3 DEF Claims
<1> QED BY <1>1, <1>4, <1>5, AssignedNext DEF LocalsCover, Current

LEMMA AssignsKeepsEnds ==
    ASSUME AllocationTypeOK, EndsAreClaimed, NEW local, Assigns(local)
    PROVE  EndsAreClaimed'
<1> SUFFICES ASSUME NEW other \in DOMAIN locals'
             PROVE  \E i \in DOMAIN assigned' :
                        assigned'[i] = other /\ claims'[i].end = locals'[other].end
  BY DEF EndsAreClaimed
<1>1. claims' = claims /\ DOMAIN locals' = DOMAIN locals \cup {local}
  BY DEF Assigns
<1>2. CASE other = local
  <2>1. locals'[other].end = Current.end
    BY <1>2 DEF Assigns
  <2> QED BY <1>1, <1>2, <2>1, AssignedNext DEF Current
<1>3. CASE other # local
  <2>1. other \in DOMAIN locals /\ locals'[other] = locals[other]
    BY <1>1, <1>3 DEF Assigns
  <2>2. PICK i \in DOMAIN assigned : assigned[i] = other /\ claims[i].end = locals[other].end
    BY <2>1 DEF EndsAreClaimed
  <2> QED BY <1>1, <2>1, <2>2, AssignedNext
<1> QED BY <1>2, <1>3

\* The new claim starts after every claim of its local has ended.
LEMMA AssignsDoesNotInterfere ==
    ASSUME AllocationTypeOK, LocalsCover, NoInterference, NEW local, Assigns(local)
    PROVE  NoInterference'
<1> SUFFICES ASSUME NEW i \in DOMAIN assigned', NEW j \in DOMAIN assigned',
                    i < j, assigned'[i] = assigned'[j]
             PROVE  claims'[i].type = claims'[j].type /\ claims'[i].end < claims'[j].start
  BY DEF NoInterference
<1>1. claims' = claims /\ Len(assigned) < Len(claims)
  BY DEF Assigns
<1>2. i \in DOMAIN assigned
  <2>1. Len(assigned) \in Nat /\ DOMAIN assigned = 1 .. Len(assigned)
    BY DEF AllocationTypeOK
  <2>2. j <= Len(assigned) + 1 /\ i # Len(assigned) + 1
    BY <2>1, AssignedNext
  <2> QED BY <2>2, AssignedNext
<1>3. CASE j \in DOMAIN assigned
  BY <1>1, <1>2, <1>3, AssignedNext DEF NoInterference
<1>4. CASE j = Len(assigned) + 1
  <2>1. assigned[i] = local /\ local \in DOMAIN locals /\ claims[j] = Current
    BY <1>2, <1>4, AssignedNext DEF Current
  <2>2. locals[local].type = Current.type /\ locals[local].end < Current.start
    BY <2>1 DEF Assigns, Fits
  <2>3. claims[i].type = locals[local].type /\ claims[i].end <= locals[local].end
    BY <1>2, <2>1 DEF LocalsCover
  <2>4. locals[local].end \in Nat
    BY <2>1, LocalEnd
  <2>5. Current \in Claims /\ claims[i] \in Claims
    BY <1>1, <1>2, CurrentClaim
  <2>6. Current.start \in Nat /\ claims[i].end \in Nat
    BY <2>5 DEF Claims
  <2> QED BY <1>1, <2>1, <2>2, <2>3, <2>4, <2>6
<1> QED BY <1>3, <1>4, AssignedNext

\* A claim of a local shows that no lower one of the type was free when it was taken.
Needed(i, local) ==
    /\ assigned[i] = local
    /\ \A lower \in DOMAIN locals :
          lower < local /\ locals[lower].type = locals[local].type =>
              \E j \in DOMAIN assigned : /\ assigned[j] = lower
                                         /\ claims[j].start <= claims[i].start
                                         /\ claims[i].start <= claims[j].end

LEMMA NeededStays ==
    ASSUME AllocationTypeOK, LocalsCover, NEW local, Assigns(local),
           NEW other \in DOMAIN locals, NEW i \in DOMAIN assigned, Needed(i, other),
           \A x \in DOMAIN locals' \ DOMAIN locals : \A y \in DOMAIN locals : y < x
    PROVE  Needed(i, other)'
<1>1. claims' = claims /\ \A x \in DOMAIN locals : locals'[x].type = locals[x].type
  <2>1. ASSUME NEW x \in DOMAIN locals PROVE locals'[x].type = locals[x].type
    BY <2>1 DEF Assigns, Fits
  <2> QED BY <2>1 DEF Assigns
<1>2. assigned'[i] = other
  BY AssignedNext DEF Needed
<1>3. ASSUME NEW lower \in DOMAIN locals', lower < other,
             locals'[lower].type = locals'[other].type
      PROVE  \E j \in DOMAIN assigned' : /\ assigned'[j] = lower
                                         /\ claims'[j].start <= claims'[i].start
                                         /\ claims'[i].start <= claims'[j].end
  <2>1. lower \in DOMAIN locals
    <3>1. DOMAIN locals' \subseteq DOMAIN locals \cup {local} /\ local \in Nat
      BY DEF Assigns
    <3>2. other \in Nat /\ DOMAIN locals \subseteq Nat
      BY DEF AllocationTypeOK
    <3> QED BY <1>3, <3>1, <3>2
  <2>2. PICK j \in DOMAIN assigned : /\ assigned[j] = lower
                                     /\ claims[j].start <= claims[i].start
                                     /\ claims[i].start <= claims[j].end
    BY <1>1, <1>3, <2>1 DEF Needed
  <2> QED BY <1>1, <2>2, AssignedNext
<1> QED BY <1>2, <1>3 DEF Needed

LEMMA ReuseWastesNothing ==
    ASSUME AllocationTypeOK, LocalsCover, NoLocalWasted, NEW local \in DOMAIN locals,
           Reuse(local)
    PROVE  NoLocalWasted'
<1>1. Assigns(local)
  BY ReuseAssigns
<1>2. DOMAIN locals' = DOMAIN locals
  BY <1>1 DEF Assigns
<1> SUFFICES ASSUME NEW other \in DOMAIN locals
             PROVE  \E i \in DOMAIN assigned' : Needed(i, other)'
  BY <1>2 DEF NoLocalWasted, Needed
<1>3. PICK i \in DOMAIN assigned : Needed(i, other)
  BY DEF NoLocalWasted, Needed
<1>4. Needed(i, other)'
  BY <1>1, <1>2, <1>3, NeededStays
<1> QED BY <1>1, <1>4, AssignedNext

LEMMA TakeNewWastesNothing ==
    ASSUME AllocationTypeOK, LocalsCover, EndsAreClaimed, NoLocalWasted, TakeNew
    PROVE  NoLocalWasted'
<1> DEFINE new == Len(locals) + 1
<1>1. Assigns(new)
  BY TakeNewAssigns
<1>2. /\ DOMAIN locals' = DOMAIN locals \cup {new} /\ DOMAIN locals = 1 .. Len(locals)
      /\ Len(locals) \in Nat /\ claims' = claims /\ Len(assigned) < Len(claims)
  BY <1>1 DEF Assigns, AllocationTypeOK
<1> SUFFICES ASSUME NEW other \in DOMAIN locals'
             PROVE  \E i \in DOMAIN assigned' : Needed(i, other)'
  BY DEF NoLocalWasted, Needed
<1>3. CASE other \in DOMAIN locals
  <2>1. PICK i \in DOMAIN assigned : Needed(i, other)
    BY <1>3 DEF NoLocalWasted, Needed
  <2>2. \A x \in DOMAIN locals' \ DOMAIN locals : \A y \in DOMAIN locals : y < x
    BY <1>2
  <2>3. Needed(i, other)'
    BY <1>1, <1>3, <2>1, <2>2, NeededStays
  <2> QED BY <1>1, <2>3, AssignedNext
<1>4. CASE other = new
  <2> DEFINE k == Len(assigned) + 1
  <2>1. k \in DOMAIN assigned' /\ assigned'[k] = new /\ claims'[k] = Current
    BY <1>1, <1>2, AssignedNext DEF Current
  <2>2. ASSUME NEW lower \in DOMAIN locals', lower < new,
               locals'[lower].type = locals'[new].type
        PROVE  \E j \in DOMAIN assigned' : /\ assigned'[j] = lower
                                           /\ claims'[j].start <= claims'[k].start
                                           /\ claims'[k].start <= claims'[j].end
    <3>1. lower \in DOMAIN locals /\ locals'[lower] = locals[lower]
      BY <1>1, <1>2, <2>2 DEF Assigns
    <3>2. locals[lower].type = Current.type
      BY <1>1, <2>2, <3>1 DEF Assigns
    <3>3. ~(locals[lower].end < Current.start)
      BY <3>1, <3>2 DEF TakeNew, Fits
    <3>4. PICK j \in DOMAIN assigned : assigned[j] = lower /\ claims[j].end = locals[lower].end
      BY <3>1 DEF EndsAreClaimed
    <3>5. claims[j].start <= Current.start /\ Current \in Claims
      BY <1>2, CurrentClaim
    <3>6. locals[lower].end \in Nat /\ Current.start \in Nat
      BY <3>1, <3>5, LocalEnd DEF Claims
    <3>7. Current.start <= claims[j].end
      BY <3>3, <3>4, <3>6
    <3> QED BY <1>1, <1>2, <2>1, <3>4, <3>5, <3>7, AssignedNext
  <2> QED BY <1>4, <2>1, <2>2 DEF Needed
<1> QED BY <1>2, <1>3, <1>4

-----------------------------------------------------------------------------
LEMMA AllocationStarts == AllocationInit => AllocationInvariant
<1> SUFFICES ASSUME AllocationInit PROVE AllocationInvariant
  OBVIOUS
<1>1. claims \in Seq(Claims) /\ Sorted(claims) /\ locals = <<>> /\ assigned = <<>>
  BY DEF AllocationInit
<1>2. DOMAIN locals = {} /\ DOMAIN assigned = {} /\ Len(assigned) = 0 /\ Len(claims) \in Nat
  BY <1>1
<1>3. locals \in Seq(LocalTypes) /\ assigned \in Seq(Nat)
  BY <1>1
<1>4. AllocationTypeOK
  BY <1>1, <1>2, <1>3 DEF AllocationTypeOK, LocalTypes
<1> QED BY <1>2, <1>4 DEF AllocationInvariant, LocalsCover, EndsAreClaimed,
                          NoInterference, NoLocalWasted

LEMMA AllocationStep ==
    AllocationInvariant /\ [AllocateNext]_allocationVars => AllocationInvariant'
<1> SUFFICES ASSUME AllocationInvariant, [AllocateNext]_allocationVars
             PROVE  AllocationInvariant'
  OBVIOUS
<1> USE DEF AllocationInvariant
<1>1. CASE TakeNew
  <2>1. Assigns(Len(locals) + 1)
    BY <1>1, TakeNewAssigns
  <2>2. AllocationTypeOK'
    BY <2>1, AssignsKeepsType
  <2>3. LocalsCover' /\ EndsAreClaimed'
    BY <2>1, AssignsKeepsCover, AssignsKeepsEnds
  <2>4. NoInterference'
    BY <2>1, AssignsDoesNotInterfere
  <2>5. NoLocalWasted'
    BY <1>1, TakeNewWastesNothing
  <2> QED BY <2>2, <2>3, <2>4, <2>5
<1>2. ASSUME NEW local \in DOMAIN locals, Reuse(local) PROVE AllocationInvariant'
  <2>1. Assigns(local)
    BY <1>2, ReuseAssigns
  <2>2. AllocationTypeOK'
    BY <2>1, AssignsKeepsType
  <2>3. LocalsCover' /\ EndsAreClaimed'
    BY <2>1, AssignsKeepsCover, AssignsKeepsEnds
  <2>4. NoInterference'
    BY <2>1, AssignsDoesNotInterfere
  <2>5. NoLocalWasted'
    BY <1>2, ReuseWastesNothing
  <2> QED BY <2>2, <2>3, <2>4, <2>5
<1>3. CASE UNCHANGED allocationVars
  BY <1>3 DEF allocationVars, AllocationTypeOK, LocalsCover, EndsAreClaimed,
              NoInterference, NoLocalWasted
<1> QED BY <1>1, <1>2, <1>3 DEF AllocateNext

\* The locals, for every sorted list of claims: types are right, claims of one local
\* never meet (locals.ts:228-254), and a local is only added when none was free.
THEOREM AllocationIsSafe == AllocationSpec => [](NoInterference /\ AllocationTypeOK)
<1>1. AllocationInvariant => NoInterference /\ AllocationTypeOK
  BY DEF AllocationInvariant
<1> QED BY AllocationStarts, AllocationStep, <1>1, PTL DEF AllocationSpec

\* As many locals as there are claims wanting them at one site, and no more.
THEOREM AllocationIsTight == AllocationSpec => []NoLocalWasted
<1>1. AllocationInvariant => NoLocalWasted
  BY DEF AllocationInvariant
<1> QED BY AllocationStarts, AllocationStep, <1>1, PTL DEF AllocationSpec

=============================================================================
