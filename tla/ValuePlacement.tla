--------------------------- MODULE ValuePlacement ---------------------------
(***************************************************************************)
(* Where the values of a body are evaluated (compiler/wasm/plan).          *)
(*                                                                         *)
(* An evaluation has an anchor, the site at which the code computing its   *)
(* value is emitted, and the uses it serves.  Placement sweeps the values  *)
(* from users to inputs: when a value is reached all its demands are       *)
(* known.  It may delay a load to where its result is wanted, evaluate an  *)
(* expression once for several uses, once per arm, or ahead of a loop;     *)
(* what it must respect is aliasing writes, the paths on which an          *)
(* instruction that can trap is wanted, and the iterations of loops.       *)
(***************************************************************************)
EXTENDS StructuredBody, SequencesExt

-----------------------------------------------------------------------------
(* Analysis of a body *)

DefinitionSite(b, v) ==
    CHOOSE s \in Sites(b) : EventAt(b, s).output = v

IsJoinValue(b, v) ==
    b.values[v].kind = "producerOutput" /\ IsJoin(EventAt(b, DefinitionSite(b, v)))

\* The value at the end of each arm of a join, with the site that consumes it.
Dependencies(b, v) ==
    LET arms == EventAt(b, DefinitionSite(b, v)).arms
    IN  [i \in DOMAIN arms |-> LET end == EndSite(b, arms[i])
                               IN  [value |-> EventAt(b, end).result, site |-> end]]

\* Values whose whole evaluation may run early, or on a path that does not want it.
SpeculatableValues(b) ==
    LET canSpeculate[v \in Values(b)] ==
            /\ CanSpeculateInstruction(b.values[v])
            /\ \A i \in DOMAIN b.values[v].inputs : canSpeculate[b.values[v].inputs[i]]
    IN  {v \in Values(b) : canSpeculate[v]}

\* Of two nested loop bodies the inner one.
DeeperLoop(b, loop, other) ==
    CASE loop = None -> other
      [] other = None -> loop
      [] loop # None /\ other # None -> IF Encloses(b, loop, other) THEN other ELSE loop

\* The innermost loop whose iterations change the value.
RequiredLoops(b) ==
    LET LoopSite(v) == CHOOSE s \in Sites(b) : v \in Elements(EventAt(b, s).inputs)
        required[v \in Values(b)] ==
            CASE b.values[v].kind = "producerOutput" ->
                     EnclosingLoop(b, BlockOf(b, DefinitionSite(b, v)))
              [] b.values[v].kind = "loopInput" -> EventAt(b, LoopSite(v)).arms[1]
              [] OTHER -> FoldLeft(LAMBDA loop, input : DeeperLoop(b, loop, required[input]),
                                   None, b.values[v].inputs)
    IN  [v \in Values(b) |-> required[v]]

Between(b, from, to) == {s \in Sites(b) : from <= s /\ s < to}

AliasingWriteIn(b, reads, sites) ==
    \E s \in sites, read \in reads : \E write \in Writes(EventAt(b, s)) : MayAlias(read, write)

\* Slip: judges by the sites of the two ends' blocks alone.
CrossesAliasingWriteInBlock(b, reads, producer, anchor) ==
    AliasingWriteIn(b, reads, {s \in Between(b, producer + 1, anchor) :
                                  BlockOf(b, s) = BlockOf(b, producer)})

(***************************************************************************)
(* A write between an operation and a later anchor may change what the     *)
(* operation reads.  On the way into a nested block only the block entered *)
(* counts, not its siblings.                                               *)
(***************************************************************************)
CrossesAliasingWrite(b, reads, producer, anchor) ==
    LET path == Path(b, BlockOf(b, producer), BlockOf(b, anchor))
        start(i) == IF i = 0 THEN producer + 1 ELSE FirstSite(b, path[i])
        stop(i)  == IF i = Len(path) THEN anchor ELSE OwnerSite(b, path[i + 1])
    IN  \E i \in 0 .. Len(path) :
            AliasingWriteIn(b, reads, Between(b, start(i), stop(i)))

Demand(value, site) == [value |-> value, site |-> site]

\* Structure demands its operands, and so does an operation kept for its writes.
IsRoot(event) ==
    \/ Category(event) # "operation"
    \/ event.output = None /\ Writes(event) # {}

RootDemands(b) ==
    FlattenSeq([s \in Sites(b) |->
        IF IsRoot(EventAt(b, s))
        THEN LET operands == EventAt(b, s).operands
             IN  [i \in DOMAIN operands |-> Demand(operands[i], s)]
        ELSE <<>>])

Analysis(b) ==
    [speculatable |-> SpeculatableValues(b), loops |-> RequiredLoops(b),
     roots |-> RootDemands(b)]

-----------------------------------------------------------------------------
(* Anchors *)

UsesOf(demands) == {demands[i] : i \in DOMAIN demands}

\* Slip: an operation follows its uses into a loop.
NotClamped(b, producerBlock, anchor) == anchor

\* The first loop body on the way from an operation's block stops the move.
ClampBeforeNestedLoop(b, producerBlock, anchor) ==
    LET path == Path(b, producerBlock, BlockOf(b, anchor))
        loops == {i \in DOMAIN path : LoopOwner(b, path[i]) # None}
    IN  IF loops = {} THEN anchor
        ELSE OwnerSite(b, path[CHOOSE i \in loops : \A j \in loops : i <= j])

IsAfterProducer(b, producer, anchor) ==
    IF BlockOf(b, producer) = BlockOf(b, anchor) THEN anchor > producer
    ELSE LET path == Path(b, BlockOf(b, producer), BlockOf(b, anchor))
         IN  OwnerSite(b, path[1]) > producer

\* An operation moves to the site dominating its demands unless something forbids it.
OperationAnchor(b, an, v, demands) ==
    LET producer == DefinitionSite(b, v)
        event    == EventAt(b, producer)
        anchor   == ClampBeforeNestedLoop(b, BlockOf(b, producer),
                                          DominatingSite(b, UsesOf(demands)))
    IN  IF \/ ~IsAfterProducer(b, producer, anchor)
           \/ Writes(event) # {}
           \/ ~(Elements(event.operands) \subseteq an.speculatable)
           \/ CrossesAliasingWrite(b, Reads(event), producer, anchor)
        THEN producer
        ELSE anchor

\* Out of every loop that does not change the value.
RECURSIVE LiftLoopInvariant(_, _, _, _)
LiftLoopInvariant(b, an, v, anchor) ==
    LET block == BlockOf(b, anchor)
    IN  IF v \in an.speculatable /\ LoopOwner(b, block) # None /\ an.loops[v] # block
        THEN LiftLoopInvariant(b, an, v, LoopOwner(b, block))
        ELSE anchor

-----------------------------------------------------------------------------
(* Groups of uses *)

\* The arm of the control at anchor that a use is in, None when in no arm.
SelectedArm(b, anchor, use) ==
    LET path == Path(b, BlockOf(b, anchor), BlockOf(b, use))
    IN  IF path # <<>> /\ OwnerSite(b, path[1]) = anchor THEN path[1] ELSE None

Grouped(uses, Key(_)) ==
    LET keys == FoldLeft(LAMBDA seen, use : IF Contains(seen, Key(use)) THEN seen
                                            ELSE Append(seen, Key(use)), <<>>, uses)
    IN  [i \in DOMAIN keys |-> SelectSeq(uses, LAMBDA use : Key(use) = keys[i])]

(***************************************************************************)
(* The uses by the arm that selects them, in the order of their first use; *)
(* one group when they cannot be separated.                                *)
(***************************************************************************)
SelectedGroups(b, uses) ==
    LET anchor == DominatingSite(b, Elements(uses))
    IN  IF anchor \in Elements(uses) \/ ~IsJoin(EventAt(b, anchor)) THEN <<uses>>
        ELSE Grouped(uses, LAMBDA use : SelectedArm(b, anchor, use))

\* The arm of a hinted if that is not the main path.
UnlikelyArm(event) ==
    LET arm == CASE event.hint = "unlikely" -> 1 [] event.hint = "likely" -> 2 [] OTHER -> 0
    IN  IF event.kind = "if" /\ arm \in DOMAIN event.arms THEN event.arms[arm] ELSE None

SplitByArm(b, uses, anchor, arm) ==
    LET InArm(use) == SelectedArm(b, anchor, use) = arm
    IN  SelectSeq(<<SelectSeq(uses, LAMBDA use : ~InArm(use)),
                    SelectSeq(uses, LAMBDA use : InArm(use))>>,
                  LAMBDA group : group # <<>>)

HintedGroupsAt(b, uses, anchor, arm) ==
    IF anchor \in Elements(uses) \/ arm = None THEN <<uses>>
    ELSE IF EventAt(b, EndSite(b, arm)).fallsThrough THEN <<uses>>
    ELSE SplitByArm(b, uses, anchor, arm)

\* The main path and the other arm of a hinted if, when that arm does not come back.
HintedGroups(b, uses) ==
    LET anchor == DominatingSite(b, Elements(uses))
    IN  HintedGroupsAt(b, uses, anchor, UnlikelyArm(EventAt(b, anchor)))

\* A value and everything it is computed from.
RECURSIVE Expression(_, _)
Expression(b, v) ==
    {v} \cup UNION {Expression(b, b.values[v].inputs[i]) : i \in DOMAIN b.values[v].inputs}

\* Slip: takes what a later site of the block consumes as evaluated too.
AvailableAnywhere(b, an, discovered, site) ==
    UNION {Expression(b, demand.value) : demand \in Elements(an.roots \o discovered)}

(***************************************************************************)
(* What has been evaluated for sure before a capture at a control's        *)
(* header: roots consumed at another site that dominates it, and its own   *)
(* operands.                                                               *)
(***************************************************************************)
AvailableAt(b, an, discovered, site) ==
    LET Before(demand) ==
            /\ demand.site # site
            /\ DominatingSite(b, {demand.site, site}) = demand.site
        event == EventAt(b, site)
    IN  UNION {Expression(b, demand.value) :
                  demand \in {d \in Elements(an.roots \o discovered) : Before(d)}}
        \cup (IF IsJoin(event) \/ event.kind = "loop"
              THEN UNION {Expression(b, event.operands[i]) : i \in DOMAIN event.operands}
              ELSE {})

RECURSIVE CanEvaluateWith(_, _, _, _)
CanEvaluateWith(b, an, available, v) ==
    \/ v \in an.speculatable \cup available
    \/ /\ CanSpeculateInstruction(b.values[v])
       /\ \A i \in DOMAIN b.values[v].inputs :
             CanEvaluateWith(b, an, available, b.values[v].inputs[i])

\* A constant mask is cheap enough to be computed on each path that wants it.
ShouldShareEvaluation(b, v) == b.values[v].op # "mask"

-----------------------------------------------------------------------------
(***************************************************************************)
(* The sweep.  Its state holds the demands of each value in the order they *)
(* were added, the drafts of each placed value, the roots discovered on    *)
(* the way and the operations to be executed where they were written.      *)
(***************************************************************************)
Draft(b, v, anchor, uses, isDefault, operation) ==
    [value |-> v, anchor |-> anchor, uses |-> uses, isDefault |-> isDefault,
     operationSite |-> operation,
     kind |-> IF IsJoinValue(b, v) THEN "join"
              ELSE IF anchor \in Elements(uses) THEN "atUse" ELSE "capture"]

AddDemands(st, demands) ==
    [st EXCEPT !.demands = [v \in DOMAIN @ |->
        @[v] \o [i \in DOMAIN SelectSeq(demands, LAMBDA d : d.value = v) |->
                    SelectSeq(demands, LAMBDA d : d.value = v)[i].site]]]

DemandsAt(operands, site) == [i \in DOMAIN operands |-> Demand(operands[i], site)]

PlaceValue(b, st, v, anchor, uses, isDefault, operation) ==
    [st EXCEPT !.drafts[v] = Append(@, Draft(b, v, anchor, uses, isDefault, operation))]

PlaceExpression(b, an, st, v, uses, isDefault) ==
    LET anchor == LiftLoopInvariant(b, an, v, DominatingSite(b, Elements(uses)))
    IN  AddDemands(PlaceValue(b, st, v, anchor, uses, isDefault, None),
                   DemandsAt(b.values[v].inputs, anchor))

CanShare(b, an, st, v, uses) ==
    LET site == DominatingSite(b, Elements(uses))
    IN  CanEvaluateWith(b, an, AvailableAt(b, an, st.discovered, site), v)

RECURSIVE PlaceExpressionUses(_, _, _, _, _, _)

PlaceGroups(b, an, st, v, groups, isDefault) ==
    FoldLeft(LAMBDA acc, i : PlaceExpressionUses(b, an, acc, v, groups[i], isDefault /\ i = 1),
             st, [i \in DOMAIN groups |-> i])

\* The uses by the arm that selects them; else, in one group, by the hint.
SeparatedUses(b, selected, uses) ==
    IF Len(selected) > 1 THEN selected ELSE HintedGroups(b, uses)

PlaceSeparatedUses(b, an, st, v, uses, selected, groups, isDefault) ==
    LET shared == /\ ShouldShareEvaluation(b, v)
                  /\ Len(selected) > 1 => CanShare(b, an, st, v, uses)
    IN  IF Len(groups) = 1 \/ shared THEN PlaceExpression(b, an, st, v, uses, isDefault)
        ELSE PlaceGroups(b, an, st, v, groups, isDefault)

PlaceSelectedUses(b, an, st, v, uses, selected, isDefault) ==
    PlaceSeparatedUses(b, an, st, v, uses, selected, SeparatedUses(b, selected, uses), isDefault)

PlaceExpressionUses(b, an, st, v, uses, isDefault) ==
    PlaceSelectedUses(b, an, st, v, uses,
        IF v \in an.speculatable THEN <<uses>> ELSE SelectedGroups(b, uses), isDefault)

\* Slip: a dead result removes the operation.
DropDeadOperation(b, st, v) == st

\* An operation whose result nobody wants stays for its writes, with its operands.
KeepForWrites(b, st, v) ==
    LET site  == DefinitionSite(b, v)
        roots == DemandsAt(EventAt(b, site).operands, site)
    IN  AddDemands([st EXCEPT !.authored = @ \cup {site}, !.discovered = @ \o roots], roots)

PlaceOperation(b, an, st, v) ==
    LET anchor == OperationAnchor(b, an, v, st.demands[v])
        site   == DefinitionSite(b, v)
    IN  AddDemands(PlaceValue(b, st, v, anchor, st.demands[v], TRUE, site),
                   DemandsAt(EventAt(b, site).operands, anchor))

PlaceJoin(b, st, v) ==
    AddDemands(PlaceValue(b, st, v, DefinitionSite(b, v), st.demands[v], TRUE, None),
               Dependencies(b, v))

Swept(b, an, st, v) ==
    LET source  == Source(b.values[v])
        dead    == st.demands[v] = <<>>
        join    == source = "output" /\ IsJoinValue(b, v)
        writing == source = "output" /\ ~join /\ Writes(EventAt(b, DefinitionSite(b, v))) # {}
    IN  CASE dead /\ writing                    -> KeepForWrites(b, st, v)
          [] dead /\ ~writing                   -> st
          [] ~dead /\ join                      -> PlaceJoin(b, st, v)
          [] ~dead /\ source = "output" /\ ~join -> PlaceOperation(b, an, st, v)
          [] ~dead /\ source = "expression"     ->
                 PlaceExpressionUses(b, an, st, v, st.demands[v], TRUE)
          [] ~dead /\ source = "inline"         -> st

AuthoredOperations(b) ==
    {s \in Sites(b) : /\ Category(EventAt(b, s)) = "operation"
                      /\ EventAt(b, s).output = None
                      /\ Writes(EventAt(b, s)) # {}}

Place(b, an) ==
    LET initial == [demands |-> [v \in Values(b) |-> <<>>], drafts |-> [v \in Values(b) |-> <<>>],
                    discovered |-> <<>>, authored |-> AuthoredOperations(b)]
    IN  FoldRight(LAMBDA v, st : Swept(b, an, st, v), [v \in Values(b) |-> v],
                  AddDemands(initial, an.roots))

\* Inputs come before the values computed from them.
Evaluations(st) == FlattenSeq(st.drafts)

=============================================================================
