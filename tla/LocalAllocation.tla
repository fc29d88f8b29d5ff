-------------------------- MODULE LocalAllocation --------------------------
(***************************************************************************)
(* Assignment of claims to WebAssembly locals (compiler/wasm/plan/locals). *)
(*                                                                         *)
(* A claim asks for a local of a type from its first site to its last.     *)
(* Claims are taken in the order of their first sites; each gets the       *)
(* lowest local of its type whose last claim ended before, or a new one.   *)
(***************************************************************************)
EXTENDS Integers, Sequences

CONSTANT Types

VARIABLES
    claims,    \* the claims, in the order they are taken
    locals,    \* per local its type and the end of its last claim
    assigned   \* the local of each claim taken so far

allocationVars == <<claims, locals, assigned>>

Claims == {claim \in [type : Types, start : Nat, end : Nat] : claim.start <= claim.end}

Sorted(seq) == \A i, j \in DOMAIN seq : i <= j => seq[i].start <= seq[j].start

AllocationInit ==
    /\ claims \in Seq(Claims) /\ Sorted(claims)
    /\ locals = <<>>
    /\ assigned = <<>>

Current == claims[Len(assigned) + 1]

\* Slip: a claim may begin where the last one of the local ends.
FitsTouching(local) == locals[local].type = Current.type /\ locals[local].end <= Current.start

\* Slip: never reuses the first local.
FitsButFirst(local) ==
    local > 1 /\ locals[local].type = Current.type /\ locals[local].end < Current.start

Fits(local) == locals[local].type = Current.type /\ locals[local].end < Current.start

Reuse(local) ==
    /\ Len(assigned) < Len(claims)
    /\ Fits(local)
    /\ \A lower \in DOMAIN locals : lower < local => ~Fits(lower)
    /\ locals' = [locals EXCEPT ![local] = [type |-> Current.type, end |-> Current.end]]
    /\ assigned' = Append(assigned, local)
    /\ UNCHANGED claims

TakeNew ==
    /\ Len(assigned) < Len(claims)
    /\ \A local \in DOMAIN locals : ~Fits(local)
    /\ locals' = Append(locals, [type |-> Current.type, end |-> Current.end])
    /\ assigned' = Append(assigned, Len(locals) + 1)
    /\ UNCHANGED claims

AllocateNext == TakeNew \/ \E local \in DOMAIN locals : Reuse(local)

AllocationSpec == AllocationInit /\ [][AllocateNext]_allocationVars

-----------------------------------------------------------------------------
AllocationTypeOK ==
    /\ claims \in Seq(Claims) /\ Sorted(claims)
    /\ locals \in Seq([type : Types, end : Nat])
    /\ assigned \in Seq(Nat)
    /\ Len(assigned) <= Len(claims)
    /\ \A i \in DOMAIN assigned : assigned[i] \in DOMAIN locals

\* Two claims of one local have its type and do not meet: a value that is still
\* wanted is never overwritten by a later one (locals.ts:228-254).
NoInterference ==
    \A i, j \in DOMAIN assigned : i < j /\ assigned[i] = assigned[j] =>
        /\ claims[i].type = claims[j].type
        /\ claims[i].end < claims[j].start

\* No local is wasted: when a local was taken, every lower one of its type was
\* occupied at that site, so as many are needed (the greedy choice by start).
NoLocalWasted ==
    \A local \in DOMAIN locals : \E i \in DOMAIN assigned :
        /\ assigned[i] = local
        /\ \A lower \in DOMAIN locals :
              lower < local /\ locals[lower].type = locals[local].type =>
                  \E j \in DOMAIN assigned :
                      /\ assigned[j] = lower
                      /\ claims[j].start <= claims[i].start
                      /\ claims[i].start <= claims[j].end

=============================================================================
