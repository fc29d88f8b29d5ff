--------------------------- MODULE StructuredBody ---------------------------
(***************************************************************************)
(* The body of a function on its way to WebAssembly: a stream of sites     *)
(* grouped into nested blocks, over a graph of values.                     *)
(*                                                                         *)
(* A body is a record with two sequences.  sites[s] is [block, event]; a   *)
(* control site precedes the sites of its child blocks, and the last site  *)
(* of a block is its "end".  values[v] is a node whose inputs are smaller  *)
(* than v.  Sites, blocks and values are numbered from 1, and None stands  *)
(* for an absent one.  A word carries no type: every value has the same.   *)
(***************************************************************************)
EXTENDS Integers, Sequences, FiniteSets

CONSTANT CaseMatches  \* the selectors of each case of a switch; the others take the default

ASSUME CasesAreDisjoint ==
    \A i, j \in DOMAIN CaseMatches : i # j => CaseMatches[i] \cap CaseMatches[j] = {}

None == 0

EntryBlock == 1

(***************************************************************************)
(* Storage.  A resource of two cells is accessed as a whole, through an    *)
(* address computed at run time, or through one of two disjoint slices;    *)
(* every other access names a variable.                                    *)
(***************************************************************************)
Slices == {"low", "high"}
ResourceAccesses == Slices \cup {"whole"}

MayAlias(left, right) ==
    IF left \notin ResourceAccesses \/ right \notin ResourceAccesses
    THEN left = right
    ELSE left = "whole" \/ right = "whole" \/ left = right

(***************************************************************************)
(* Values.  A node is [kind, op, inputs].                                  *)
(***************************************************************************)
SafeOperators   == {"flip", "mask", "extend", "add"}
UnsafeOperators == {"divide"}
Operators       == SafeOperators \cup UnsafeOperators

Node(kind, op, inputs) == [kind |-> kind, op |-> op, inputs |-> inputs]

Source(node) ==
    CASE node.kind \in {"const", "parameter", "loopInput"} -> "inline"
      [] node.kind = "producerOutput" -> "output"
      [] node.kind = "operation" -> "expression"

\* The node's own instruction cannot trap.
CanSpeculateInstruction(node) ==
    ~(node.kind = "operation" /\ node.op \in UnsafeOperators)

(***************************************************************************)
(* Events.  The fields every event has are the generic view of planning;   *)
(* arms, hint, inputs, result and fallsThrough matter to some kinds.       *)
(***************************************************************************)
Event(kind, operands, output) ==
    [kind |-> kind, operands |-> operands, output |-> output,
     access |-> "low", seed |-> FALSE, arms |-> <<>>, hint |-> "none",
     inputs |-> <<>>, result |-> None, fallsThrough |-> TRUE]

Category(event) ==
    CASE event.kind \in {"load", "store", "variableRead", "variableWrite", "call"} -> "operation"
      [] event.kind \in {"if", "switch", "loop", "loopContinue", "return"} -> "control"
      [] event.kind = "end" -> "end"

Reads(event) ==
    IF event.kind \in {"load", "variableRead", "call"} THEN {event.access} ELSE {}

Writes(event) ==
    IF event.kind \in {"store", "variableWrite", "call"} THEN {event.access} ELSE {}

IsJoin(event) == event.kind \in {"if", "switch"}

\* The blocks a control event owns.
Children(event) ==
    IF IsJoin(event) \/ event.kind = "loop"
    THEN {event.arms[i] : i \in DOMAIN event.arms}
    ELSE {}

(***************************************************************************)
(* The index of a body: who owns a block, where it ends, and how nested    *)
(* sites project to a common block.                                        *)
(***************************************************************************)
Sites(b)  == DOMAIN b.sites
Values(b) == DOMAIN b.values
EventAt(b, s) == b.sites[s].event
BlockOf(b, s) == b.sites[s].block

OwnerSite(b, block) ==
    IF block = EntryBlock THEN None
    ELSE CHOOSE s \in Sites(b) : block \in Children(EventAt(b, s))

FirstSite(b, block) ==
    CHOOSE s \in Sites(b) : /\ BlockOf(b, s) = block
                            /\ \A t \in Sites(b) : BlockOf(b, t) = block => s <= t

EndSite(b, block) ==
    CHOOSE s \in Sites(b) : BlockOf(b, s) = block /\ EventAt(b, s).kind = "end"

\* The owner of a loop's body, None for any other block.
LoopOwner(b, block) ==
    LET owner == OwnerSite(b, block)
    IN  IF owner # None /\ EventAt(b, owner).kind = "loop" THEN owner ELSE None

\* A site, its block's owner, that one's block's owner, up to the entry block.
RECURSIVE Chain(_, _)
Chain(b, s) ==
    LET owner == OwnerSite(b, BlockOf(b, s))
    IN  {s} \cup (IF owner = None THEN {} ELSE Chain(b, owner))

\* What stands for s in an enclosing block.
ProjectTo(b, s, block) == CHOOSE t \in Chain(b, s) : BlockOf(b, t) = block

Encloses(b, ancestor, block) ==
    \E t \in Chain(b, FirstSite(b, block)) : BlockOf(b, t) = ancestor

(***************************************************************************)
(* The steps from an enclosing block down to a block, the outermost first, *)
(* each as the child block entered; empty when they are the same.          *)
(***************************************************************************)
RECURSIVE Path(_, _, _)
Path(b, ancestor, block) ==
    IF block = ancestor THEN <<>>
    ELSE Append(Path(b, ancestor, BlockOf(b, OwnerSite(b, block))), block)

Elements(seq) == {seq[i] : i \in DOMAIN seq}

\* The latest site that every one of these sites is, or comes after.
DominatingSite(b, uses) ==
    LET Common == {block \in {BlockOf(b, s) : s \in Sites(b)} :
                      \A s \in uses : \E t \in Chain(b, s) : BlockOf(b, t) = block}
        Deepest == CHOOSE block \in Common : \A other \in Common : Encloses(b, other, block)
        Projected == {ProjectTo(b, s, Deepest) : s \in uses}
    IN  CHOOSE s \in Projected : \A t \in Projected : s <= t

\* The innermost loop body around a block, None outside every loop.
RECURSIVE EnclosingLoop(_, _)
EnclosingLoop(b, block) ==
    CASE block = EntryBlock -> None
      [] block # EntryBlock /\ LoopOwner(b, block) # None -> block
      [] OTHER -> EnclosingLoop(b, BlockOf(b, OwnerSite(b, block)))

=============================================================================
