-------------------------- MODULE MCWasmCompilation --------------------------
(***************************************************************************)
(* Instances of WasmCompilation.  Each family aims at one thing that the   *)
(* scheduling of values can get wrong.                                     *)
(***************************************************************************)
EXTENDS WasmCompilation

TwoCases == <<{0}, {2}>>

OneMemory == {[low |-> 2, high |-> 1]}

Family ==
    [eventKinds |-> {"return"}, accesses |-> {}, unary |-> {}, binary |-> {},
     carriedCounts |-> {0}, hints |-> {"none"},
     maxSites |-> 6, maxValues |-> 3, maxDepth |-> 2]

\* Loads delayed past stores of the same, another and an unknown part of a resource.
Aliasing ==
    [Family EXCEPT !.eventKinds = @ \cup {"load", "store", "if"},
                   !.accesses = {"low", "high", "whole"}]

\* Calls that write, some with a dead result; a sign extension fused into a load.
Calls ==
    [Family EXCEPT !.eventKinds = @ \cup {"load", "store", "call", "if"},
                   !.accesses = {"low"}, !.unary = {"extend"}, !.maxValues = 4]

\* Divisions wanted in some arms, after the join, and through a join's result.
Joins ==
    [Family EXCEPT !.eventKinds = @ \cup {"if", "switch", "join"},
                   !.unary = {"divide"}, !.maxSites = 8, !.maxValues = 4]

\* Uses split between a hinted arm that does not come back and the main path.
Hinted ==
    [Family EXCEPT !.eventKinds = @ \cup {"if", "load"}, !.accesses = {"low"},
                   !.unary = {"mask"}, !.hints = {"none", "likely", "unlikely"},
                   !.maxSites = 8, !.maxValues = 4]

\* Loads before and inside a loop, with stores that alias them on the back edge.
Loops ==
    [Family EXCEPT !.eventKinds = @ \cup {"loop", "loopContinue", "if", "load", "store"},
                   !.accesses = {"low"}, !.carriedCounts = {1},
                   !.maxSites = 8, !.maxValues = 4, !.maxDepth = 3]

\* Two carried values that a continue exchanges or computes from one another.
Carried ==
    [Family EXCEPT !.eventKinds = @ \cup {"loop", "loopContinue", "if"},
                   !.unary = {"flip"}, !.carriedCounts = {2},
                   !.maxSites = 8, !.maxValues = 4, !.maxDepth = 3]

\* A variable read early and wanted late, across writes in arms and loops.
OneVariable ==
    [Family EXCEPT !.eventKinds = @ \cup {"loop", "if", "loopContinue",
                                          "variableRead", "variableWrite"},
                   !.accesses = {"x"}, !.unary = {"flip"}, !.maxSites = 7, !.maxValues = 4]

\* What the next iteration wants and what this one defines after its last use.
TwoVariables ==
    [Family EXCEPT !.eventKinds = @ \cup {"loop", "loopContinue",
                                          "variableRead", "variableWrite"},
                   !.accesses = {"x", "y"}, !.maxSites = 9, !.maxValues = 2]

\* A division wanted in an arm inside a loop and after the loop.
DivisionInLoop ==
    [Family EXCEPT !.eventKinds = @ \cup {"loop", "if"}, !.unary = {"divide"},
                   !.maxSites = 9, !.maxDepth = 3]

EventFamilies ==
    {Aliasing, Calls, Joins, Hinted, Loops, Carried, OneVariable, TwoVariables}

TrapFamilies == {DivisionInLoop}

=============================================================================
