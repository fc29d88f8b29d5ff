---------------------------- MODULE BodyExecution ----------------------------
(***************************************************************************)
(* What a body means: the operations in the order they were written, and   *)
(* each value at the place that wants it.  This is the reference that the  *)
(* planned and emitted code is compared with; it knows nothing of          *)
(* placement, locals or code.                                              *)
(*                                                                         *)
(* Words have three bits and a cell of the resource two, so a load         *)
(* extends; an address picks a cell by its lowest bit.  Loops run a        *)
(* bounded number of iterations, after which an execution is abandoned.    *)
(***************************************************************************)
EXTENDS StructuredBody, SequencesExt

CONSTANT MaxIterations  \* bound on the back edges of one execution

ASSUME IterationsAssumption == MaxIterations \in Nat

Words   == 0 .. 7
Bytes   == 0 .. 3
Trap    == -1
Unset   == -2  \* an output whose operation has not been executed

SignExtend(word) == IF word % 4 >= 2 THEN (word % 4) + 4 ELSE word % 4

Apply(op, args) ==
    CASE op = "flip"   -> 7 - args[1]
      [] op = "mask"   -> args[1] % 2
      [] op = "extend" -> SignExtend(args[1])
      [] op = "add"    -> (args[1] + args[2]) % 8
      [] op = "divide" -> IF args[1] = 0 THEN Trap ELSE 7 \div args[1]

\* The cell that an access reaches.
Cell(access, address) ==
    CASE access \in Slices -> access
      [] access = "whole"  -> IF address % 2 = 0 THEN "low" ELSE "high"

Environment(parameter, memory) == [parameter |-> parameter, memory |-> memory]

-----------------------------------------------------------------------------
(***************************************************************************)
(* Values somebody wants: what structure and writes consume, and what      *)
(* these are computed from.  An operation that writes is executed whether  *)
(* or not its result is wanted; any other only for its result.             *)
(***************************************************************************)
WantedBy(b, v) ==
    LET node == b.values[v]
        producers == {s \in Sites(b) : EventAt(b, s).output = v}
    IN  Elements(node.inputs)
        \cup UNION {Elements(EventAt(b, s).operands) : s \in producers}
        \cup {EventAt(b, s).result : s \in {t \in Sites(b) :
                 EventAt(b, t).kind = "end"
                 /\ \E p \in producers : BlockOf(b, t) \in Children(EventAt(b, p))}}

RECURSIVE Closure(_, _)
Closure(b, wanted) ==
    LET more == wanted \cup UNION {WantedBy(b, v) : v \in wanted}
    IN  IF more = wanted THEN wanted ELSE Closure(b, more)

Live(b) ==
    Closure(b, UNION {Elements(EventAt(b, s).operands) :
                          s \in {t \in Sites(b) : \/ Category(EventAt(b, t)) = "control"
                                                  \/ Writes(EventAt(b, t)) # {}}})

-----------------------------------------------------------------------------
(***************************************************************************)
(* Execution.  m is the machine: the outputs so far, the memory, the       *)
(* variables, the writes in their order, the number of loads, the back     *)
(* edges left, and how the last event left off; word is what a return      *)
(* gives and words what a loop continues with.                             *)
(***************************************************************************)
Machine(b, env) ==
    [outputs |-> [v \in Values(b) |-> Unset], env |-> env, memory |-> env.memory,
     variables |-> <<>>, trace |-> <<>>, loads |-> 0, left |-> MaxIterations,
     flow |-> "next", word |-> Unset, words |-> <<>>]

ValueOf(b, m, v) ==
    LET value[w \in Values(b)] ==
            LET node == b.values[w]
                args == [i \in DOMAIN node.inputs |-> value[node.inputs[i]]]
            IN  CASE node.kind = "parameter" -> m.env.parameter
                  [] node.kind \in {"producerOutput", "loopInput"} -> m.outputs[w]
                  [] node.kind = "operation" ->
                         IF Trap \in Elements(args) THEN Trap ELSE Apply(node.op, args)
    IN  value[v]

\* The address of an access is its first operand but for a slice, which has none.
AddressOf(event, args) == IF event.access = "whole" THEN args[1] ELSE 0

Wrote(m, cell, word) ==
    [m EXCEPT !.memory[cell] = word % 4, !.trace = Append(@, <<cell, word % 4>>)]

Yield(m, event, word) ==
    IF event.output = None THEN m ELSE [m EXCEPT !.outputs[event.output] = word]

Executed(m, event, args) ==
    CASE event.kind = "load" ->
             Yield([m EXCEPT !.loads = @ + 1], event,
                   m.memory[Cell(event.access, AddressOf(event, args))])
      [] event.kind = "store" ->
             Wrote(m, Cell(event.access, AddressOf(event, args)), Last(args))
      [] event.kind = "call" ->
             Yield(Wrote(m, event.access, args[1]), event, m.memory[event.access])
      [] event.kind = "variableRead" -> Yield(m, event, m.variables[event.access])
      [] event.kind = "variableWrite" ->
             [m EXCEPT !.variables = [x \in DOMAIN @ \cup {event.access} |->
                                         IF x = event.access THEN args[1] ELSE @[x]]]

\* The arm a condition or selector takes, None for an if without one.
ArmTaken(event, word) ==
    CASE event.kind = "if" ->
             IF word # 0 THEN event.arms[1]
             ELSE IF Len(event.arms) = 2 THEN event.arms[2] ELSE None
      [] event.kind = "switch" ->
             IF \E i \in DOMAIN CaseMatches : word \in CaseMatches[i]
             THEN event.arms[CHOOSE i \in DOMAIN CaseMatches : word \in CaseMatches[i]]
             ELSE Last(event.arms)

BlockSites(b, block) == SelectSeq([s \in Sites(b) |-> s], LAMBDA s : BlockOf(b, s) = block)

Iterating(m, inputs, words) ==
    [m EXCEPT !.flow = "next", !.words = <<>>,
              !.outputs = [v \in DOMAIN @ |->
                  IF v \in Elements(inputs)
                  THEN words[CHOOSE i \in DOMAIN inputs : inputs[i] = v] ELSE @[v]]]

RECURSIVE RunBlock(_, _, _, _), RunSite(_, _, _, _), RunLoop(_, _, _, _)

RunBlock(b, live, m, block) ==
    FoldLeft(LAMBDA acc, s : IF acc.flow = "next" THEN RunSite(b, live, acc, s) ELSE acc,
             m, BlockSites(b, block))

RunLoop(b, live, m, event) ==
    LET done == RunBlock(b, live, m, event.arms[1])
    IN  CASE done.flow # "continue" -> done
          [] done.flow = "continue" /\ done.left = 0 -> [done EXCEPT !.flow = "abandoned"]
          [] done.flow = "continue" /\ done.left > 0 ->
                 RunLoop(b, live, [Iterating(done, event.inputs, done.words)
                                   EXCEPT !.left = @ - 1], event)

RunJoin(b, live, m, event, word) ==
    LET arm  == ArmTaken(event, word)
        done == RunBlock(b, live, m, arm)
        result == EventAt(b, EndSite(b, arm)).result
    IN  IF arm = None THEN m
        ELSE IF done.flow # "next" \/ event.output \notin live THEN done
        ELSE LET yielded == ValueOf(b, done, result)
             IN  IF yielded = Trap THEN [done EXCEPT !.flow = "trap"]
                 ELSE Yield(done, event, yielded)

RunSite(b, live, m, s) ==
    LET event == EventAt(b, s)
        args  == [i \in DOMAIN event.operands |-> ValueOf(b, m, event.operands[i])]
        unwanted == /\ Category(event) = "operation" /\ Writes(event) = {}
                    /\ event.output \notin live
    IN  IF unwanted \/ event.kind = "end" THEN m
        ELSE IF Trap \in Elements(args) THEN [m EXCEPT !.flow = "trap"]
        ELSE CASE Category(event) = "operation" -> Executed(m, event, args)
               [] IsJoin(event) -> RunJoin(b, live, m, event, args[1])
               [] event.kind = "loop" ->
                      RunLoop(b, live, Iterating(m, event.inputs, args), event)
               [] event.kind = "loopContinue" ->
                      [m EXCEPT !.flow = "continue", !.words = args]
               [] event.kind = "return" -> [m EXCEPT !.flow = "return", !.word = args[1]]

\* How an execution of the body goes, as much of it as can be seen from outside.
Observed(m) == [flow |-> m.flow, word |-> m.word, trace |-> m.trace, loads |-> m.loads]

RunBody(b, env) == Observed(RunBlock(b, Live(b), Machine(b, env), EntryBlock))

=============================================================================
