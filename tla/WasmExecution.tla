---------------------------- MODULE WasmExecution ----------------------------
(***************************************************************************)
(* A WebAssembly engine for emitted code, as far as the code uses it.      *)
(* Nothing of it is in the repository.                                     *)
(*                                                                         *)
(* A local remembers whose value was last written to it besides the word,  *)
(* so that a read can be told to find another value than it was emitted    *)
(* for.  An instruction that finds the stack other than validation would   *)
(* require ends the execution as "invalid".                                *)
(***************************************************************************)
EXTENDS BodyExecution

Engine(env) ==
    [pc |-> 1, stack |-> <<>>, labels |-> <<>>, locals |-> <<>>, env |-> env,
     memory |-> env.memory, trace |-> <<>>, loads |-> 0, left |-> MaxIterations,
     flow |-> "next", word |-> Unset, clobbered |-> FALSE]

Push(e, word) == [e EXCEPT !.stack = Append(@, word)]

Pop(e, n) == [e EXCEPT !.stack = SubSeq(@, 1, Len(@) - n)]

\* The n words on top of the stack, the deepest first.
Popped(e, n) == SubSeq(e.stack, Len(e.stack) - n + 1, Len(e.stack))

OpensLabel(op) == op \in {"block", "loop", "if"}

(***************************************************************************)
(* The position after the end (or, in search of the other arm, the else)   *)
(* that closes the depth-th open control, counted from the inside.         *)
(***************************************************************************)
RECURSIVE After(_, _, _, _)
After(code, pc, depth, stopAtElse) ==
    LET op == code[pc].op
    IN  IF depth = 1 /\ (op = "end" \/ (op = "else" /\ stopAtElse)) THEN pc
        ELSE After(code, pc + 1,
                   CASE OpensLabel(op) -> depth + 1 [] op = "end" -> depth - 1
                     [] OTHER -> depth, stopAtElse)

Label(e, loop) == [start |-> e.pc, height |-> Len(e.stack), loop |-> loop]

\* A branch to the label that many levels out.
Branch(code, e, depth) ==
    LET at    == Len(e.labels) - depth
        label == e.labels[at]
        cut   == [e EXCEPT !.stack = SubSeq(@, 1, label.height)]
    IN  IF label.loop
        THEN IF e.left = 0 THEN [e EXCEPT !.flow = "abandoned"]
             ELSE [cut EXCEPT !.labels = SubSeq(@, 1, at), !.pc = label.start + 1,
                              !.left = @ - 1]
        ELSE [cut EXCEPT !.labels = SubSeq(@, 1, at - 1),
                         !.pc = After(code, e.pc + 1, depth + 1, FALSE) + 1]

Next1(e) == [e EXCEPT !.pc = @ + 1]

AccessArity(access) == IF access = "whole" THEN 1 ELSE 0

Needs(instruction) ==
    LET op == instruction.op
    IN  CASE op = "value" -> Len(instruction.arg.inputs)
          [] op \in {"load", "loadSigned"} -> AccessArity(instruction.arg)
          [] op = "store" -> 1 + AccessArity(instruction.arg)
          [] op \in {"call", "local.set", "local.tee", "if", "br_table", "return", "drop"} -> 1
          [] OTHER -> 0

ValueWord(e, node, args) ==
    CASE node.kind = "parameter" -> e.env.parameter
      [] node.kind = "operation" -> Apply(node.op, args)

SetLocal(e, instruction, word) ==
    [e EXCEPT !.locals = [x \in DOMAIN @ \cup {instruction.arg} |->
        IF x = instruction.arg THEN [owner |-> instruction.owner, word |-> word] ELSE @[x]]]

GetLocal(e, instruction) ==
    IF instruction.arg \notin DOMAIN e.locals THEN [Push(e, 0) EXCEPT !.clobbered = TRUE]
    ELSE LET local == e.locals[instruction.arg]
         IN  [Push(e, local.word) EXCEPT !.clobbered = @ \/ local.owner # instruction.owner]

LoadWord(e, access, args) == e.memory[Cell(access, IF access = "whole" THEN args[1] ELSE 0)]

\* An end or else is reached with the stack as it was at the label.
Balanced(e) == Len(e.stack) = Last(e.labels).height

Perform(code, e, instruction, args) ==
    LET op  == instruction.op
        arg == instruction.arg
        to  == Pop(e, Len(args))
    IN  CASE op = "value" ->
                 LET word == ValueWord(e, arg, args)
                 IN  IF word = Trap THEN [e EXCEPT !.flow = "trap"] ELSE Next1(Push(to, word))
          [] op \in {"load", "loadSigned"} ->
                 LET word == LoadWord(e, arg, args)
                 IN  [Next1(Push(to, IF op = "load" THEN word ELSE SignExtend(word)))
                      EXCEPT !.loads = @ + 1]
          [] op = "store" -> Next1(Wrote(to, Cell(arg, args[1]), Last(args)))
          [] op = "call" -> Next1(Push(Wrote(to, arg, args[1]), e.memory[arg]))
          [] op = "local.get" -> Next1(GetLocal(e, instruction))
          [] op = "local.set" -> Next1(SetLocal(to, instruction, args[1]))
          [] op = "local.tee" -> Next1(SetLocal(e, instruction, args[1]))
          [] op = "drop" -> Next1(to)
          [] op \in {"block", "loop"} ->
                 Next1([e EXCEPT !.labels = Append(@, Label(e, op = "loop"))])
          [] op = "if" ->
                 LET inside == [to EXCEPT !.labels = Append(@, Label(to, FALSE))]
                     other  == After(code, e.pc + 1, 1, TRUE)
                 IN  IF args[1] # 0 THEN Next1(inside)
                     ELSE IF code[other].op = "else" THEN [inside EXCEPT !.pc = other + 1]
                     ELSE [to EXCEPT !.pc = other + 1]
          [] op = "else" ->
                 IF Balanced(e) THEN Branch(code, e, 0) ELSE [e EXCEPT !.flow = "invalid"]
          [] op = "end" ->
                 IF Balanced(e) THEN Next1([e EXCEPT !.labels = SubSeq(@, 1, Len(@) - 1)])
                 ELSE [e EXCEPT !.flow = "invalid"]
          [] op = "br" -> Branch(code, e, arg)
          [] op = "br_table" ->
                 Branch(code, to, IF args[1] < Len(arg.labels) THEN arg.labels[args[1] + 1]
                                  ELSE arg.default)
          [] op = "return" -> [e EXCEPT !.flow = "return", !.word = args[1]]
          [] op = "unreachable" -> [e EXCEPT !.flow = "unreachable"]

RECURSIVE Run(_, _)
Run(code, e) ==
    IF e.flow # "next" THEN e
    ELSE IF e.pc > Len(code) THEN [e EXCEPT !.flow = "invalid"]
    ELSE LET floor == IF e.labels = <<>> THEN 0 ELSE Last(e.labels).height
             needed == Needs(code[e.pc])
         IN  IF Len(e.stack) - needed < floor THEN [e EXCEPT !.flow = "invalid"]
             ELSE Run(code, Perform(code, e, code[e.pc], Popped(e, needed)))

RunCode(code, env) ==
    LET e == Run(code, Engine(env))
    IN  [flow |-> e.flow, word |-> e.word, trace |-> e.trace, loads |-> e.loads,
         clobbered |-> e.clobbered]

=============================================================================
