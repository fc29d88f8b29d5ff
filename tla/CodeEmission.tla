---------------------------- MODULE CodeEmission ----------------------------
(***************************************************************************)
(* Emission of the WebAssembly code of a scheduled body                    *)
(* (compiler/wasm/emit).                                                   *)
(*                                                                         *)
(* One pass over the site stream.  An evaluation is emitted once, at its   *)
(* anchor, and every later use in the stream reads its local.  c holds     *)
(* what does not change: the body, the evaluations, the operations kept    *)
(* where they were written, and the local of each owner.  em is the state  *)
(* of the pass: the code, the evaluations emitted, the open controls and   *)
(* the depth of labels.  An instruction records whose value a local holds, *)
(* for the properties only.                                                *)
(***************************************************************************)
EXTENDS WasmSchedule

Instruction(op, arg, owner) == [op |-> op, arg |-> arg, owner |-> owner]

NoOwner == Owner("none", None)

Write(em, op, arg) == [em EXCEPT !.code = Append(@, Instruction(op, arg, NoOwner))]

OnLocal(c, em, op, owner) ==
    [em EXCEPT !.code = Append(@, Instruction(op, c.local[owner], owner))]

Emitted(em, id) == [em EXCEPT !.emitted = @ \cup {id}]

HasLocal(c, id) == Owner("evaluation", id) \in DOMAIN c.local

-----------------------------------------------------------------------------
(* Values *)

(***************************************************************************)
(* A sign extension of a load that has this one use, at the same place,    *)
(* becomes a load that extends.                                            *)
(***************************************************************************)
FusedLoad(c, id) ==
    LET evaluation == c.evaluations[id]
        node  == c.b.values[evaluation.value]
        input == IF node.op = "extend"
                 THEN EvaluationForUse(c.evaluations, node.inputs[1], evaluation.anchor)
                 ELSE None
    IN  IF /\ input # None
           /\ c.evaluations[input].operationSite # None
           /\ EventAt(c.b, c.evaluations[input].operationSite).kind = "load"
           /\ c.evaluations[input].kind = "atUse"
           /\ c.evaluations[input].anchor = evaluation.anchor
           /\ ~HasLocal(c, input)
        THEN input ELSE None

RECURSIVE EmitUse(_, _, _, _), EmitValue(_, _, _, _), EmitSource(_, _, _, _)

EmitUses(c, em, operands, site) ==
    FoldLeft(LAMBDA acc, v : EmitUse(c, acc, v, site), em, operands)

\* The operands are on the stack.
EmitOperator(c, em, event, load) ==
    CASE event.kind = "load"  -> Write(em, load, event.access)
      [] event.kind = "store" -> Write(em, "store", event.access)
      [] event.kind = "call"  -> Write(em, "call", event.access)
      [] event.kind = "variableRead" ->
             OnLocal(c, em, "local.get", Owner("variable", event.access))
      [] event.kind = "variableWrite" ->
             OnLocal(c, em, "local.set", Owner("variable", event.access))

EmitOperation(c, em, event, site, load) ==
    EmitOperator(c, EmitUses(c, em, event.operands, site), event, load)

EmitSource(c, em, id, site) ==
    LET operationSite == c.evaluations[id].operationSite
        fused == FusedLoad(c, id)
    IN  CASE fused # None ->
                 Emitted(EmitOperation(c, em, EventAt(c.b, c.evaluations[fused].operationSite),
                                       site, "loadSigned"), fused)
          [] fused = None /\ operationSite # None ->
                 EmitOperation(c, em, EventAt(c.b, operationSite), site, "load")
          [] fused = None /\ operationSite = None ->
                 EmitValue(c, em, c.evaluations[id].value, site)

EmitValue(c, em, v, site) ==
    IF c.b.values[v].kind = "loopInput"
    THEN OnLocal(c, em, "local.get", Owner("loopInput", v))
    ELSE Write(EmitUses(c, em, c.b.values[v].inputs, site), "value", c.b.values[v])

\* The first use leaves the value in its local, if it has one.
Kept(c, em, id) ==
    IF HasLocal(c, id) THEN OnLocal(c, em, "local.tee", Owner("evaluation", id)) ELSE em

EmitEvaluation(c, em, id, site) ==
    IF id \in em.emitted THEN OnLocal(c, em, "local.get", Owner("evaluation", id))
    ELSE Kept(c, Emitted(EmitSource(c, em, id, site), id), id)

EmitUse(c, em, v, site) ==
    IF Source(c.b.values[v]) = "inline" THEN EmitValue(c, em, v, site)
    ELSE EmitEvaluation(c, em, EvaluationForUse(c.evaluations, v, site), site)

EmitCaptures(c, em, site) ==
    FoldLeft(LAMBDA acc, id :
                 OnLocal(c, Emitted(EmitSource(c, acc, id, site), id),
                         "local.set", Owner("evaluation", id)),
             em, CapturesAt(c.evaluations, site))

-----------------------------------------------------------------------------
(* Structured control *)

OpenControl(event, arm, labelDepth, output) ==
    [event |-> event, arm |-> arm, labelDepth |-> labelDepth, output |-> output,
     fallsThrough |-> event.kind = "if" /\ Len(event.arms) = 1]

Opened(em, labels, event, output) ==
    [em EXCEPT !.labelDepth = @ + labels,
               !.open = Append(@, OpenControl(event, 1, em.labelDepth + labels, output))]

\* The owner of the local that a live join's arms leave their results in.
JoinOwner(c, event) ==
    LET id == IF event.output = None THEN None
              ELSE EvaluationForUse(c.evaluations, event.output, None)
    IN  IF id = None THEN NoOwner ELSE Owner("evaluation", id)

EmitIf(c, em, event, site) ==
    LET header == EmitCaptures(c, EmitUses(c, em, event.operands, site), site)
    IN  Opened(Write(header, "if", None), 1, event, JoinOwner(c, event))

\* The case that a selector branches to, numbered from 0; the default comes last.
SwitchLabel(selector) ==
    IF \E i \in DOMAIN CaseMatches : selector \in CaseMatches[i]
    THEN (CHOOSE i \in DOMAIN CaseMatches : selector \in CaseMatches[i]) - 1
    ELSE Len(CaseMatches)

\* As long as the largest match; what is beyond it takes the default.
SwitchTable ==
    LET matches == UNION Elements(CaseMatches)
    IN  IF matches = {} THEN <<>> ELSE [i \in 1 .. Max(matches) + 1 |-> SwitchLabel(i - 1)]

\* Blocks open as the join, the default, and the cases from the last to the first.
EmitSwitch(c, em, event, site) ==
    LET cases  == Len(CaseMatches)
        blocks == FoldLeft(LAMBDA acc, i : Write(acc, "block", None), em,
                           [i \in 1 .. cases + 2 |-> i])
        header == EmitCaptures(c, EmitUses(c, blocks, event.operands, site), site)
        table  == Write(header, "br_table", [labels |-> SwitchTable, default |-> cases])
    IN  Opened(Write(table, "end", None), cases + 1, event, JoinOwner(c, event))

EmitLoop(c, em, event, site) ==
    LET seeded == FoldLeft(LAMBDA acc, i :
                               OnLocal(c, EmitUse(c, acc, event.operands[i], site),
                                       "local.set", Owner("loopInput", event.inputs[i])),
                           em, [i \in DOMAIN event.operands |-> i])
    IN  Opened(Write(EmitCaptures(c, seeded, site), "loop", None), 1, event, NoOwner)

InnermostLoop(em) ==
    LET loops == {i \in DOMAIN em.open : em.open[i].event.kind = "loop"}
    IN  em.open[Max(loops)]

\* Slip: assigns each carried local before the next update is computed.
EmitLoopContinueInTurn(c, em, event, site) ==
    LET loop == InnermostLoop(em)
        assigned == FoldLeft(LAMBDA acc, i :
                                 OnLocal(c, EmitUse(c, acc, event.operands[i], site),
                                         "local.set", Owner("loopInput", loop.event.inputs[i])),
                             em, [i \in DOMAIN event.operands |-> i])
    IN  Write(assigned, "br", em.labelDepth - loop.labelDepth)

\* Every update is pushed before any carried local changes.
EmitLoopContinue(c, em, event, site) ==
    LET loop == InnermostLoop(em)
        pushed == EmitUses(c, em, event.operands, site)
        popped == FoldRight(LAMBDA input, acc :
                                OnLocal(c, acc, "local.set", Owner("loopInput", input)),
                            loop.event.inputs, pushed)
    IN  Write(popped, "br", em.labelDepth - loop.labelDepth)

WithoutTop(em) ==
    [em EXCEPT !.open = SubSeq(@, 1, Len(@) - 1), !.labelDepth = @ - 1]

\* The join's local counts as emitted from here; a join nobody reaches is sealed.
CloseControl(em, open, seal) ==
    LET ended == Write(WithoutTop(em), "end", None)
        marked == IF open.output = NoOwner THEN ended ELSE Emitted(ended, open.output.id)
    IN  IF seal THEN Write(marked, "unreachable", None) ELSE marked

NextControlArm(em) == [em EXCEPT !.open[Len(em.open)].arm = @ + 1]

EndArm(em, open) ==
    LET more == open.arm < Len(open.event.arms)
        left == Len(open.event.arms) - 1 - (open.arm - 1)
    IN  CASE open.event.kind = "if" /\ more ->
                 Write(NextControlArm(em), "else", None)
          [] open.event.kind = "if" /\ ~more ->
                 CloseControl(em, open, Len(open.event.arms) = 2 /\ ~open.fallsThrough)
          [] open.event.kind = "switch" /\ more ->
                 [Write(Write(NextControlArm(em), "br", left), "end", None)
                  EXCEPT !.labelDepth = @ - 1]
          [] open.event.kind = "switch" /\ ~more -> CloseControl(em, open, ~open.fallsThrough)

EmitEnd(c, em, event, site) ==
    LET top    == em.open[Len(em.open)]
        open   == [top EXCEPT !.fallsThrough = @ \/ event.fallsThrough]
        joined == IF event.result # None /\ top.output # NoOwner
                  THEN OnLocal(c, EmitUse(c, em, event.result, site), "local.set", top.output)
                  ELSE em
        noted  == [joined EXCEPT !.open[Len(em.open)] = open]
    IN  IF top.event.kind = "loop" THEN Write(WithoutTop(noted), "end", None)
        ELSE EndArm(noted, open)

-----------------------------------------------------------------------------
(* The pass over the sites *)

CapturesAfterOperands(event) == event.kind \in {"if", "switch", "loop"}

Dropped(em, event) == IF event.output = None THEN em ELSE Write(em, "drop", None)

\* A written operation whose result nobody wants is emitted in place.
EmitAuthored(c, em, event, site) ==
    IF site \notin c.authored THEN em
    ELSE Dropped(EmitOperation(c, em, event, site, "load"), event)

\* The captures of the site are emitted already, except a control's.
EmitEvent(c, em, event, site) ==
    CASE event.kind = "if"           -> EmitIf(c, em, event, site)
      [] event.kind = "switch"       -> EmitSwitch(c, em, event, site)
      [] event.kind = "loop"         -> EmitLoop(c, em, event, site)
      [] event.kind = "loopContinue" -> EmitLoopContinue(c, em, event, site)
      [] event.kind = "return" -> Write(EmitUses(c, em, event.operands, site), "return", None)
      [] event.kind = "end" ->
             IF BlockOf(c.b, site) = EntryBlock THEN em ELSE EmitEnd(c, em, event, site)
      [] OTHER -> EmitAuthored(c, em, event, site)

EmitSite(c, em, site) ==
    LET event == EventAt(c.b, site)
    IN  EmitEvent(c, IF CapturesAfterOperands(event) THEN em ELSE EmitCaptures(c, em, site),
                  event, site)

EmitBody(c) ==
    FoldLeft(LAMBDA em, site : EmitSite(c, em, site),
             [code |-> <<>>, emitted |-> {}, open |-> <<>>, labelDepth |-> 0],
             [s \in Sites(c.b) |-> s])

=============================================================================
