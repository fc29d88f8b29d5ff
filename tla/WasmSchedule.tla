---------------------------- MODULE WasmSchedule ----------------------------
(***************************************************************************)
(* From a placement to what emission looks up: the claims on locals and    *)
(* which evaluation a use is served by (compiler/wasm/plan).               *)
(***************************************************************************)
EXTENDS ValuePlacement, TLC

\* Slip: the last use in the stream ends the lifetime.
LifetimeEndInStream(b, anchor, lastUse) == lastUse

(***************************************************************************)
(* A value defined outside a loop is wanted again in the next iteration,   *)
(* so its local lives to the end of every loop entered on the way to the   *)
(* last use.                                                               *)
(***************************************************************************)
LocalLifetimeEnd(b, anchor, lastUse) ==
    LET path == Path(b, BlockOf(b, anchor), BlockOf(b, lastUse))
        loops == {i \in DOMAIN path : LoopOwner(b, path[i]) # None}
    IN  Max({lastUse} \cup {EndSite(b, path[i]) : i \in loops})

\* A single use emitted in place needs no local.
NeedsLocal(evaluation) == ~(evaluation.kind = "atUse" /\ Len(evaluation.uses) = 1)

Owner(kind, id) == [kind |-> kind, id |-> id]

Claim(start, end, kind, id) ==
    [claim |-> [type |-> "i32", start |-> start, end |-> end], owner |-> Owner(kind, id)]

EvaluationClaims(b, evaluations) ==
    LET placed == [i \in DOMAIN evaluations |->
                      Claim(evaluations[i].anchor,
                            LocalLifetimeEnd(b, evaluations[i].anchor,
                                             Max(Elements(evaluations[i].uses))),
                            "evaluation", i)]
    IN  SelectSeq(placed, LAMBDA owned : NeedsLocal(evaluations[owned.owner.id]))

LoopInputClaims(b) ==
    FlattenSeq([s \in Sites(b) |->
        [i \in DOMAIN EventAt(b, s).inputs |->
            Claim(s, EndSite(b, EventAt(b, s).arms[1]), "loopInput", EventAt(b, s).inputs[i])]])

AccessesOf(b, variable) ==
    {s \in Sites(b) : /\ EventAt(b, s).kind \in {"variableRead", "variableWrite"}
                      /\ EventAt(b, s).access = variable}

\* Slip: a variable lives to its last authored access.
NoDelayedReads(b, evaluations, variable) == {}

\* Where reads of the variable are evaluated.
DelayedReads(b, evaluations, variable) ==
    {evaluation.anchor : evaluation \in
        {e \in Elements(evaluations) : e.operationSite \in AccessesOf(b, variable)}}

\* A variable lives from its seed to its last access, written or delayed.
VariableClaims(b, evaluations) ==
    LET seeds == SelectSeq([s \in Sites(b) |-> s], LAMBDA s : EventAt(b, s).seed)
        End(seed, variable) ==
            Max({LocalLifetimeEnd(b, seed, s) :
                    s \in AccessesOf(b, variable) \cup DelayedReads(b, evaluations, variable)})
    IN  [i \in DOMAIN seeds |->
            LET variable == EventAt(b, seeds[i]).access
            IN  Claim(seeds[i], End(seeds[i], variable), "variable", variable)]

\* Evaluations, then loop inputs, then variables among claims of one site.
ClaimsOf(b, evaluations) ==
    LET all == EvaluationClaims(b, evaluations) \o LoopInputClaims(b)
               \o VariableClaims(b, evaluations)
        bySite == SortSeq([i \in DOMAIN all |-> i],
                          LAMBDA i, j : LET a == all[i].claim.start
                                            c == all[j].claim.start
                                        IN  a < c \/ (a = c /\ i < j))
    IN  [i \in DOMAIN bySite |-> all[bySite[i]]]

\* Slip: every use is served by the default evaluation.
DefaultEvaluation(evaluations, v, site) ==
    LET default == {i \in DOMAIN evaluations :
                       evaluations[i].value = v /\ evaluations[i].isDefault}
    IN  IF default # {} THEN CHOOSE i \in default : TRUE ELSE None

\* The evaluation that serves a use: one placed for its path, else the default one.
EvaluationForUse(evaluations, v, site) ==
    LET overriding == {i \in DOMAIN evaluations :
                          /\ evaluations[i].value = v /\ ~evaluations[i].isDefault
                          /\ site \in Elements(evaluations[i].uses)}
        default == {i \in DOMAIN evaluations :
                       evaluations[i].value = v /\ evaluations[i].isDefault}
    IN  IF overriding # {} THEN CHOOSE i \in overriding : TRUE
        ELSE IF default # {} THEN CHOOSE i \in default : TRUE
        ELSE None

\* The evaluations captured at a site, in the order of placement.
CapturesAt(evaluations, site) ==
    SelectSeq([i \in DOMAIN evaluations |-> i],
              LAMBDA i : evaluations[i].kind = "capture" /\ evaluations[i].anchor = site)

=============================================================================
