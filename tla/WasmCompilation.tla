--------------------------- MODULE WasmCompilation ---------------------------
(***************************************************************************)
(* The compilation of a function's body to WebAssembly from end to end:    *)
(* lowering, placement and schedule, allocation of locals, emission; and   *)
(* then executions of the body and of its code side by side.               *)
(***************************************************************************)
EXTENDS FunctionLowering, CodeEmission, LocalAllocation, WasmExecution

CONSTANTS
    Parameters,  \* the words the function is called with
    Memories     \* the memories it may find

ASSUME ExecutionAssumption ==
    /\ Parameters \subseteq Words
    /\ Memories \subseteq [Slices -> Bytes]

VARIABLES
    plan,      \* the placement once there is one
    code,      \* the emitted code
    observed   \* an execution of the body and one of its code

compilationVars == <<loweringVars, allocationVars, plan, code, observed>>

NoPlan == [evaluations |-> <<>>, authored |-> {None}, owners |-> <<>>]

Planned  == plan # NoPlan
Emission == code # <<>>

CompilationInit ==
    /\ LoweringInit
    /\ claims = <<>> /\ locals = <<>> /\ assigned = <<>>
    /\ plan = NoPlan
    /\ code = <<>>
    /\ observed = <<>>

Lower == LowerNext /\ UNCHANGED <<allocationVars, plan, code, observed>>

\* Demands, placement and claims of a lowered body.
Schedule ==
    /\ ~Lowering /\ ~Planned
    /\ \E placed \in {Place(Body, Analysis(Body))} :
          \E evaluations \in {Evaluations(placed)}, owned \in {ClaimsOf(Body, Evaluations(placed))} :
             /\ plan' = [evaluations |-> evaluations, authored |-> placed.authored,
                         owners |-> [i \in DOMAIN owned |-> owned[i].owner]]
             /\ claims' = [i \in DOMAIN owned |-> owned[i].claim]
    /\ UNCHANGED <<loweringVars, locals, assigned, code, observed>>

Allocate == Planned /\ AllocateNext /\ UNCHANGED <<loweringVars, plan, code, observed>>

LocalOf ==
    [owner \in Elements(plan.owners) |->
        assigned[CHOOSE i \in DOMAIN claims : plan.owners[i] = owner]]

Emit ==
    /\ Planned /\ ~Emission
    /\ Len(assigned) = Len(claims)
    /\ code' = EmitBody([b |-> Body, evaluations |-> plan.evaluations,
                         authored |-> plan.authored, local |-> LocalOf]).code
    /\ UNCHANGED <<loweringVars, allocationVars, plan, observed>>

Execute ==
    /\ Emission /\ observed = <<>>
    /\ \E parameter \in Parameters, memory \in Memories :
          LET env == Environment(parameter, memory)
          IN  observed' = <<RunBody(Body, env), RunCode(code, env)>>
    /\ UNCHANGED <<loweringVars, allocationVars, plan, code>>

CompilationNext == Lower \/ Schedule \/ Allocate \/ Emit \/ Execute

Compilation == CompilationInit /\ [][CompilationNext]_compilationVars

-----------------------------------------------------------------------------
(* Properties *)

Compared == observed # <<>>

\* Whatever placement delays, shares, splits or lifts, the code does the calls and
\* stores of the body, with the same words in the same order, and returns the same
\* word; it traps exactly when the body does, if maybe not after the same stores
\* (placement.ts, placement-analysis.ts, locals.ts, emit/).
SameBehaviour ==
    Compared =>
        /\ observed[2].flow = observed[1].flow
        /\ observed[1].flow # "trap" =>
              /\ observed[2].word = observed[1].word
              /\ observed[2].trace = observed[1].trace

\* An instruction that can trap is not evaluated on a path that does not want it:
\* "Unsafe evaluations stay within selected arms unless mandatory predecessors
\* make a shared capture safe" (placement.ts:187).
UnsafeStaysSelected ==
    Compared /\ observed[1].flow = "return" => observed[2].flow # "trap"

\* Where a value is split into several evaluations, each use is served by the one
\* placed for it, which stands on every path to the use; two evaluations of one
\* value never serve one use (placement.ts #placeExpressionUses, schedule.ts).
UsesAreServed ==
    \A i \in DOMAIN plan.evaluations :
        LET evaluation == plan.evaluations[i]
        IN  \A use \in Elements(evaluation.uses) :
                /\ EvaluationForUse(plan.evaluations, evaluation.value, use) = i
                /\ DominatingSite(Body, {evaluation.anchor, use}) = evaluation.anchor

\* A local that several owners share is read only while it holds the value of
\* the owner it is read for (LocalPlanner and the back edges of loops).
SharingIsInvisible == Compared => ~observed[2].clobbered

\* Delaying a load never makes it execute more often, as it would inside a loop
\* (placement.ts #clampBeforeNestedLoop).
NoExtraLoads ==
    Compared /\ observed[1].flow # "trap" => observed[2].loads <= observed[1].loads

=============================================================================
