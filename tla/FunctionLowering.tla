-------------------------- MODULE FunctionLowering --------------------------
(***************************************************************************)
(* Lowering of a function's regions to a body (compiler/wasm/lower).       *)
(*                                                                         *)
(* The lowerer walks the regions in order.  It reserves the site of a      *)
(* control before the sites of its children and writes the event there     *)
(* once they are lowered.  Values are lowered at their first use and       *)
(* interned for the whole function, so an expression first used inside an  *)
(* arm is the same value when it is used again outside.                    *)
(*                                                                         *)
(* The source of a function is not a variable: what the walk meets next is *)
(* a choice, among the regions a region builder can build.                 *)
(***************************************************************************)
EXTENDS StructuredBody

CONSTANT Families

(***************************************************************************)
(* A family of functions says what its members are built from: eventKinds, *)
(* accesses to the resource and the variables, operators of one and of two *)
(* operands, how many values a loop carries, the hints of an if; and how   *)
(* large they are.                                                         *)
(***************************************************************************)
ASSUME FamiliesAssumption ==
    \A f \in Families :
        /\ f.unary \cup f.binary \subseteq Operators
        /\ f.carriedCounts \subseteq Nat
        /\ f.hints \subseteq {"none", "likely", "unlikely"}
        /\ {f.maxSites, f.maxValues, f.maxDepth} \subseteq Nat

VARIABLES
    sites,   \* the sites so far, reserved ones with an event of kind "reserved"
    values,  \* the value nodes so far
    open,    \* the regions being lowered, the innermost last
    family   \* the family the function belongs to

loweringVars == <<sites, values, open, family>>

EventKinds    == family.eventKinds
Accesses      == family.accesses
UnaryUsed     == family.unary
BinaryUsed    == family.binary
CarriedCounts == family.carriedCounts
Hints         == family.hints
MaxSites      == family.maxSites
MaxValues     == family.maxValues
MaxDepth      == family.maxDepth

Variables == Accesses \ ResourceAccesses

(***************************************************************************)
(* An open region: what kind of control it is a body of, that control's    *)
(* site and arms so far, whether the control yields a value, what it       *)
(* defined, and whether its end is still reachable.                        *)
(***************************************************************************)
Region(kind, site, block) ==
    [kind |-> kind, site |-> site, arms |-> <<block>>, valued |-> FALSE, hint |-> "none",
     seeds |-> <<>>, inputs |-> <<>>, scope |-> {}, variables |-> {}, live |-> TRUE, fellThrough |-> FALSE]

Top      == open[Len(open)]
TopBlock == Top.arms[Len(Top.arms)]

\* Blocks are numbered in the order they are opened.
NextBlock ==
    1 + Cardinality(UNION {Elements(open[i].arms) : i \in DOMAIN open}
                    \cup {sites[s].block : s \in DOMAIN sites})

Lowering == open # <<>>

-----------------------------------------------------------------------------
(* Values *)

InScope == UNION {open[i].scope : i \in DOMAIN open}

VariablesInScope == UNION {open[i].variables : i \in DOMAIN open}

\* Usable where the walk is: everything it depends on is defined on the way here.
Visible(vals) ==
    LET visible[v \in DOMAIN vals] ==
            IF vals[v].kind \in {"producerOutput", "loopInput"} THEN v \in InScope
            ELSE \A i \in DOMAIN vals[v].inputs : visible[vals[v].inputs[i]]
    IN  {v \in DOMAIN vals : visible[v]}

Lowered(vals, v) == [values |-> vals, id |-> v]

Intern(vals, node) ==
    IF \E v \in DOMAIN vals : vals[v] = node
    THEN Lowered(vals, CHOOSE v \in DOMAIN vals : vals[v] = node)
    ELSE Lowered(Append(vals, node), Len(vals) + 1)

\* Every output is a value of its own.
Producer(vals, kind) == Lowered(Append(vals, Node(kind, "none", <<>>)), Len(vals) + 1)

\* Results of lowering one operand: a value that is there, or an expression over such.
Operands(vals) ==
    {lowered \in
        {Lowered(vals, v) : v \in Visible(vals)}
        \cup {Intern(vals, Node("operation", op, <<v>>)) : op \in UnaryUsed, v \in Visible(vals)}
        \cup {Intern(vals, Node("operation", op, <<v, w>>)) :
                  op \in BinaryUsed, v \in Visible(vals), w \in Visible(vals)} :
     Len(lowered.values) <= MaxValues}

\* Operand lists of a length, each operand lowered after the ones before it.
RECURSIVE OperandLists(_, _)
OperandLists(vals, n) ==
    IF n = 0 THEN {[values |-> vals, ids |-> <<>>]}
    ELSE {[values |-> o.values, ids |-> Append(list.ids, o.id)] :
              <<list, o>> \in UNION {{<<list, o>> : o \in Operands(list.values)} :
                                     list \in OperandLists(vals, n - 1)}}

-----------------------------------------------------------------------------
(* Sites *)

Reserved == Event("reserved", <<>>, None)

\* Ends, and the return of the entry region, that are still owed.
Owed ==
    LET ArmsOwed(region) ==
            CASE region.kind = "if" -> IF region.valued THEN 2 - Len(region.arms) ELSE 0
              [] region.kind = "switch" -> Len(CaseMatches) + 1 - Len(region.arms)
              [] OTHER -> 0
        owed[i \in 0 .. Len(open)] ==
            IF i = 0 THEN 0 ELSE owed[i - 1] + 1 + ArmsOwed(open[i])
    IN  owed[Len(open)] + (IF open[1].live THEN 1 ELSE 0)

\* There is room for n more sites besides the ones owed.
RoomFor(n) == Len(sites) + Owed + n <= MaxSites

AppendSite(event) == Append(sites, [block |-> TopBlock, event |-> event])

Defining(outputs) == [open EXCEPT ![Len(open)].scope = @ \cup outputs]

Terminated == [open EXCEPT ![Len(open)].live = FALSE]

LoweringInit ==
    /\ family \in Families
    /\ sites = <<>>
    /\ values = <<Node("parameter", "none", <<>>)>>
    /\ open = <<Region("entry", None, EntryBlock)>>

Ready(kind) == Lowering /\ Top.live /\ kind \in EventKinds

-----------------------------------------------------------------------------
(* Operations *)

\* An access to the whole resource computes its address.
AddressCount(access) == IF access = "whole" THEN 1 ELSE 0

Load ==
    /\ Ready("load") /\ RoomFor(1)
    /\ \E access \in Accesses \cap ResourceAccesses :
       \E operands \in OperandLists(values, AddressCount(access)) :
          LET output == Producer(operands.values, "producerOutput")
          IN  /\ Len(output.values) <= MaxValues
              /\ values' = output.values
              /\ sites' = AppendSite([Event("load", operands.ids, output.id)
                                      EXCEPT !.access = access])
              /\ open' = Defining({output.id})

\* The value is lowered before the address although it is stored after it.
Store ==
    /\ Ready("store") /\ RoomFor(1)
    /\ \E access \in Accesses \cap ResourceAccesses :
       \E operands \in OperandLists(values, 1 + AddressCount(access)) :
          LET stored == [i \in DOMAIN operands.ids |-> operands.ids[Len(operands.ids) + 1 - i]]
          IN  /\ values' = operands.values
              /\ sites' = AppendSite([Event("store", stored, None) EXCEPT !.access = access])
              /\ UNCHANGED open

\* A call of a function that stores its argument and returns what was there.
Call ==
    /\ Ready("call") /\ RoomFor(1)
    /\ \E access \in Accesses \cap Slices, operand \in Operands(values) :
          LET output == Producer(operand.values, "producerOutput")
          IN  /\ Len(output.values) <= MaxValues
              /\ values' = output.values
              /\ sites' = AppendSite([Event("call", <<operand.id>>, output.id)
                                      EXCEPT !.access = access])
              /\ open' = Defining({output.id})

SeededVariables ==
    {sites[s].event.access : s \in {t \in DOMAIN sites : sites[t].event.kind = "variableWrite"}}

SeedVariable ==
    /\ Ready("variableWrite") /\ RoomFor(1)
    /\ \E variable \in Variables \ SeededVariables, operand \in Operands(values) :
          /\ values' = operand.values
          /\ sites' = AppendSite([Event("variableWrite", <<operand.id>>, None)
                                  EXCEPT !.access = variable, !.seed = TRUE])
          /\ open' = [open EXCEPT ![Len(open)].variables = @ \cup {variable}]

WriteVariable ==
    /\ Ready("variableWrite") /\ RoomFor(1)
    /\ \E variable \in Variables \cap VariablesInScope, operand \in Operands(values) :
          /\ values' = operand.values
          /\ sites' = AppendSite([Event("variableWrite", <<operand.id>>, None)
                                  EXCEPT !.access = variable])
          /\ UNCHANGED open

ReadVariable ==
    /\ Ready("variableRead") /\ RoomFor(1)
    /\ \E variable \in Variables \cap VariablesInScope :
          LET output == Producer(values, "producerOutput")
          IN  /\ Len(output.values) <= MaxValues
              /\ values' = output.values
              /\ sites' = AppendSite([Event("variableRead", <<>>, output.id)
                                      EXCEPT !.access = variable])
              /\ open' = Defining({output.id})

-----------------------------------------------------------------------------
(* Controls *)

OpenJoin(kind) ==
    /\ Ready(kind) /\ Len(open) < MaxDepth
    /\ RoomFor(IF kind = "if" THEN 2 ELSE Len(CaseMatches) + 2)
    /\ sites' = AppendSite(Reserved)
    /\ \E valued \in BOOLEAN, hint \in IF kind = "if" THEN Hints ELSE {"none"} :
          /\ valued => "join" \in EventKinds
          /\ valued /\ kind = "if" => RoomFor(3)
          /\ open' = Append(open, [Region(kind, Len(sites) + 1, NextBlock)
                                   EXCEPT !.valued = valued, !.hint = hint])
    /\ UNCHANGED values

ArmCount(region) == IF region.kind = "switch" THEN Len(CaseMatches) + 1 ELSE 2

EndEvent(result) == [Event("end", <<>>, None) EXCEPT !.result = result, !.fallsThrough = Top.live]

\* The result of a region is lowered at its end.
RegionResults ==
    IF Top.valued THEN Operands(values) ELSE {Lowered(values, None)}

NextArm ==
    /\ Lowering /\ Top.kind \in {"if", "switch"} /\ Len(Top.arms) < ArmCount(Top)
    /\ ~Top.valued /\ Top.kind = "if" => RoomFor(1)
    /\ \E result \in RegionResults :
          /\ values' = result.values
          /\ sites' = AppendSite(EndEvent(result.id))
          /\ open' = [open EXCEPT ![Len(open)].arms = Append(@, NextBlock),
                                  ![Len(open)].scope = {},
                                  ![Len(open)].variables = {},
                                  ![Len(open)].fellThrough = @ \/ Top.live,
                                  ![Len(open)].live = TRUE]

\* What is left of the open regions once the control of the last one is written.
ClosedWith(outputs, reachable) ==
    LET parent == Len(open) - 1
    IN  [SubSeq(open, 1, parent) EXCEPT ![parent].scope = @ \cup outputs,
                                        ![parent].live = reachable]

VisibleOutside(v) ==
    LET outside == [open EXCEPT ![Len(open)].scope = {}]
        visible[w \in DOMAIN values] ==
            IF values[w].kind \in {"producerOutput", "loopInput"}
            THEN \E i \in DOMAIN outside : w \in outside[i].scope
            ELSE \A i \in DOMAIN values[w].inputs : visible[values[w].inputs[i]]
    IN  visible[v]

\* A condition or selector is lowered after the arms, over what was visible before them.
CloseJoin ==
    /\ Lowering /\ Top.kind \in {"if", "switch"}
    /\ Len(Top.arms) = ArmCount(Top) \/ (Top.kind = "if" /\ ~Top.valued)
    /\ \E result \in RegionResults, v \in DOMAIN values, negate \in UnaryUsed \cup {"none"} :
          LET output   == IF Top.valued THEN Producer(result.values, "producerOutput")
                          ELSE Lowered(result.values, None)
              selector == IF negate = "none" THEN Lowered(output.values, v)
                          ELSE Intern(output.values, Node("operation", negate, <<v>>))
          IN  /\ VisibleOutside(v)
              /\ Len(selector.values) <= MaxValues
              /\ values' = selector.values
              /\ sites' = [AppendSite(EndEvent(result.id)) EXCEPT
                              ![Top.site].event = [Event(Top.kind, <<selector.id>>, output.id)
                                                   EXCEPT !.arms = Top.arms, !.hint = Top.hint]]
              /\ open' = ClosedWith(IF Top.valued THEN {output.id} ELSE {},
                                    \/ Top.live \/ Top.fellThrough
                                    \/ Len(Top.arms) < ArmCount(Top))

OpenLoop ==
    /\ Ready("loop") /\ Len(open) < MaxDepth /\ RoomFor(2)
    /\ \E count \in CarriedCounts : \E seeds \in OperandLists(values, count) :
          LET inputs == [i \in 1 .. count |-> Len(seeds.values) + i]
          IN  /\ Len(seeds.values) + count <= MaxValues
              /\ values' = seeds.values
                           \o [i \in 1 .. count |-> Node("loopInput", "none", <<>>)]
              /\ sites' = AppendSite(Reserved)
              /\ open' = Append(open, [Region("loop", Len(sites) + 1, NextBlock)
                                       EXCEPT !.seeds = seeds.ids, !.inputs = inputs,
                                              !.scope = Elements(inputs)])

\* A loop is treated as possibly exiting whatever its body does.
CloseLoop ==
    /\ Lowering /\ Top.kind = "loop"
    /\ sites' = [AppendSite(EndEvent(None)) EXCEPT
                    ![Top.site].event = [Event("loop", Top.seeds, None)
                                         EXCEPT !.arms = Top.arms, !.inputs = Top.inputs]]
    /\ open' = ClosedWith({}, TRUE)
    /\ UNCHANGED values

LoopContinue ==
    /\ Ready("loopContinue") /\ RoomFor(1)
    /\ \E i \in DOMAIN open :
          /\ open[i].kind = "loop" /\ \A j \in i + 1 .. Len(open) : open[j].kind # "loop"
          /\ \E updates \in OperandLists(values, Len(open[i].inputs)) :
                /\ values' = updates.values
                /\ sites' = AppendSite(Event("loopContinue", updates.ids, None))
                /\ open' = Terminated

Return ==
    /\ Ready("return")
    /\ Len(open) = 1 \/ RoomFor(1)
    /\ \E operand \in Operands(values) :
          /\ values' = operand.values
          /\ sites' = AppendSite(Event("return", <<operand.id>>, None))
          /\ open' = Terminated

EndFunction ==
    /\ Len(open) = 1 /\ ~Top.live
    /\ sites' = AppendSite(EndEvent(None))
    /\ open' = <<>>
    /\ UNCHANGED values

LowerNext ==
    /\ \/ Load \/ Store \/ Call \/ SeedVariable \/ WriteVariable \/ ReadVariable
       \/ OpenJoin("if") \/ OpenJoin("switch") \/ NextArm \/ CloseJoin
       \/ OpenLoop \/ CloseLoop \/ LoopContinue \/ Return \/ EndFunction
    /\ UNCHANGED family

Body == [sites |-> sites, values |-> values]

=============================================================================
