-------------------------- MODULE StatusFlagValues --------------------------
(***************************************************************************)
(* The values of the status flags (core/flags/values.ts) and of the        *)
(* results they belong to, for the instructions that compute them: alu,    *)
(* shift and rotate semantics.  One instruction is chosen with its first   *)
(* operand and the flags before it, then executed with a second operand.   *)
(* The properties compare it with unbounded arithmetic and with shifting   *)
(* or rotating one bit at a time.                                          *)
(***************************************************************************)
EXTENDS Integers, FiniteSets

CONSTANTS
    Width,    \* operand widths (OperandWidth)
    Operand,  \* Operand[w]: the operands of width w
    Amount    \* shift and rotate counts, before masking

ASSUME WidthAssumption == Width \subseteq {8, 16, 32}

ASSUME OperandAssumption ==
    /\ DOMAIN Operand = Width
    /\ \A w \in Width : Operand[w] \subseteq 0 .. 2^w - 1

ASSUME AmountAssumption == Amount \subseteq 0 .. 255

VARIABLES
    task,     \* the instruction, its width and first operand, the flags before
    outcome   \* second operand, result and flags after

vars == <<task, outcome>>

NotExecuted == << >>

Binary == {"add", "adc", "sub", "sbb"}
Unary == {"inc", "dec", "neg"}
Shifts == {"shl", "shr", "sar"}
DoubleShifts == {"shld", "shrd"}
Rotates == {"rol", "ror"}
CarryRotates == {"rcl", "rcr"}
Op == Binary \cup Unary \cup {"logic"} \cup Shifts \cup DoubleShifts
         \cup Rotates \cup CarryRotates

StatusFlag == {"CF", "PF", "AF", "ZF", "SF", "OF"}

\* Flags computed over flags there are, as one object spread into another.
Over(f, g) == [x \in DOMAIN f \cup DOMAIN g |-> IF x \in DOMAIN f THEN f[x] ELSE g[x]]

-----------------------------------------------------------------------------
\* Integers of w bits.
Wrap(w, x) == x % 2^w
Signed(w, x) == IF x < 2^(w - 1) THEN x ELSE x - 2^w
MinSigned(w) == 2^(w - 1)
MaxSigned(w) == MinSigned(w) - 1

\* Shift counts are taken modulo the width of the integer that is shifted, 32
\* unless it is wider.
ShiftAmount(w, n) == n % (IF w > 32 THEN 64 ELSE 32)

\* The count an instruction takes from its operand.
MaskedCount(n) == n % 32

Shl(w, x, n) == IF n >= w THEN 0 ELSE (x % 2^(w - n)) * 2^n
Shr(w, x, n) == IF n >= w THEN 0 ELSE x \div 2^n
Sar(w, x, n) == Wrap(w, Signed(w, x) \div 2^(IF n >= w THEN w - 1 ELSE n))

\* Disjoint parts, so that "or" is a sum.
Rotl(w, x, n) == LET k == n % w IN Shl(w, x, k) + Shr(w, x, w - k)
Rotr(w, x, n) == LET k == n % w IN Shr(w, x, k) + Shl(w, x, w - k)

BitAt(w, x, n) == Shr(w, x, ShiftAmount(w, n)) % 2 = 1
Msb(w, x) == BitAt(w, x, w - 1)
LowNibble(x) == x % 16

-----------------------------------------------------------------------------
ParityFlag(result) ==
    Cardinality({i \in 0 .. 7 : (result \div 2^i) % 2 = 1}) % 2 = 0

ZspValues(w, result) ==
    [ZF |-> result = 0, SF |-> Msb(w, result), PF |-> ParityFlag(result)]

\* Slip: the carry that comes in forgotten.
AddCarryWithoutCarryIn(left, result, carryIn) == result < left

AddCarry(left, result, carryIn) ==
    IF carryIn THEN result <= left ELSE result < left

SubBorrow(left, right, borrowIn) ==
    IF borrowIn THEN left <= right ELSE left < right

AuxCarry(w, left, right, result) ==
    ((BitAt(w, left, 4) # BitAt(w, right, 4)) # BitAt(w, result, 4))

AddOverflow(w, left, right, result) ==
    /\ Msb(w, left) # Msb(w, result)
    /\ Msb(w, right) # Msb(w, result)

\* Slip: the rule of an addition.
SubOverflowAsAdd(w, left, right, result) ==
    AddOverflow(w, left, right, result)

SubOverflow(w, left, right, result) ==
    /\ Msb(w, left) # Msb(w, right)
    /\ Msb(w, left) # Msb(w, result)

AddStatusFlagValues(w, left, right, result, carryIn) ==
    Over([CF |-> AddCarry(left, result, carryIn),
          AF |-> AuxCarry(w, left, right, result),
          OF |-> AddOverflow(w, left, right, result)],
         ZspValues(w, result))

SubStatusFlagValues(w, left, right, result, borrowIn) ==
    Over([CF |-> SubBorrow(left, right, borrowIn),
          AF |-> AuxCarry(w, left, right, result),
          OF |-> SubOverflow(w, left, right, result)],
         ZspValues(w, result))

LogicStatusFlagValues(w, result) ==
    Over([CF |-> FALSE, AF |-> FALSE, OF |-> FALSE], ZspValues(w, result))

IncStatusFlagValues(w, value, result) ==
    Over([AF |-> LowNibble(value) = 15, OF |-> value = MaxSigned(w)],
         ZspValues(w, result))

DecStatusFlagValues(w, value, result) ==
    Over([AF |-> LowNibble(value) = 0, OF |-> value = MinSigned(w)],
         ZspValues(w, result))

NegStatusFlagValues(w, value, result) ==
    Over([CF |-> value # 0, AF |-> LowNibble(value) # 0, OF |-> value = MinSigned(w)],
         ZspValues(w, result))

\* Slip: the bit before the last one shifted out.
ShiftCarryEarly(op, w, value, count) ==
    BitAt(w, value, IF op \in {"shl", "shld"} THEN w - count + 1 ELSE count - 2)

ShiftCarry(op, w, value, count) ==
    BitAt(w, value, IF op \in {"shl", "shld"} THEN w - count ELSE count - 1)

ShiftOverflow(op, w, value, result, cf) ==
    CASE op \in {"shl", "shld"} -> Msb(w, result) # cf
      [] op = "shr" -> Msb(w, value)
      [] op = "shrd" -> Msb(w, value) # Msb(w, result)
      [] op = "sar" -> FALSE

ShiftStatusFlagValues(op, w, value, count, result, old) ==
    LET cf == ShiftCarry(op, w, value, count) IN
    IF count = 0 THEN old
    ELSE Over([CF |-> IF count <= w THEN cf ELSE old.CF,
               AF |-> FALSE,
               OF |-> count = 1 /\ ShiftOverflow(op, w, value, result, cf)],
              ZspValues(w, result))

RotateOverflow(op, w, result, carry) ==
    IF op \in {"rol", "rcl"} THEN Msb(w, result) # carry
    ELSE Msb(w, result) # BitAt(w, result, w - 2)

RotateStatusFlagValues(op, w, count, result, carry, carryDefined, old) ==
    [CF |-> IF carryDefined THEN carry ELSE old.CF,
     OF |-> IF count = 0 THEN old.OF
            ELSE count = 1 /\ RotateOverflow(op, w, result, carry)]

-----------------------------------------------------------------------------
\* The instructions.  A flag they do not compute is not written.
Init ==
    /\ outcome = NotExecuted
    /\ \E op \in Op, w \in Width, carry \in BOOLEAN :
          /\ op \in DoubleShifts => w # 8
          /\ \E value \in Operand[w] :
                task = [op |-> op, width |-> w, value |-> value,
                        old |-> [f \in StatusFlag |-> carry]]

Execute(ops, right, source, result, flags) ==
    /\ task.op \in ops
    /\ outcome' = [right |-> right, source |-> source, result |-> result,
                   flags |-> Over(flags, task.old)]
    /\ UNCHANGED task

Bit(p) == IF p THEN 1 ELSE 0

Add(right) ==
    LET w == task.width
        carryIn == task.op = "adc" /\ task.old.CF
        result == Wrap(w, Wrap(w, task.value + right) + Bit(carryIn)) IN
    Execute({"add", "adc"}, right, 0, result,
            AddStatusFlagValues(w, task.value, right, result, carryIn))

Sub(right) ==
    LET w == task.width
        borrowIn == task.op = "sbb" /\ task.old.CF
        result == Wrap(w, Wrap(w, task.value - right) - Bit(borrowIn)) IN
    Execute({"sub", "sbb"}, right, 0, result,
            SubStatusFlagValues(w, task.value, right, result, borrowIn))

Inc ==
    LET result == Wrap(task.width, task.value + 1) IN
    Execute({"inc"}, 1, 0, result,
            IncStatusFlagValues(task.width, task.value, result))

Dec ==
    LET result == Wrap(task.width, task.value - 1) IN
    Execute({"dec"}, 1, 0, result,
            DecStatusFlagValues(task.width, task.value, result))

Neg ==
    LET result == Wrap(task.width, -task.value) IN
    Execute({"neg"}, 0, 0, result,
            NegStatusFlagValues(task.width, task.value, result))

\* and, or, xor: only the result matters.
Logic ==
    Execute({"logic"}, 0, 0, task.value,
            LogicStatusFlagValues(task.width, task.value))

ShiftResult(op, w, value, count) ==
    CASE op = "shl" -> Shl(w, value, count)
      [] op = "shr" -> Shr(w, value, count)
      [] op = "sar" -> Sar(w, value, count)

\* With a count above the width both parts are zero.
DoubleShiftResult(op, w, value, source, count) ==
    LET back == ShiftAmount(w, w - count) IN
    IF op = "shld" THEN Shl(w, value, count) + Shr(w, source, back)
    ELSE Shr(w, value, count) + Shl(w, source, back)

ShiftedBy(ops, source, count, shifted) ==
    LET w == task.width
        result == IF count = 0 THEN task.value ELSE shifted IN
    Execute(ops, count, source, result,
            ShiftStatusFlagValues(task.op, w, task.value, count, result, task.old))

Shift(amount) ==
    LET count == MaskedCount(amount) IN
    ShiftedBy(Shifts, 0, count,
              ShiftResult(task.op, task.width, task.value, count))

DoubleShift(source, amount) ==
    LET count == MaskedCount(amount) IN
    ShiftedBy(DoubleShifts, source, count,
              DoubleShiftResult(task.op, task.width, task.value, source, count))

RotatedBy(ops, count, result, carry, carryDefined) ==
    Execute(ops, count, 0, result,
            RotateStatusFlagValues(task.op, task.width, count, result, carry,
                                   carryDefined, task.old))

Rotate(amount) ==
    LET w == task.width
        count == MaskedCount(amount)
        result == IF task.op = "rol" THEN Rotl(w, task.value, count)
                  ELSE Rotr(w, task.value, count)
        carry == IF task.op = "rol" THEN BitAt(w, result, 0) ELSE Msb(w, result) IN
    RotatedBy(Rotates, count, result, carry, count # 0)

\* Slip: the carry not counted as a bit of the ring.
ThroughCarryCountWithoutCarry(w, count) == count % w

ThroughCarryCount(w, count) == count % (w + 1)

RotateRing(op, ringWidth, ring, count) ==
    LET back == ShiftAmount(ringWidth, ringWidth - count) IN
    IF op = "rcl" THEN Shl(ringWidth, ring, count) + Shr(ringWidth, ring, back)
    ELSE Shr(ringWidth, ring, count) + Shl(ringWidth, ring, back)

RotateThroughCarry(amount) ==
    LET w == task.width
        count == MaskedCount(amount)
        effective == ThroughCarryCount(w, count)
        ring == task.value + Bit(task.old.CF) * 2^w
        rotated == RotateRing(task.op, w + 1, ring, effective)
        unmoved == effective = 0 IN
    RotatedBy(CarryRotates, count,
              IF unmoved THEN task.value ELSE Wrap(w, rotated),
              IF unmoved THEN task.old.CF ELSE BitAt(w + 1, rotated, w),
              ~unmoved)

Next ==
    /\ outcome = NotExecuted
    /\ \/ Inc \/ Dec \/ Neg \/ Logic
       \/ \E right \in Operand[task.width] : Add(right) \/ Sub(right)
       \/ \E amount \in Amount :
             Shift(amount) \/ Rotate(amount) \/ RotateThroughCarry(amount)
       \/ /\ task.op \in DoubleShifts
          /\ \E source \in Operand[task.width], amount \in Amount :
                DoubleShift(source, amount)

Spec == Init /\ [][Next]_vars

-----------------------------------------------------------------------------
(***************************************************************************)
(* Condition codes (conditions.ts), and the comparison a condition is      *)
(* replaced with after a subtraction or a logic result (lazy/sources.ts).  *)
(***************************************************************************)
\* Slip: the borrow of an unsigned comparison read as a sign.
MetWithSignOfUnsigned(cc, f) ==
    CASE cc = "E" -> f.ZF [] cc = "NE" -> ~f.ZF
      [] cc = "B" -> f.SF [] cc = "AE" -> ~f.SF
      [] cc = "BE" -> f.SF \/ f.ZF [] cc = "A" -> ~f.SF /\ ~f.ZF
      [] cc = "L" -> f.SF # f.OF [] cc = "GE" -> f.SF = f.OF
      [] cc = "LE" -> f.ZF \/ f.SF # f.OF [] cc = "G" -> ~f.ZF /\ f.SF = f.OF

Met(cc, f) ==
    CASE cc = "E" -> f.ZF [] cc = "NE" -> ~f.ZF
      [] cc = "B" -> f.CF [] cc = "AE" -> ~f.CF
      [] cc = "BE" -> f.CF \/ f.ZF [] cc = "A" -> ~f.CF /\ ~f.ZF
      [] cc = "L" -> f.SF # f.OF [] cc = "GE" -> f.SF = f.OF
      [] cc = "LE" -> f.ZF \/ f.SF # f.OF [] cc = "G" -> ~f.ZF /\ f.SF = f.OF

ConditionOperators(kind) ==
    CASE kind = "sub" -> {"E", "NE", "B", "AE", "BE", "A", "L", "GE", "LE", "G"}
      [] kind = "logic" -> {"E", "NE"}
      [] OTHER -> {}

Compare(w, cc, a, b) ==
    CASE cc = "E" -> a = b [] cc = "NE" -> a # b
      [] cc = "B" -> a < b [] cc = "AE" -> a >= b
      [] cc = "BE" -> a <= b [] cc = "A" -> a > b
      [] cc = "L" -> Signed(w, a) < Signed(w, b)
      [] cc = "GE" -> Signed(w, a) >= Signed(w, b)
      [] cc = "LE" -> Signed(w, a) <= Signed(w, b)
      [] cc = "G" -> Signed(w, a) > Signed(w, b)

-----------------------------------------------------------------------------
Executed(ops) == outcome # NotExecuted /\ task.op \in ops

\* The operation on integers of any size.
Exact(l, r) ==
    LET carry == Bit(task.op \in {"adc", "sbb"} /\ task.old.CF) IN
    IF task.op \in {"add", "adc", "inc"} THEN l + r + carry ELSE l - r - carry

(***************************************************************************)
(* The formulas over bits of the operands and the result say what the      *)
(* unbounded sum or difference says: CF, AF and OF are set when it leaves  *)
(* the unsigned range, the range of a nibble and the signed range; inc and *)
(* dec leave CF alone.                                                     *)
(***************************************************************************)
FlagsAreArithmetic ==
    Executed(Binary \cup Unary) =>
        LET w == task.width
            l == IF task.op = "neg" THEN 0 ELSE task.value
            r == IF task.op = "neg" THEN task.value ELSE outcome.right
            f == outcome.flags IN
        /\ outcome.result = Wrap(w, Exact(l, r))
        /\ f.CF = IF task.op \in {"inc", "dec"} THEN task.old.CF
                  ELSE Exact(l, r) \notin 0 .. 2^w - 1
        /\ f.AF = (Exact(LowNibble(l), LowNibble(r)) \notin 0 .. 15)
        /\ f.OF = (Exact(Signed(w, l), Signed(w, r))
                      \notin -MinSigned(w) .. MaxSigned(w))
        /\ f.ZF = (outcome.result = 0)
        /\ f.SF = (Signed(w, outcome.result) < 0)

\* One step of a shift or a rotation by a single bit.
Moved(t) ==
    LET w == task.width
        top == t.value \div 2^(w - 1)
        low == t.value % 2
        in == CASE task.op = "shld" -> t.source \div 2^(w - 1)
                [] task.op = "shrd" -> t.source % 2
                [] task.op \in {"rol", "sar"} -> top
                [] task.op = "ror" -> low
                [] task.op \in CarryRotates -> Bit(t.carry)
                [] OTHER -> 0 IN
    IF task.op \in {"shl", "shld", "rol", "rcl"}
    THEN [value |-> Wrap(w, 2 * t.value) + in, source |-> Wrap(w, 2 * t.source),
          carry |-> top = 1]
    ELSE [value |-> t.value \div 2 + in * 2^(w - 1), source |-> t.source \div 2,
          carry |-> low = 1]

MovedTimes(count) ==
    LET moved[n \in 0 .. 31] ==
            IF n = 0 THEN [value |-> task.value, source |-> outcome.source,
                           carry |-> task.old.CF]
            ELSE Moved(moved[n - 1]) IN
    moved[count]

SignChanged ==
    (Signed(task.width, task.value) < 0) # (Signed(task.width, outcome.result) < 0)

(***************************************************************************)
(* A shift is as many shifts by one bit: its result for every count (a     *)
(* double shift up to the width), its carry the last bit shifted out while *)
(* the count is at most the width, its overflow, for a count of one, a     *)
(* change of sign.  A count of zero changes no flag.                       *)
(***************************************************************************)
ShiftsBitByBit ==
    Executed(Shifts \cup DoubleShifts) =>
        LET count == outcome.right
            moved == MovedTimes(count)
            f == outcome.flags IN
        /\ task.op \in Shifts \/ count <= task.width
              => outcome.result = moved.value
        /\ count \in 1 .. task.width => f.CF = moved.carry
        /\ count = 1 => f.OF = SignChanged
        /\ count = 0 => f = task.old

(***************************************************************************)
(* A rotation is as many rotations by one bit, through the carry or not,   *)
(* also where the count goes round the ring several times; and it leaves   *)
(* the flags other than CF and OF alone.                                   *)
(***************************************************************************)
RotatesBitByBit ==
    Executed(Rotates \cup CarryRotates) =>
        LET count == outcome.right
            moved == MovedTimes(count)
            f == outcome.flags IN
        /\ outcome.result = moved.value
        /\ f.CF = moved.carry
        /\ count = 1 => f.OF = SignChanged
        /\ count = 0 => f = task.old
        /\ \A g \in StatusFlag \ {"CF", "OF"} : f[g] = task.old[g]

(***************************************************************************)
(* A condition after a subtraction or a logic result may be decided by     *)
(* comparing the recorded operands, as the flag tracker does: it holds of  *)
(* the flags exactly when the comparison does.                             *)
(***************************************************************************)
ConditionsAreComparisons ==
    Executed({"sub", "logic"}) =>
        \A cc \in ConditionOperators(task.op) :
            Met(cc, outcome.flags)
               = Compare(task.width, cc, task.value, outcome.right)
=============================================================================
