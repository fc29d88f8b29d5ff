------------------------ MODULE InterpreterRunProofs ------------------------
(***************************************************************************)
(* Proofs about InterpreterRun for every length limit, every modulus of    *)
(* the counters and every set of encodings and mappings.                   *)
(***************************************************************************)
EXTENDS InterpreterRun, ModularArithmetic, TLAPS

(***************************************************************************)
(* The inductive invariant.  The loop local is the stored eip wherever an  *)
(* instruction is fetched; a direct decode stays inside the window it has  *)
(* proved because either no more than MaximumDirectPrefixes bytes are read *)
(* or the prefixes are all read and few; an exact decode has passed mapped *)
(* bytes below the length limit only.                                      *)
(***************************************************************************)
StartIsEip == pc \in {"head", "window", "decode"} => start = eip

DirectDecode ==
    pc = "decode" /\ mode = "direct" =>
        /\ bytewise = 0
        /\ RangeAvailable(start, InstructionLengthLimit)
        /\ cursor <= MaximumDirectPrefixes
              \/ encoding.prefixes <= MaximumDirectPrefixes

ExactDecode ==
    pc = "decode" /\ mode = "exact" =>
        /\ cursor <= InstructionLengthLimit
        /\ \A o \in 0 .. cursor - 1 : At(o) \in available

InsideInstruction == pc = "decode" => cursor + bytewise <= encoding.length

DecodeInv == StartIsEip /\ DirectDecode /\ ExactDecode /\ InsideInstruction

Inv == TypeOK /\ DeadlineAhead /\ DecodeInv

-----------------------------------------------------------------------------
\* The parts of an encoding.
LEMMA EncodingParts ==
    ASSUME NEW e \in Encoding
    PROVE  /\ e.prefixes \in Nat /\ e.length \in Nat
           /\ e.effect \in Effect
           /\ e.units \in 1 .. Modulus - 1
           /\ e.prefixes < e.length
           /\ e.length - e.prefixes <= MaximumUnprefixed
           /\ e.effect # "fallthrough" => e.units = 1
<1>1. e \in EncodingType
  BY EncodingAssumption
<1>2. /\ e.prefixes \in Nat /\ e.length \in Nat
      /\ e.effect \in Effect /\ e.units \in 1 .. Modulus - 1
  BY <1>1 DEF EncodingType
<1>3. e.length - e.prefixes \in 1 .. MaximumUnprefixed
  BY EncodingAssumption
<1>4. PICK p \in Nat, n \in Nat : p = e.prefixes /\ n = e.length
  BY <1>2
<1>5. p < n /\ n - p <= MaximumUnprefixed
  BY <1>3, <1>4, LengthAssumption
<1> QED BY <1>2, <1>4, <1>5, EncodingAssumption

\* The sizes, and the addresses of an instruction's bytes.
LEMMA Sizes ==
    /\ HalfModulus \in Nat /\ HalfModulus > 0
    /\ Modulus \in Nat /\ Modulus = 2 * HalfModulus /\ Modulus > 0
    /\ MaximumBudget \in Nat /\ MaximumBudget < HalfModulus
    /\ InstructionLengthLimit \in Nat /\ InstructionLengthLimit > 0
    /\ MaximumDirectPrefixes \in Nat
    /\ MaximumDirectPrefixes < InstructionLengthLimit
    /\ MaximumUnprefixed \in Nat
    /\ MaximumDirectPrefixes + MaximumUnprefixed = InstructionLengthLimit
    /\ AddressCount \in Nat /\ AddressCount > 0
<1>1. HalfModulus \in Nat /\ HalfModulus > 0
  BY CounterAssumption
<1>2. /\ Modulus = 2 * HalfModulus /\ MaximumBudget = HalfModulus - 1
  BY DEF Modulus, MaximumBudget
<1>3. /\ InstructionLengthLimit \in Nat
      /\ MaximumUnprefixed \in 1 .. InstructionLengthLimit
  BY LengthAssumption
<1>4. MaximumDirectPrefixes = InstructionLengthLimit - MaximumUnprefixed
  BY DEF MaximumDirectPrefixes
<1> QED BY <1>1, <1>2, <1>3, <1>4, AddressAssumption

\* The address of any byte of an instruction is an address.
LEMMA AtType ==
    ASSUME start \in Address, NEW o \in Nat
    PROVE  At(o) \in Address
BY Sizes DEF At, Address

\* Up to the top of the address space the bytes of a range follow each other.
LEMMA AtAdvances ==
    ASSUME start \in Address, NEW o \in Nat, NEW i \in Nat,
           At(o) + i < AddressCount
    PROVE  At(o + i) = At(o) + i
<1>1. PICK x \in Nat : x = start + o
  BY Sizes DEF Address
<1>2. PICK q \in Int, r \in 0 .. AddressCount - 1 :
         x = q * AddressCount + r /\ x % AddressCount = r
  <2>1. /\ x \div AddressCount \in Int
        /\ x % AddressCount \in 0 .. AddressCount - 1
        /\ x = (x \div AddressCount) * AddressCount + (x % AddressCount)
    BY <1>1, Sizes
  <2> QED BY <2>1
<1>3. At(o) = x % AddressCount /\ At(o) = r
  <2>1. At(o) = x % AddressCount
    BY <1>1 DEF At
  <2> QED BY <2>1, <1>2
<1>4. PICK y \in Int : y = q * AddressCount
  BY <1>2, Sizes
<1>5. x + i = q * AddressCount + (r + i) /\ r + i \in 0 .. AddressCount - 1
  <2>1. r + i < AddressCount
    BY <1>3
  <2>2. x = y + r
    BY <1>2, <1>4
  <2>3. x + i = y + (r + i) /\ r + i \in 0 .. AddressCount - 1
    BY <2>1, <2>2, <1>4, <1>2, Sizes
  <2> QED BY <2>3, <1>4
<1>6. (x + i) % AddressCount = r + i
  <2>1. PICK z \in Int, n \in 0 .. AddressCount - 1 :
           z = x + i /\ n = r + i /\ z = q * AddressCount + n
    BY <1>2, <1>5
  <2>2. z % AddressCount = n
    BY <2>1, Sizes, UniqueRemainder
  <2> QED BY <2>1, <2>2
<1>7. start + (o + i) = x + i
  BY <1>1, Sizes DEF Address
<1> QED BY <1>3, <1>6, <1>7 DEF At

\* A range that does not wrap is at the addresses after its start.
LEMMA AtStart ==
    ASSUME start \in Address, NEW o \in Nat, start + o < AddressCount
    PROVE  At(o) = start + o
<1>1. start + o = 0 * AddressCount + (start + o)
        /\ start + o \in 0 .. AddressCount - 1
  BY Sizes DEF Address
<1>2. (start + o) % AddressCount = start + o
  BY <1>1, Sizes, UniqueRemainder DEF Address
<1> QED BY <1>2 DEF At

-----------------------------------------------------------------------------
\* A modular difference borrows at most once.
LEMMA MinusIs ==
    ASSUME NEW a \in Counter, NEW b \in Counter
    PROVE  /\ Minus(a, b) = IF a >= b THEN a - b ELSE a - b + Modulus
           /\ Minus(a, b) \in Counter
<1>1. Minus(a, b) = IF a >= b THEN a - b ELSE a - b + Modulus
  BY Sizes, DifferenceBorrows DEF Minus, Counter
<1> QED BY <1>1, Sizes DEF Counter

\* A modular sum wraps at most once.
LEMMA PlusIs ==
    ASSUME NEW a \in Counter, NEW b \in Counter
    PROVE  /\ Plus(a, b) = IF a + b < Modulus THEN a + b ELSE a + b - Modulus
           /\ Plus(a, b) \in Counter
<1>1. Plus(a, b) = IF a + b < Modulus THEN a + b ELSE a + b - Modulus
  BY Sizes, SumWraps DEF Plus, Counter
<1> QED BY <1>1, Sizes DEF Counter

\* What was added is what the difference gives back.
LEMMA Completed ==
    ASSUME NEW c \in Counter, NEW u \in Counter
    PROVE  /\ Minus(Plus(c, u), c) = u
           /\ Plus(c, u) \in Counter
<1>1. PICK p \in Counter : p = Plus(c, u)
  BY PlusIs
<1>2. p = IF c + u < Modulus THEN c + u ELSE c + u - Modulus
  BY <1>1, PlusIs
<1>3. Minus(p, c) = IF p >= c THEN p - c ELSE p - c + Modulus
  BY <1>1, MinusIs
<1>4. Minus(p, c) = u
  BY <1>2, <1>3, Sizes DEF Counter
<1> QED BY <1>1, <1>4

\* Charging no more than what is left leaves the rest.
LEMMA Left ==
    ASSUME NEW l \in Counter, NEW c \in Counter, NEW u \in Counter,
           u <= Minus(l, c)
    PROVE  Minus(l, Plus(c, u)) = Minus(l, c) - u
<1>1. PICK p \in Counter : p = Plus(c, u)
  BY PlusIs
<1>2. p = IF c + u < Modulus THEN c + u ELSE c + u - Modulus
  BY <1>1, PlusIs
<1>3. PICK r \in Counter : r = Minus(l, c)
  BY MinusIs
<1>4. r = IF l >= c THEN l - c ELSE l - c + Modulus
  BY <1>3, MinusIs
<1>5. Minus(l, p) = IF l >= p THEN l - p ELSE l - p + Modulus
  BY <1>1, MinusIs
<1>6. Minus(l, p) = r - u
  BY <1>2, <1>3, <1>4, <1>5, Sizes DEF Counter
<1> QED BY <1>1, <1>3, <1>6

\* The loop head sees the limit exactly when no budget is left.
LEMMA HeadSeesLimit ==
    ASSUME TypeOK, DeadlineAhead, pc # "host"
    PROVE  LimitReached <=> spent >= budget
<1>1. PICK r \in Nat : r = budget - spent /\ r = Minus(limit, count)
                        /\ r < HalfModulus
  BY Sizes DEF TypeOK, DeadlineAhead
<1>2. /\ count \in Counter /\ limit \in Counter
  BY DEF TypeOK
<1>3. r = IF limit >= count THEN limit - count ELSE limit - count + Modulus
  BY <1>1, <1>2, MinusIs
<1>4. Minus(count, limit) =
        IF count >= limit THEN count - limit ELSE count - limit + Modulus
  BY <1>2, MinusIs
<1>5. Minus(count, limit) < HalfModulus <=> r = 0
  BY <1>1, <1>2, <1>3, <1>4, Sizes DEF Counter
<1>6. r = 0 <=> spent >= budget
  BY <1>1, Sizes DEF TypeOK
<1> QED BY <1>5, <1>6 DEF LimitReached
-----------------------------------------------------------------------------
(***************************************************************************)
(* Each action keeps the invariant and is a step, or a stutter, of the     *)
(* abstract execution.                                                     *)
(***************************************************************************)
Step == Execution!Next \/ UNCHANGED Execution!vars

\* The invariant holds before the first run.
LEMMA InitInv == Init => Inv /\ Execution!Init
<1> SUFFICES ASSUME Init PROVE Inv /\ Execution!Init
  OBVIOUS
<1>1. 0 \in Counter /\ 0 \in 0 .. MaximumBudget
  BY Sizes DEF Counter
<1>2. TypeOK
  BY <1>1 DEF Init, TypeOK, Stopped, Running
<1>3. DeadlineAhead /\ DecodeInv
  BY DEF Init, DeadlineAhead, DecodeInv, StartIsEip, DirectDecode, ExactDecode,
         InsideInstruction
<1>4. Execution!Init
  BY DEF Init, Execution!Init, Address, Execution!Address, Stopped,
         Execution!Stopped
<1> QED BY <1>2, <1>3, <1>4 DEF Inv

\* What the host does between runs is what the abstract host does.
LEMMA HostSteps ==
    ASSUME Inv, WriteGuest \/ Remap
    PROVE  Inv' /\ Step
<1>1. pc = "host" /\ pc' = "host" /\ stop # Running
  BY DEF Inv, TypeOK, WriteGuest, Remap
<1>2. TypeOK'
  BY <1>1 DEF Inv, TypeOK, WriteGuest, Remap, counters, decoder
<1>3. DeadlineAhead' /\ DecodeInv'
  BY <1>1 DEF DeadlineAhead, DecodeInv, StartIsEip, DirectDecode, ExactDecode,
              InsideInstruction
<1>4. Execution!Prepare
  BY <1>1, <1>2 DEF WriteGuest, Remap, counters, TypeOK, Execution!Prepare,
                    Execution!Running, Running, Address, Execution!Address
<1> QED BY <1>2, <1>3, <1>4 DEF Inv, Step, Execution!Next

\* The limit is set budget ahead of the count.
LEMMA RunCpuStep ==
    ASSUME Inv, NEW b \in 0 .. MaximumBudget, RunCpu(b)
    PROVE  Inv' /\ Step
<1>1. b \in Counter /\ count \in Counter /\ b \in Nat
  BY Sizes DEF Inv, TypeOK, Counter
<1>2. limit' \in Counter /\ Minus(limit', count') = b
  BY <1>1, Completed DEF RunCpu
<1>3. /\ pc' = "run" /\ stop' = Running /\ spent' = 0 /\ budget' = b
      /\ pc = "host"
  BY DEF RunCpu
<1>4. TypeOK'
  BY <1>2, <1>3 DEF Inv, TypeOK, RunCpu, guest, decoder
<1>5. DeadlineAhead'
  BY <1>1, <1>2, <1>3, Sizes DEF DeadlineAhead
<1>6. DecodeInv'
  BY <1>3 DEF DecodeInv, StartIsEip, DirectDecode, ExactDecode,
              InsideInstruction
<1>7. Execution!Run
  BY <1>3 DEF Inv, TypeOK, RunCpu, guest, Execution!Run, Execution!Running,
              Running
<1> QED BY <1>4, <1>5, <1>6, <1>7 DEF Inv, Step, Execution!Next

\* Entering run only reads eip.
LEMMA EnterRunStep ==
    ASSUME Inv, EnterRun
    PROVE  Inv' /\ Step
<1>1. TypeOK'
  BY DEF Inv, TypeOK, EnterRun, guest, counters
<1>2. DeadlineAhead'
  BY DEF Inv, DeadlineAhead, EnterRun, counters
<1>3. DecodeInv'
  BY DEF DecodeInv, StartIsEip, DirectDecode, ExactDecode, InsideInstruction,
         EnterRun, guest
<1>4. UNCHANGED Execution!vars
  BY DEF EnterRun, guest, counters, Execution!vars
<1> QED BY <1>1, <1>2, <1>3, <1>4 DEF Inv, Step

\* An exit at the loop head is the expiry of the abstract run.
LEMMA ExpiryStep ==
    ASSUME Inv, pc # "host", LimitReached, UNCHANGED <<guest, counters>>,
           start' \in Address, UNCHANGED <<mode, cursor, bytewise>>,
           Exit(Stopped("instructionLimit"))
    PROVE  Inv' /\ Step
<1>1. pc' = "host" /\ stop' = Stopped("instructionLimit")
  BY DEF Exit
<1>2. TypeOK'
  BY <1>1 DEF Inv, TypeOK, guest, counters, Stopped, Running
<1>3. DeadlineAhead' /\ DecodeInv'
  BY <1>1 DEF DeadlineAhead, DecodeInv, StartIsEip, DirectDecode, ExactDecode,
              InsideInstruction
<1>4. Execution!Expire
  BY <1>1, HeadSeesLimit
     DEF Inv, TypeOK, Execution!Expire, Execution!Running, Running, guest,
         counters, Stopped, Execution!Stopped
<1> QED BY <1>2, <1>3, <1>4 DEF Inv, Step, Execution!Next

\* Past the loop head an instruction has budget.
LEMMA CheckLimitStep ==
    ASSUME Inv, CheckLimit
    PROVE  Inv' /\ Step
<1>1. pc = "head" /\ pc # "host"
  BY DEF CheckLimit
<1>2. CASE LimitReached
  BY <1>1, <1>2, ExpiryStep DEF CheckLimit, decoder, Inv, TypeOK
<1>3. CASE ~LimitReached
  <2>1. pc' = "window" /\ UNCHANGED <<guest, counters, decoder, stop>>
    BY <1>3 DEF CheckLimit
  <2>2. spent < budget
    BY <1>1, <1>3, HeadSeesLimit, Sizes DEF Inv, TypeOK
  <2>3. TypeOK'
    BY <1>1, <2>1 DEF Inv, TypeOK, guest, counters, decoder
  <2>4. DeadlineAhead'
    BY <1>1, <2>1, <2>2 DEF Inv, DeadlineAhead, counters
  <2>5. DecodeInv'
    BY <1>1, <2>1 DEF Inv, DecodeInv, StartIsEip, DirectDecode, ExactDecode,
                      InsideInstruction, guest, decoder
  <2>6. UNCHANGED Execution!vars
    BY <2>1 DEF guest, counters, Execution!vars
  <2> QED BY <2>3, <2>4, <2>5, <2>6 DEF Inv, Step
<1> QED BY <1>2, <1>3

\* Beginning to decode: nothing is read yet.
LEMMA BeginDecodeStep ==
    ASSUME Inv, NEW m \in {"direct", "exact"}, BeginDecode(m),
           m = "direct" => RangeAvailable(start, InstructionLengthLimit)',
           pc # "host", spent < budget, start' = eip,
           UNCHANGED <<guest, counters, stop>>
    PROVE  Inv' /\ Step
<1>1. /\ pc' = "decode" /\ mode' = m /\ cursor' = 0 /\ bytewise' = 0
      /\ eip' = eip /\ encoding' = encoding /\ available' = available
  BY DEF BeginDecode, guest
<1>2. TypeOK'
  BY <1>1 DEF Inv, TypeOK, guest, counters
<1>3. DeadlineAhead'
  BY <1>1 DEF Inv, DeadlineAhead, counters
<1>4. encoding \in Encoding /\ encoding.length \in Nat
  BY EncodingParts DEF Inv, TypeOK
<1>5. StartIsEip' /\ InsideInstruction'
  BY <1>1, <1>4 DEF StartIsEip, InsideInstruction
<1>6. DirectDecode'
  BY <1>1, Sizes DEF DirectDecode
<1>7. ExactDecode'
  BY <1>1, Sizes DEF ExactDecode
<1>8. UNCHANGED Execution!vars
  BY DEF guest, counters, Execution!vars
<1> QED BY <1>2, <1>3, <1>5, <1>6, <1>7, <1>8 DEF Inv, DecodeInv, Step

\* A direct decode begins with a proved window, or the exact function is called.
LEMMA ProveWindowStep ==
    ASSUME Inv, ProveWindow
    PROVE  Inv' /\ Step
<1>1. /\ pc = "window" /\ start' = start /\ start = eip /\ spent < budget
      /\ UNCHANGED <<guest, counters, stop>>
  BY DEF ProveWindow, Inv, DecodeInv, StartIsEip, DeadlineAhead
<1>2. CASE RangeAvailable(start, InstructionLengthLimit) /\ BeginDecode("direct")
  <2>1. RangeAvailable(start, InstructionLengthLimit)'
    BY <1>1, <1>2 DEF RangeAvailable, guest
  <2> QED BY <1>1, <1>2, <2>1, BeginDecodeStep
<1>3. CASE pc' = "exact" /\ UNCHANGED <<mode, cursor, bytewise>>
  <2>1. TypeOK'
    BY <1>1, <1>3 DEF Inv, TypeOK, guest, counters
  <2>2. DeadlineAhead'
    BY <1>1, <1>3 DEF Inv, DeadlineAhead, counters
  <2>3. DecodeInv'
    BY <1>1, <1>3 DEF DecodeInv, StartIsEip, DirectDecode, ExactDecode,
                      InsideInstruction
  <2>4. UNCHANGED Execution!vars
    BY <1>1 DEF guest, counters, Execution!vars
  <2> QED BY <2>1, <2>2, <2>3, <2>4 DEF Inv, Step
<1> QED BY <1>2, <1>3 DEF ProveWindow

\* The exact function rereads eip and the limit, and starts at byte zero.
LEMMA EnterExactStep ==
    ASSUME Inv, EnterExactInstruction
    PROVE  Inv' /\ Step
<1>1. /\ pc = "exact" /\ pc # "host" /\ start' = eip /\ eip \in Address
      /\ spent < budget /\ UNCHANGED <<guest, counters>>
  BY DEF EnterExactInstruction, Inv, TypeOK, DeadlineAhead
<1>2. CASE LimitReached
  BY <1>1, <1>2, ExpiryStep DEF EnterExactInstruction
<1>3. CASE ~LimitReached
  BY <1>1, <1>3, BeginDecodeStep DEF EnterExactInstruction
<1> QED BY <1>2, <1>3

-----------------------------------------------------------------------------
\* Reading the instruction.  The widths the decoder may read next stay inside
\* the instruction, and prefixes are read byte by byte.
LEMMA NextReadsInside ==
    ASSUME TypeOK, cursor < encoding.length, NEW w \in NextReads
    PROVE  /\ w \in {1, 2, 4}
           /\ cursor + w <= encoding.length
           /\ cursor < encoding.prefixes => w = 1
<1>1. /\ cursor \in Nat
      /\ encoding.length \in Nat /\ encoding.prefixes \in Nat
  BY EncodingParts DEF TypeOK
<1>2. CASE cursor <= encoding.prefixes
  BY <1>1, <1>2 DEF NextReads
<1>3. CASE ~(cursor <= encoding.prefixes)
  BY <1>1, <1>3 DEF NextReads
<1> QED BY <1>2, <1>3

\* A step inside the decoder that reads on.
LEMMA ReadOn ==
    ASSUME Inv, pc = "decode",
           UNCHANGED <<guest, counters, start, mode, stop>>,
           pc' \in {"decode", "exact"},
           cursor' \in Nat, bytewise' \in 0 .. 4,
           pc' = "decode" =>
              DirectDecode' /\ ExactDecode' /\ InsideInstruction'
    PROVE  Inv' /\ Step
<1>1. TypeOK'
  BY DEF Inv, TypeOK, guest, counters
<1>2. DeadlineAhead'
  BY DEF Inv, DeadlineAhead, counters
<1>3. DecodeInv'
  BY DEF Inv, DecodeInv, StartIsEip, DirectDecode, ExactDecode,
         InsideInstruction, guest
<1>4. UNCHANGED Execution!vars
  BY DEF guest, counters, Execution!vars
<1> QED BY <1>1, <1>2, <1>3, <1>4 DEF Inv, Step

\* A direct read ends inside the window, and so does what may follow it.
LEMMA ReadDirectStep ==
    ASSUME Inv, NEW w \in {1, 2, 4}, ReadDirect(w)
    PROVE  /\ Inv' /\ Step
           /\ RangeAvailable(start, InstructionLengthLimit)
           /\ cursor' <= InstructionLengthLimit
<1>1. /\ pc = "decode" /\ mode = "direct" /\ cursor < encoding.length
      /\ w \in NextReads /\ cursor' = cursor + w /\ mode' = mode
      /\ pc' = IF LeavesDirect THEN "exact" ELSE "decode"
      /\ UNCHANGED <<guest, counters, start, mode, stop>>
      /\ bytewise' = bytewise
  BY DEF ReadDirect, Decoding
<1>2. /\ cursor + w <= encoding.length
      /\ cursor < encoding.prefixes => w = 1
  BY <1>1, NextReadsInside DEF Inv
<1>3. PICK c \in Nat, n \in Nat, p \in Nat :
         /\ c = cursor /\ n = encoding.length /\ p = encoding.prefixes
         /\ n - p <= MaximumUnprefixed
  BY EncodingParts DEF Inv, TypeOK
<1>4. /\ RangeAvailable(start, InstructionLengthLimit)
      /\ c <= MaximumDirectPrefixes \/ p <= MaximumDirectPrefixes
  BY <1>1, <1>3 DEF Inv, DecodeInv, DirectDecode
<1>5. cursor' <= InstructionLengthLimit
  BY <1>1, <1>2, <1>3, <1>4, Sizes
<1>6. bytewise = 0
  BY <1>1 DEF Inv, DecodeInv, DirectDecode
<1>7. ASSUME pc' = "decode" PROVE DirectDecode' /\ ExactDecode'
  <2>1. ~LeavesDirect
    BY <1>1, <1>7
  <2>2. c < p => c + 1 <= MaximumDirectPrefixes
    BY <2>1, <1>3, Sizes DEF LeavesDirect
  <2>3. c + w <= MaximumDirectPrefixes \/ p <= MaximumDirectPrefixes
    BY <2>2, <1>2, <1>3, <1>4, Sizes
  <2>4. encoding' = encoding /\ available' = available
    BY <1>1 DEF guest
  <2>5. RangeAvailable(start, InstructionLengthLimit)'
    BY <1>1, <1>4, <2>4 DEF RangeAvailable
  <2>6. cursor' = c + w /\ encoding'.prefixes = p /\ bytewise' = 0
    BY <1>1, <1>3, <1>6, <2>4
  <2> QED BY <2>3, <2>5, <2>6, <1>1 DEF DirectDecode, ExactDecode
<1>8. InsideInstruction'
  BY <1>1, <1>2, <1>3, <1>6 DEF InsideInstruction, guest
<1>9. cursor' \in Nat /\ bytewise' \in 0 .. 4
  BY <1>1, <1>3 DEF Inv, TypeOK
<1>10. Inv' /\ Step
  BY <1>1, <1>7, <1>8, <1>9, ReadOn
<1> QED BY <1>4, <1>5, <1>10

\* A decode that exits names the fault of the abstract fetch.
LEMMA FetchFaultStep ==
    ASSUME Inv, pc = "decode", UNCHANGED <<guest, counters, decoder>>,
           NEW s, s # Running, Exit(s),
           stop' = s => Execution!FetchFails
    PROVE  Inv' /\ Step
<1>1. pc' = "host" /\ stop' = s
  BY DEF Exit
<1>2. TypeOK'
  BY <1>1 DEF Inv, TypeOK, guest, counters, decoder
<1>3. DeadlineAhead' /\ DecodeInv'
  BY <1>1 DEF DeadlineAhead, DecodeInv, StartIsEip, DirectDecode, ExactDecode,
              InsideInstruction
<1> QED BY <1>1, <1>2, <1>3 DEF Inv, Step, Execution!Next

\* What an exact decode knows about the bytes the abstract fetch needs.
LEMMA ExactKnows ==
    ASSUME Inv, pc = "decode", mode = "exact"
    PROVE  /\ start = eip
           /\ Execution!MayExecute
           /\ cursor <= InstructionLengthLimit
           /\ \A o \in Execution!Missing : o \in Nat /\ cursor <= o
           /\ \A o \in Nat : Execution!At(o) = At(o)
<1>1. start = eip
  BY DEF Inv, DecodeInv, StartIsEip
<1>2. Execution!MayExecute
  BY DEF Inv, TypeOK, DeadlineAhead, Execution!MayExecute, Execution!Running,
         Running
<1>3. /\ cursor <= InstructionLengthLimit
      /\ \A o \in 0 .. cursor - 1 : At(o) \in available
  BY DEF Inv, DecodeInv, ExactDecode
<1>4. \A o : Execution!At(o) = At(o)
  BY <1>1 DEF Execution!At, At
<1>5. cursor \in Nat
  BY DEF Inv, TypeOK
<1>6. ASSUME NEW o \in Execution!Missing PROVE o \in Nat /\ cursor <= o
  <2>1. o \in Nat /\ At(o) \notin available
    BY <1>4, Sizes DEF Execution!Missing, Execution!Needed
  <2> QED BY <2>1, <1>3, <1>5
<1> QED BY <1>1, <1>2, <1>3, <1>4, <1>6

\* An exact byte is read, or is the first byte the abstract fetch misses, or
\* lies past the length limit with every byte before it mapped.
LEMMA ReadExactByteStep ==
    ASSUME Inv, ReadExactByte
    PROVE  Inv' /\ Step
<1>1. /\ pc = "decode" /\ mode = "exact" /\ cursor < encoding.length
      /\ bytewise > 0 \/ 1 \in NextReads
      /\ UNCHANGED <<guest, counters, start, mode>>
  BY DEF ReadExactByte, Decoding
<1>2. PICK c \in Nat, n \in Nat, b \in 0 .. 4 :
         c = cursor /\ n = encoding.length /\ b = bytewise
         /\ c < n /\ c + b <= n
  BY <1>1, EncodingParts DEF Inv, TypeOK, DecodeInv, InsideInstruction
<1>3. /\ start = eip /\ Execution!MayExecute
      /\ c <= InstructionLengthLimit
      /\ \A o \in Execution!Missing : o \in Nat /\ c <= o
      /\ \A o \in Nat : Execution!At(o) = At(o)
  BY <1>1, <1>2, ExactKnows
<1>4. CASE /\ cursor >= InstructionLengthLimit
           /\ Exit(Stopped("generalProtection"))
           /\ UNCHANGED <<cursor, bytewise>>
  <2>1. Execution!Missing = {}
    <3>1. ASSUME NEW o \in Execution!Missing PROVE FALSE
      <4>1. o \in Nat /\ c <= o
        BY <1>3
      <4>2. o < InstructionLengthLimit
        BY Sizes DEF Execution!Missing, Execution!Needed
      <4> QED BY <4>1, <4>2, <1>2, <1>4, Sizes
    <3> QED BY <3>1
  <2>2. encoding.length > InstructionLengthLimit
    BY <1>2, <1>4, Sizes
  <2>3. stop' = Stopped("generalProtection") =>
            Execution!FetchFails
    BY <1>1, <1>3, <2>1, <2>2
       DEF Execution!FetchFails, guest, counters, Stopped, Execution!Stopped
  <2>4. Stopped("generalProtection") # Running
    BY DEF Stopped, Running
  <2> QED BY <1>1, <1>4, <2>3, <2>4, FetchFaultStep DEF decoder
<1>5. CASE /\ cursor < InstructionLengthLimit
           /\ At(cursor) \notin available
           /\ Exit(PageFault(At(cursor)))
           /\ UNCHANGED <<cursor, bytewise>>
  <2>1. c \in Execution!Missing
    BY <1>2, <1>3, <1>5, Sizes DEF Execution!Missing, Execution!Needed
  <2>2. PageFault(At(cursor)) = Execution!PageFault(Execution!At(c))
    BY <1>2, <1>3 DEF PageFault, Execution!PageFault
  <2>3. stop' = PageFault(At(cursor)) => Execution!FetchFails
    BY <1>1, <1>3, <2>1, <2>2 DEF Execution!FetchFails, guest, counters
  <2>4. PageFault(At(cursor)) # Running
    BY DEF PageFault, Running
  <2> QED BY <1>1, <1>5, <2>3, <2>4, FetchFaultStep DEF decoder
<1>6. CASE /\ cursor < InstructionLengthLimit
           /\ At(cursor) \in available
           /\ cursor' = cursor + 1
           /\ bytewise' = IF bytewise > 0 THEN bytewise - 1 ELSE 0
           /\ UNCHANGED <<pc, stop>>
  <2>1. cursor' = c + 1 /\ bytewise' = IF b > 0 THEN b - 1 ELSE 0
    BY <1>2, <1>6
  <2>2. encoding' = encoding /\ available' = available
    BY <1>1 DEF guest
  <2>3. \A o \in 0 .. c : At(o) \in available
    BY <1>1, <1>2, <1>6 DEF Inv, DecodeInv, ExactDecode
  <2>4. ExactDecode'
    BY <1>1, <1>2, <1>6, <2>1, <2>2, <2>3, Sizes DEF ExactDecode, At
  <2>5. DirectDecode'
    BY <1>1 DEF DirectDecode
  <2>6. InsideInstruction'
    BY <1>2, <2>1, <2>2 DEF InsideInstruction
  <2>7. cursor' \in Nat /\ bytewise' \in 0 .. 4
    BY <1>2, <2>1
  <2> QED BY <1>1, <1>6, <2>4, <2>5, <2>6, <2>7, ReadOn
<1> QED BY <1>4, <1>5, <1>6 DEF ReadExactByte

\* A wide exact read passes mapped bytes only, or turns to single bytes.
LEMMA ReadExactEncodedStep ==
    ASSUME Inv, NEW w \in {1, 2, 4}, ReadExactEncoded(w)
    PROVE  Inv' /\ Step
<1>1. /\ pc = "decode" /\ mode = "exact" /\ cursor < encoding.length
      /\ bytewise = 0 /\ w \in NextReads /\ w \in {2, 4}
      /\ UNCHANGED <<guest, counters, start, mode, pc, stop>>
  BY DEF ReadExactEncoded, Decoding
<1>2. PICK c \in Nat, n \in Nat :
         c = cursor /\ n = encoding.length /\ c + w <= n
  BY <1>1, NextReadsInside, EncodingParts DEF Inv, TypeOK
<1>3. encoding' = encoding /\ available' = available /\ start' = start
  BY <1>1 DEF guest
<1>4. DirectDecode'
  BY <1>1 DEF DirectDecode
<1>5. start \in Address
  BY DEF Inv, TypeOK
<1>6. CASE /\ WithinLimit(w) /\ RangeAvailable(At(cursor), w)
           /\ cursor' = cursor + w /\ UNCHANGED bytewise
  <2>1. PICK a \in Nat : a = At(c) /\ a \in Address
    BY <1>5, AtType, Sizes DEF Address
  <2>2. /\ a + w <= AddressCount
        /\ \A b \in a .. a + w - 1 : b \in available
    BY <1>2, <1>6, <2>1 DEF RangeAvailable
  <2>3. ASSUME NEW o \in 0 .. c + w - 1 PROVE At(o) \in available
    <3>1. CASE o < c
      BY <3>1, <1>1, <1>2 DEF Inv, DecodeInv, ExactDecode
    <3>2. CASE o >= c
      <4>1. PICK i \in Nat : i < w /\ o = c + i
        <5>1. o - c \in Nat /\ o - c < w /\ o = c + (o - c)
          BY <3>2, <1>2
        <5> QED BY <5>1
      <4>2. At(c) + i < AddressCount
        BY <4>1, <2>1, <2>2, Sizes
      <4>3. At(c + i) = a + i
        BY <4>1, <4>2, <2>1, <1>5, AtAdvances
      <4>4. a + i \in a .. a + w - 1
        BY <4>1, <2>1
      <4> QED BY <4>1, <4>3, <4>4, <2>2
    <3> QED BY <3>1, <3>2, <1>2
  <2>4. c + w <= InstructionLengthLimit
    BY <1>2, <1>6, Sizes DEF WithinLimit
  <2>5. cursor' = c + w
    BY <1>2, <1>6
  <2>6. ExactDecode'
    BY <1>3, <2>3, <2>4, <2>5 DEF ExactDecode, At
  <2>7. InsideInstruction' /\ cursor' \in Nat /\ bytewise' \in 0 .. 4
    BY <1>1, <1>2, <1>3, <1>6, <2>5 DEF InsideInstruction
  <2> QED BY <1>1, <1>4, <2>6, <2>7, ReadOn
<1>7. CASE bytewise' = w /\ UNCHANGED cursor
  <2>1. ExactDecode'
    BY <1>1, <1>3, <1>7 DEF Inv, DecodeInv, ExactDecode, At
  <2>2. InsideInstruction' /\ cursor' \in Nat /\ bytewise' \in 0 .. 4
    BY <1>1, <1>2, <1>3, <1>7 DEF InsideInstruction
  <2> QED BY <1>1, <1>4, <2>1, <2>2, ReadOn
<1> QED BY <1>6, <1>7 DEF ReadExactEncoded

-----------------------------------------------------------------------------
\* Executing.  A decoded instruction has been fetched as the abstract execution
\* fetches it: every byte of it is mapped, and it is no longer than the limit.
LEMMA DecodedIsFetched ==
    ASSUME Inv, pc = "decode", cursor = encoding.length
    PROVE  /\ start = eip
           /\ Execution!MayExecute
           /\ Execution!Fetched
           /\ Execution!At(encoding.length) = At(encoding.length)
<1>1. /\ start = eip /\ start \in Address
  BY DEF Inv, TypeOK, DecodeInv, StartIsEip
<1>2. Execution!MayExecute
  BY DEF Inv, TypeOK, DeadlineAhead, Execution!MayExecute, Execution!Running,
         Running
<1>3. \A o : Execution!At(o) = At(o)
  BY <1>1 DEF Execution!At, At
<1>4. PICK n \in Nat, p \in Nat :
         /\ n = encoding.length /\ p = encoding.prefixes
         /\ p < n /\ n - p <= MaximumUnprefixed
  BY EncodingParts DEF Inv, TypeOK
<1>5. n <= InstructionLengthLimit
  <2>1. CASE mode = "direct"
    <3>1. n <= MaximumDirectPrefixes \/ p <= MaximumDirectPrefixes
      BY <2>1, <1>4 DEF Inv, DecodeInv, DirectDecode
    <3> QED BY <3>1, <1>4, Sizes
  <2>2. CASE mode = "exact"
    BY <2>2, <1>4 DEF Inv, DecodeInv, ExactDecode
  <2> QED BY <2>1, <2>2 DEF Inv, TypeOK
<1>6. ASSUME NEW o \in Execution!Missing PROVE FALSE
  <2>1. o \in Nat /\ o < n /\ At(o) \notin available
    BY <1>3, <1>4, Sizes DEF Execution!Missing, Execution!Needed
  <2>2. CASE mode = "direct"
    <3>1. RangeAvailable(start, InstructionLengthLimit)
      BY <2>2 DEF Inv, DecodeInv, DirectDecode
    <3>2. PICK s \in Nat : s = start
      BY <1>1, Sizes DEF Address
    <3>3. /\ s + o < AddressCount
          /\ s + o \in s .. s + InstructionLengthLimit - 1
      BY <3>1, <3>2, <2>1, <1>5, Sizes DEF RangeAvailable
    <3>4. At(o) = s + o
      BY <3>2, <3>3, <2>1, <1>1, AtStart
    <3> QED BY <3>1, <3>2, <3>3, <3>4, <2>1 DEF RangeAvailable
  <2>3. CASE mode = "exact"
    <3>1. o \in 0 .. cursor - 1
      BY <2>1, <1>4
    <3> QED BY <3>1, <2>1, <2>3 DEF Inv, DecodeInv, ExactDecode
  <2> QED BY <2>2, <2>3 DEF Inv, TypeOK
<1>7. Execution!Fetched
  BY <1>4, <1>5, <1>6 DEF Execution!Fetched
<1> QED BY <1>1, <1>2, <1>3, <1>7

\* Completing an instruction charges its units to both counters.
LEMMA PublishCharges ==
    ASSUME Inv, pc = "decode", NEW target \in Address, Publish(target)
    PROVE  /\ count' \in Counter
           /\ Minus(count', count) = encoding.units
           /\ Minus(limit, count) = budget - spent
           /\ encoding.units \in Nat /\ encoding.units > 0
           /\ spent < budget
           /\ encoding.units <= budget - spent =>
                Minus(limit', count') = budget' - spent'
           /\ spent' = spent + encoding.units /\ spent' \in Nat
           /\ budget' = budget
<1>1. PICK u \in Counter : u = encoding.units /\ u > 0 /\ u \in Nat
  BY Sizes, EncodingParts DEF Inv, TypeOK, Counter
<1>2. /\ count \in Counter /\ limit \in Counter
      /\ spent \in Nat /\ budget \in Nat
  BY Sizes DEF Inv, TypeOK
<1>3. /\ Minus(limit, count) = budget - spent
      /\ spent < budget
  BY DEF Inv, DeadlineAhead
<1>4. /\ count' = Plus(count, u) /\ spent' = spent + u
      /\ limit' = limit /\ budget' = budget
  BY <1>1 DEF Publish
<1>5. Minus(count', count) = u /\ count' \in Counter
  BY <1>1, <1>2, <1>4, Completed
<1>6. ASSUME u <= budget - spent PROVE Minus(limit', count') = budget' - spent'
  <2>1. Minus(limit, Plus(count, u)) = Minus(limit, count) - u
    BY <1>1, <1>2, <1>3, <1>6, Left
  <2>2. PICK b \in Nat, s \in Nat : b = budget /\ s = spent
    BY <1>2
  <2>3. (b - s) - u = b - (s + u)
    BY <2>2, <1>1
  <2> QED BY <2>1, <2>2, <2>3, <1>3, <1>4
<1>7. spent + u \in Nat
  BY <1>1, <1>2
<1> QED BY <1>1, <1>3, <1>4, <1>5, <1>6, <1>7

\* Types after completing an instruction.
LEMMA PublishTypes ==
    ASSUME Inv, pc = "decode", NEW target \in Address, Publish(target),
           start' \in Address, UNCHANGED <<mode, cursor, bytewise>>,
           \/ pc' = "host" /\ stop' # Running
           \/ pc' \in {"run", "head"} /\ stop' = Running
    PROVE  TypeOK'
<1>1. /\ count' \in Counter /\ spent' \in Nat /\ budget' = budget
  BY PublishCharges
<1>2. /\ eip' = target /\ encoding' \in Encoding
      /\ available' = available /\ limit' = limit
  BY DEF Publish
<1> QED BY <1>1, <1>2 DEF Inv, TypeOK

\* Going on with the next instruction: the deadline is still ahead, and the loop
\* local is the published eip.
LEMMA ContinueStep ==
    ASSUME Inv, pc = "decode", NEW target \in Address, Publish(target),
           Continue(target), UNCHANGED <<mode, cursor, bytewise>>,
           encoding.units <= budget - spent
    PROVE  Inv' /\ stop' = Running
<1>1. /\ pc' \in {"run", "head"} /\ start' \in Address
      /\ pc' = "head" => start' = target
      /\ stop' = stop
  BY DEF Continue, Inv, TypeOK
<1>2. stop' = Running
  BY <1>1 DEF Inv, TypeOK
<1>3. TypeOK'
  BY <1>1, <1>2, PublishTypes
<1>4. DeadlineAhead'
  <2>1. PICK b \in Nat, s \in Nat, u \in Nat :
           b = budget /\ s = spent /\ u = encoding.units
    <3>1. budget \in Nat /\ spent \in Nat
      BY Sizes DEF Inv, TypeOK
    <3>2. encoding.units \in Nat
      BY PublishCharges
    <3> QED BY <3>1, <3>2
  <2>2. budget' = b /\ spent' = s + u /\ u <= b - s
    BY <2>1, PublishCharges
  <2>3. spent' <= budget'
    BY <2>1, <2>2
  <2>4. Minus(limit', count') = budget' - spent'
    BY PublishCharges
  <2>5. Minus(limit, count)' = budget' - spent'
    BY <2>4 DEF Minus, Modulus
  <2> QED BY <1>1, <2>3, <2>5 DEF DeadlineAhead
<1>5. DecodeInv'
  BY <1>1 DEF DecodeInv, StartIsEip, DirectDecode, ExactDecode,
              InsideInstruction, Publish
<1> QED BY <1>2, <1>3, <1>4, <1>5 DEF Inv

\* Returning to the host after completing an instruction.
LEMMA ExitStep ==
    ASSUME Inv, pc = "decode", NEW target \in Address, Publish(target),
           UNCHANGED decoder, NEW s, s # Running, Exit(s)
    PROVE  Inv' /\ stop' = s
<1>1. pc' = "host" /\ stop' = s /\ start' \in Address
  BY DEF Exit, decoder, Inv, TypeOK
<1>2. TypeOK'
  BY <1>1, PublishTypes DEF decoder
<1>3. DeadlineAhead' /\ DecodeInv'
  BY <1>1 DEF DeadlineAhead, DecodeInv, StartIsEip, DirectDecode, ExactDecode,
              InsideInstruction
<1> QED BY <1>1, <1>2, <1>3 DEF Inv

\* A REP that reaches the limit leaves the run, however far past it the count is;
\* any other instruction that falls through goes on.
LEMMA FallThroughStep ==
    ASSUME Inv, FallThrough
    PROVE  Inv' /\ Step
<1> DEFINE target == At(encoding.length)
<1>1. /\ pc = "decode" /\ cursor = encoding.length
      /\ encoding.effect = "fallthrough"
      /\ Publish(target) /\ UNCHANGED <<mode, cursor, bytewise>>
  BY DEF FallThrough, Decoded
<1>2. encoding.length \in Nat /\ start \in Address
  BY EncodingParts DEF Inv, TypeOK
<1>3. target \in Address
  BY <1>2, AtType
<1>4. /\ Execution!MayExecute /\ Execution!Fetched
      /\ Execution!At(encoding.length) = target
  BY <1>1, DecodedIsFetched
<1> HIDE DEF target
<1>5. /\ Minus(count', count) = encoding.units
      /\ Minus(limit, count) = budget - spent
      /\ encoding.units \in Nat /\ spent' = spent + encoding.units
      /\ budget' = budget
  BY <1>1, <1>3, PublishCharges
<1>6. PICK b \in Nat, s \in Nat, u \in Nat :
         b = budget /\ s = spent /\ u = encoding.units
  <2>1. budget \in Nat /\ spent \in Nat
    BY Sizes DEF Inv, TypeOK
  <2> QED BY <2>1, <1>5
<1>7. CrossedDeadline <=> u >= b - s
  BY <1>5, <1>6 DEF CrossedDeadline
<1>8. /\ eip' = Execution!At(encoding.length) /\ encoding' \in Encoding
      /\ spent' = spent + encoding.units /\ UNCHANGED <<available, budget>>
  BY <1>1, <1>4 DEF Publish
<1>9. CASE CrossedDeadline
  <2>1. Exit(Stopped("instructionLimit")) /\ UNCHANGED start
    BY <1>9 DEF FallThrough
  <2>2. Stopped("instructionLimit") # Running
    BY DEF Stopped, Running
  <2>3. UNCHANGED decoder
    BY <1>1, <2>1 DEF decoder
  <2>4. Inv' /\ stop' = Stopped("instructionLimit")
    BY <1>1, <1>3, <2>1, <2>2, <2>3, ExitStep
  <2>5. spent' >= budget
    <3>1. s + u >= b
      BY <1>6, <1>7, <1>9
    <3> QED BY <3>1, <1>5, <1>6
  <2>6. Execution!Complete
    BY <1>1, <1>4, <1>8, <2>4, <2>5
       DEF Execution!Complete, Stopped, Execution!Stopped
  <2> QED BY <2>4, <2>6 DEF Step, Execution!Next
<1>10. CASE ~CrossedDeadline
  <2>1. Continue(target)
    BY <1>10 DEF FallThrough, target
  <2>2. encoding.units <= budget - spent
    <3>1. u <= b - s
      BY <1>6, <1>7, <1>10
    <3> QED BY <3>1, <1>6
  <2>3. Inv' /\ stop' = Running
    BY <1>1, <1>3, <2>1, <2>2, ContinueStep
  <2>4. Execution!Complete
    BY <1>1, <1>4, <1>8, <2>3
       DEF Execution!Complete, Running, Execution!Running
  <2> QED BY <2>3, <2>4 DEF Step, Execution!Next
<1> QED BY <1>9, <1>10

\* A jump charges one unit of a budget that is not spent, so the deadline it
\* does not look at cannot be passed by it.
LEMMA JumpStep ==
    ASSUME Inv, NEW target \in Address, Jump(target)
    PROVE  Inv' /\ Step
<1>1. /\ pc = "decode" /\ cursor = encoding.length
      /\ encoding.effect = "jump"
      /\ Publish(target) /\ Continue(target)
      /\ UNCHANGED <<mode, cursor, bytewise>>
  BY DEF Jump, Decoded
<1>2. encoding.units = 1
  BY <1>1, EncodingParts DEF Inv, TypeOK
<1>3. encoding.units <= budget - spent
  <2>1. budget \in Nat /\ spent \in Nat
    BY Sizes DEF Inv, TypeOK
  <2>2. spent < budget
    BY <1>1, PublishCharges
  <2>3. 1 <= budget - spent
    BY <2>1, <2>2
  <2> QED BY <2>3, <1>2
<1>4. Inv' /\ stop' = Running
  BY <1>1, <1>3, ContinueStep
<1>5. Execution!MayExecute /\ Execution!Fetched
  BY <1>1, DecodedIsFetched
<1>6. Execution!Complete
  BY <1>1, <1>4, <1>5
     DEF Publish, Execution!Complete, Running, Execution!Running, Address,
         Execution!Address
<1> QED BY <1>4, <1>6 DEF Step, Execution!Next

\* A host trap completes the instruction before it leaves.
LEMMA HostTrapStep ==
    ASSUME Inv, HostTrap
    PROVE  Inv' /\ Step
<1>1. /\ pc = "decode" /\ cursor = encoding.length
      /\ encoding.effect = "trap"
      /\ Publish(At(encoding.length)) /\ Exit(Stopped("trap"))
      /\ UNCHANGED decoder
  BY DEF HostTrap, Decoded
<1>2. encoding.length \in Nat /\ start \in Address
  BY EncodingParts DEF Inv, TypeOK
<1>3. At(encoding.length) \in Address
  BY <1>2, AtType
<1>4. /\ Execution!MayExecute /\ Execution!Fetched
      /\ Execution!At(encoding.length) = At(encoding.length)
  BY <1>1, DecodedIsFetched
<1>5. Stopped("trap") # Running
  BY DEF Stopped, Running
<1>6. Inv' /\ stop' = Stopped("trap")
  BY <1>1, <1>3, <1>5, ExitStep
<1>7. Execution!Complete
  BY <1>1, <1>4, <1>6
     DEF Publish, Execution!Complete, Stopped, Execution!Stopped
<1> QED BY <1>6, <1>7 DEF Step, Execution!Next

\* A fault leaves the instruction to be executed again, at no charge.
LEMMA RaiseStep ==
    ASSUME Inv, Raise
    PROVE  Inv' /\ Step
<1>1. PICK effect \in {"exception", "segmentLoad"} :
         Decoded(effect) /\ Exit(Stopped(effect))
  BY DEF Raise
<1>2. /\ pc = "decode" /\ cursor = encoding.length
      /\ encoding.effect = effect
      /\ pc' = "host" /\ stop' = Stopped(effect) /\ stop' # Running
      /\ UNCHANGED <<guest, counters, decoder>>
  BY <1>1 DEF Raise, Decoded, Exit, Stopped, Running
<1>3. TypeOK'
  BY <1>2 DEF Inv, TypeOK, guest, counters, decoder
<1>4. DeadlineAhead' /\ DecodeInv'
  BY <1>2 DEF DeadlineAhead, DecodeInv, StartIsEip, DirectDecode, ExactDecode,
              InsideInstruction
<1>5. Execution!MayExecute /\ Execution!Fetched
  BY <1>2, DecodedIsFetched
<1>6. Execution!Raise
  BY <1>1, <1>2, <1>5
     DEF Execution!Raise, Stopped, Execution!Stopped, guest, counters
<1> QED BY <1>3, <1>4, <1>6 DEF Inv, Step, Execution!Next

\* Nothing but vars is in the invariant or in the abstract state.
LEMMA Stutter ==
    ASSUME Inv, UNCHANGED vars
    PROVE  Inv' /\ Step
<1>1. UNCHANGED <<guest, counters, decoder, pc, stop>>
  BY DEF vars
<1>2. TypeOK'
  BY <1>1 DEF Inv, TypeOK, guest, counters, decoder
<1>3. DeadlineAhead'
  BY <1>1 DEF Inv, DeadlineAhead, counters
<1>4. DecodeInv'
  <2>1. /\ pc' = pc /\ eip' = eip /\ encoding' = encoding
        /\ available' = available /\ start' = start /\ mode' = mode
        /\ cursor' = cursor /\ bytewise' = bytewise
    BY <1>1 DEF guest, decoder
  <2>2. StartIsEip' /\ InsideInstruction'
    BY <2>1 DEF Inv, DecodeInv, StartIsEip, InsideInstruction
  <2>3. DirectDecode'
    BY <2>1 DEF Inv, DecodeInv, DirectDecode, RangeAvailable
  <2>4. ExactDecode'
    BY <2>1 DEF Inv, DecodeInv, ExactDecode, At
  <2> QED BY <2>2, <2>3, <2>4 DEF DecodeInv
<1>5. UNCHANGED Execution!vars
  BY <1>1 DEF guest, counters, Execution!vars
<1> QED BY <1>2, <1>3, <1>4, <1>5 DEF Inv, Step

\* Every step keeps the invariant and is one of the abstract run, or none.
LEMMA NextStep ==
    ASSUME Inv, [Next]_vars
    PROVE  Inv' /\ Step
<1>1. CASE WriteGuest \/ Remap
  BY <1>1, HostSteps
<1>2. CASE \E b \in 0 .. MaximumBudget : RunCpu(b)
  BY <1>2, RunCpuStep
<1>3. CASE EnterRun
  BY <1>3, EnterRunStep
<1>4. CASE CheckLimit
  BY <1>4, CheckLimitStep
<1>5. CASE ProveWindow
  BY <1>5, ProveWindowStep
<1>6. CASE EnterExactInstruction
  BY <1>6, EnterExactStep
<1>7. CASE ReadExactByte
  BY <1>7, ReadExactByteStep
<1>8. CASE \E width \in {1, 2, 4} : ReadDirect(width)
  BY <1>8, ReadDirectStep
<1>9. CASE \E width \in {1, 2, 4} : ReadExactEncoded(width)
  BY <1>9, ReadExactEncodedStep
<1>10. CASE FallThrough
  BY <1>10, FallThroughStep
<1>11. CASE HostTrap
  BY <1>11, HostTrapStep
<1>12. CASE Raise
  BY <1>12, RaiseStep
<1>13. CASE \E target \in Address : Jump(target)
  BY <1>13, JumpStep
<1>14. CASE UNCHANGED vars
  BY <1>14, Stutter
<1> QED BY <1>1, <1>2, <1>3, <1>4, <1>5, <1>6, <1>7, <1>8, <1>9, <1>10, <1>11,
           <1>12, <1>13, <1>14 DEF Next, GeneratedCode

-----------------------------------------------------------------------------
\* The inductive invariant is one.
LEMMA Invariance == Spec => []Inv
<1>1. Init => Inv
  BY InitInv
<1>2. Inv /\ [Next]_vars => Inv'
  BY NextStep
<1> QED BY <1>1, <1>2, PTL DEF Spec

(***************************************************************************)
(* While a run is under way the modular distance to the limit is exactly   *)
(* the budget that is left, for every budget below half the modulus and    *)
(* every REP count below the modulus: cpu.ts sets the limit, the loop head *)
(* compares signed, continueInterpreter compares distances, and no wrapped *)
(* comparison goes wrong.                                                  *)
(***************************************************************************)
THEOREM RunState == Spec => [](TypeOK /\ DeadlineAhead)
<1>1. Inv => TypeOK /\ DeadlineAhead
  BY DEF Inv
<1> QED BY <1>1, Invariance, PTL

(***************************************************************************)
(* Every unchecked read of direct mode lies in the window the run loop has *)
(* proved, whatever the encodings and the length limit.                    *)
(***************************************************************************)
THEOREM DirectReads == Spec => DirectReadsInsideWindow
<1> DEFINE Inside ==
      \A width \in {1, 2, 4} :
         ReadDirect(width) =>
            RangeAvailable(start, InstructionLengthLimit)
            /\ cursor' <= InstructionLengthLimit
<1>1. Inv /\ [Next]_vars => [Inside]_vars
  <2> SUFFICES ASSUME Inv, NEW width \in {1, 2, 4}, ReadDirect(width)
               PROVE  RangeAvailable(start, InstructionLengthLimit)
                      /\ cursor' <= InstructionLengthLimit
    OBVIOUS
  <2> QED BY ReadDirectStep
<1> HIDE DEF Inside
<1>2. Spec => [][Inside]_vars
  BY <1>1, Invariance, PTL DEF Spec
<1> QED BY <1>2 DEF Inside, DirectReadsInsideWindow

(***************************************************************************)
(* The generated functions with their windows, fallbacks, tail calls and   *)
(* modular counters implement the run that fetches byte by byte and        *)
(* executes one whole instruction after the other.                         *)
(***************************************************************************)
THEOREM RunIsInstructionAtATime == Spec => InstructionAtATime
<1>1. Init => Execution!Init
  BY InitInv
<1>2. Inv /\ [Next]_vars => [Execution!Next]_(Execution!vars)
  BY NextStep DEF Step
<1> QED BY <1>1, <1>2, Invariance, PTL
       DEF Spec, InstructionAtATime, Execution!Spec
=============================================================================
