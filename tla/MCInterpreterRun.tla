-------------------------- MODULE MCInterpreterRun --------------------------
(***************************************************************************)
(* Two instances of InterpreterRun.                                        *)
(*                                                                         *)
(* Fetch: every shape of encoding around the length limit, from every      *)
(* address, over pages of two bytes; the budget is a single instruction.   *)
(*                                                                         *)
(* Budget: one-byte encodings with every effect, with REP units up to the  *)
(* whole modulus, over several runs that wrap the counters.                *)
(***************************************************************************)
EXTENDS InterpreterRun

\* RunCpu and BeginDecode overwrite what is left out, and LimitReached looks
\* at the distance of the counters only.
FetchView ==
    IF pc = "host"
    THEN guest
    ELSE <<guest, pc, start, budget, spent, Minus(limit, count),
           IF pc = "decode" THEN <<mode, cursor, bytewise>> ELSE << >> >>

FetchEncoding ==
    {e \in [prefixes : 0 .. 6, length : 1 .. 10,
            effect : {"fallthrough", "exception"}, units : {1}] :
        /\ e.length - e.prefixes \in 1 .. MaximumUnprefixed
        /\ e.effect = "exception" => e.prefixes <= 1 }

\* Addresses 2k and 2k + 1 are mapped together.
FetchMapping ==
    {S \in SUBSET Address :
        \A a \in Address : a \in S <=> (2 * (a \div 2)) \in S}

BudgetEncoding ==
    [prefixes : {0}, length : {1}, effect : {"fallthrough"},
     units : 1 .. Modulus - 1]
    \cup
    [prefixes : {0}, length : {1, 2}, effect : Effect \ {"fallthrough"},
     units : {1}]

\* Everything but the last address.
BudgetMapping == {0 .. AddressCount - 2}
=============================================================================
