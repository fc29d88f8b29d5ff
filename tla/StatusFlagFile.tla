--------------------------- MODULE StatusFlagFile ---------------------------
(***************************************************************************)
(* What the status flags promise to instruction semantics and to the host: *)
(* one bit per flag, always up to date.  An arithmetic instruction sets    *)
(* them all from its operands, an instruction that raises leaves them as   *)
(* they were when it began, and a raise inside a REP as they were when the *)
(* current iteration began.                                                *)
(***************************************************************************)
CONSTANTS
    Flag,       \* the status flags
    Source,     \* arithmetic results that determine every flag
    Derived,    \* Derived[s][f] is flag f after result s
    Condition,  \* condition codes
    Truth       \* Truth[cc] is the set of flag images on which cc holds

VARIABLES
    flags,      \* the architectural flags
    saved,      \* what a raise returns to
    phase,      \* where the current path stands, see StatusFlagTracker
    result      \* what the last read or test returned

vars == <<flags, saved, phase, result>>

Bit == {0, 1}

NoResult == << >>

Holds(cc, image) == IF image \in Truth[cc] THEN 1 ELSE 0

Init ==
    /\ flags \in [Flag -> Bit]
    /\ saved = flags
    /\ phase = "exited"
    /\ result = NoResult

Move(from, to) == phase \in from /\ phase' = to

\* Every mark of progress that moves the point a raise returns to.
Mark(from, to) ==
    /\ Move(from, to)
    /\ saved' = flags
    /\ result' = NoResult
    /\ UNCHANGED flags

Pass(from, to) ==
    /\ Move(from, to)
    /\ result' = NoResult
    /\ UNCHANGED <<flags, saved>>

Assign(image) ==
    /\ flags' = image
    /\ result' = NoResult
    /\ UNCHANGED saved

Answer(value) ==
    /\ result' = <<value>>
    /\ UNCHANGED <<flags, saved, phase>>

HostRead(f) == phase = "exited" /\ Answer(flags[f])

HostWrite(f, v) ==
    /\ phase = "exited"
    /\ Assign([flags EXCEPT ![f] = v])
    /\ UNCHANGED phase

Enter == Pass({"exited"}, "between")
Begin == Mark({"between"}, "running")
Complete == Pass({"running", "committing"}, "between")
Publish == Pass({"between"}, "exited")

Fault == Move({"running", "looping"}, "exited") /\ Assign(saved)

Read(f) == phase = "running" /\ Answer(flags[f])

Write(f, v) ==
    /\ phase = "running"
    /\ Assign([flags EXCEPT ![f] = v])
    /\ UNCHANGED phase

WriteSource(s) ==
    /\ phase = "running"
    /\ Assign(Derived[s])
    /\ UNCHANGED phase

Test(cc) == phase \in {"running", "iterated"} /\ Answer(Holds(cc, flags))

Skip == Pass({"running"}, "committing")
EnterLoop == Mark({"running"}, "looping")
Iterate(s) == Move({"looping"}, "iterated") /\ Assign(Derived[s])
Again == Mark({"iterated"}, "looping")
Leave == Pass({"iterated"}, "committing")

Next ==
    \/ Enter \/ Begin \/ Complete \/ Publish \/ Fault
    \/ Skip \/ EnterLoop \/ Again \/ Leave
    \/ \E f \in Flag :
          HostRead(f) \/ Read(f) \/ \E v \in Bit : HostWrite(f, v) \/ Write(f, v)
    \/ \E s \in Source : WriteSource(s) \/ Iterate(s)
    \/ \E cc \in Condition : Test(cc)

Spec == Init /\ [][Next]_vars
=============================================================================
