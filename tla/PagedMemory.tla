---------------------------- MODULE PagedMemory -----------------------------
(***************************************************************************)
(* What the virtual address space promises to the code that uses it        *)
(* (BoundMemoryAccess in src/memory/types.ts): a range of linear bytes is  *)
(* granted or refused as a whole, in one step, by looking at the page      *)
(* table entry of each of its bytes, and a transfer inside a granted range *)
(* touches each byte where the page table puts it.                         *)
(***************************************************************************)
EXTENDS Integers, Sequences

CONSTANTS
    PageSize,    \* bytes in a page
    PageCount    \* pages of the linear and of the physical address space

VARIABLES
    table,      \* the page table: an entry for every page
    grant,      \* the range the caller may touch, or NoGrant
    outcome     \* what the last operation gave its caller

Page == 0 .. PageCount - 1
AddressCount == PageSize * PageCount
Address == 0 .. AddressCount - 1
Intent == {"read", "write", "instructionFetch"}

Entry == [present : BOOLEAN, writable : BOOLEAN, frame : Page]
Range == [start : Address, length : 0 .. AddressCount - 1, intent : Intent]

NoGrant == [start |-> 0, length |-> 0, intent |-> "none"]
NoOutcome == [kind |-> "none"]
Unavailable(r) == [kind |-> "unavailable", range |-> r]
\* The bytes touched are those of the linear addresses from start on.
Touched(start, bytes) ==
    [kind |-> "touched", start |-> start, bytes |-> bytes]
Faulted(r, address, present) ==
    [kind |-> "fault", range |-> r, address |-> address, present |-> present]

PageOf(a) == a \div PageSize
Offset(a) == a % PageSize
Base(page) == page * PageSize

EntryDenies(e, intent) == ~e.present \/ (intent = "write" /\ ~e.writable)

Denied(a, intent) == EntryDenies(table[PageOf(a)], intent)

Translate(a) == Base(table[PageOf(a)].frame) + Offset(a)

\* Neither empty nor running past the end of the address space.
Proper(r) == r.length > 0 /\ r.start + r.length <= AddressCount

Bytes(r) == r.start .. r.start + r.length - 1

Allowed(r) == Proper(r) /\ \A a \in Bytes(r) : ~Denied(a, r.intent)

Contiguous(r) ==
    \A a \in Bytes(r) : Translate(a) = Translate(r.start) + (a - r.start)

Init ==
    /\ table \in [Page -> Entry]
    /\ grant = NoGrant
    /\ outcome = NoOutcome

\* The host changes the page table; no range is granted at that time.
Remap ==
    /\ grant = NoGrant
    /\ table' \in [Page -> Entry]
    /\ outcome' = NoOutcome
    /\ UNCHANGED grant

Grant ==
    /\ grant' \in Range
    /\ Allowed(grant')
    /\ outcome' = NoOutcome
    /\ UNCHANGED table

\* The fault names the first byte that is denied; a range that is empty or
\* wraps is refused at its start, as if nothing were mapped there.
RefusalOf(r) ==
    IF ~Proper(r)
    THEN {Faulted(r, r.start, FALSE)}
    ELSE {Faulted(r, a, table[PageOf(a)].present) :
             a \in {a \in Bytes(r) :
                      /\ Denied(a, r.intent)
                      /\ \A b \in Bytes(r) : b < a => ~Denied(b, r.intent)}}

Refuse ==
    /\ outcome'.kind = "fault"
    /\ outcome'.range \in Range
    /\ outcome' \in RefusalOf(outcome'.range)
    /\ grant' = NoGrant
    /\ UNCHANGED table

\* A caller that can only use a contiguous range is sent away for exactly the
\* ranges that are refused or are not contiguous.
Decline ==
    /\ outcome'.kind = "unavailable"
    /\ outcome' = Unavailable(outcome'.range)
    /\ LET r == outcome'.range IN
       r \in Range /\ (~Allowed(r) \/ ~Contiguous(r))
    /\ grant' = NoGrant
    /\ UNCHANGED table

\* Physical addresses of width bytes from offset, lowest linear byte first.
Transfer(offset, width) ==
    /\ grant # NoGrant
    /\ offset + width <= grant.length
    /\ outcome' = Touched(grant.start + offset, [i \in 1 .. width |->
                              Translate(grant.start + offset + (i - 1))])
    /\ UNCHANGED <<table, grant>>

Release ==
    /\ grant' = NoGrant
    /\ outcome' = NoOutcome
    /\ UNCHANGED table

\* The host reads one byte with a page fault of its own.
HostRead(a, intent) ==
    /\ grant = NoGrant
    /\ outcome' = IF Denied(a, intent)
                  THEN Faulted([start |-> a, length |-> 1, intent |-> intent],
                               a, FALSE)
                  ELSE Touched(a, <<Translate(a)>>)
    /\ UNCHANGED <<table, grant>>

Next ==
    \/ Remap \/ Grant \/ Refuse \/ Decline \/ Release
    \/ \E offset \in 0 .. AddressCount, width \in 1 .. 4 :
          Transfer(offset, width)
    \/ \E a \in Address, intent \in Intent \ {"write"} : HostRead(a, intent)

Spec == Init /\ [][Next]_<<table, grant, outcome>>
=============================================================================
