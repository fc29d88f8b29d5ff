-------------------------- MODULE MCVirtualMemory ---------------------------
(***************************************************************************)
(* Three pages of four bytes: a range can start anywhere in its first      *)
(* page, cross one or two page boundaries, or wrap.                        *)
(***************************************************************************)
EXTENDS VirtualMemory

MCIntent == {"read", "write"}

MCRequest ==
    LET static == [start : Address, length : 1 .. 4, intent : MCIntent,
                   form : {"static"}, mode : {"detailed", "direct"}]
        general == [start : Address, length : {0, 2, 5, 9},
                    intent : MCIntent, form : {"general"},
                    mode : {"detailed", "direct"}]
    IN  static \cup general

\* Absent, read-only and writable pages; only the frame of a present page
\* tells anything apart.
MCEntry ==
    {e \in Entry : (~e.present => e.frame = 0 /\ ~e.writable)}

\* No action looks at the outcome.
MCView == <<table, invocation>>
=============================================================================
