--------------------------- MODULE VirtualMemory ----------------------------
(***************************************************************************)
(* Virtual memory as generated code performs it (src/memory/virtual): the  *)
(* host owns the page table and calls generated functions; inside one      *)
(* invocation a range is resolved, page by page, into a PTE-shaped word,   *)
(* the word is decoded into a fault or an access, and bytes are loaded or  *)
(* stored through the access.                                              *)
(*                                                                         *)
(* A word is a record: the bit fields the code packs never overlap.        *)
(* Addresses are the numbers below PageSize * PageCount and wrap there.    *)
(***************************************************************************)
EXTENDS Integers, Sequences

CONSTANTS
    PageSize,        \* bytes in a page (virtualPageByteLength)
    PageCount,       \* pages of both address spaces (virtualPageCount)
    Request,         \* ranges the instructions resolve, see RequestType
    HostEntry        \* the entries the host stores

(***************************************************************************)
(* form "static": byteLength is a constant of at most a page, so a         *)
(* specialised helper is used; mode "direct": resolveDirect.               *)
(***************************************************************************)
Page == 0 .. PageCount - 1
AddressCount == PageSize * PageCount
Address == 0 .. AddressCount - 1
Intent == {"read", "write", "instructionFetch"}
Entry == [present : BOOLEAN, writable : BOOLEAN, frame : Page]
RequestType ==
    [start : Address, length : 0 .. AddressCount - 1, intent : Intent,
     form : {"static", "general"}, mode : {"detailed", "direct"}]

ASSUME PageAssumption ==
    /\ PageSize \in Nat \ {0}
    /\ PageSize % 4 = 0
    /\ PageCount \in Nat \ {0, 1}

ASSUME RequestAssumption ==
    /\ Request \subseteq RequestType
    /\ \A r \in Request :
          r.form = "static" => r.length > 0 /\ r.length <= PageSize
    /\ HostEntry \subseteq Entry

VARIABLES
    table,          \* the page table in machine memory
    phase,          \* "host", "idle", "walking" or "granted"
    cachedPage,     \* page-cache.ts: the cached page, -1 when empty
    cachedEntry,    \* page-cache.ts: the entry read for it
    request,        \* the range being resolved or granted
    walk,           \* locals of the general helper's loop
    access,         \* the decoded access: physical start and scattered
    outcome         \* what the last operation gave its caller

invocation == <<phase, cachedPage, cachedEntry, request, walk, access>>
vars == <<table, invocation, outcome>>

NoPage == -1
NoRequest == "no request"
NoWalk == "no walk"
NoAccess == "no access"
NoOutcome == [kind |-> "none"]
RangeOf(r) == [start |-> r.start, length |-> r.length, intent |-> r.intent]
Unavailable(r) == [kind |-> "unavailable", range |-> RangeOf(r)]
\* The bytes touched are those of the linear addresses from start on.
Touched(start, bytes) ==
    [kind |-> "touched", start |-> start, bytes |-> bytes]
Faulted(r, address, present) ==
    [kind |-> "fault", range |-> RangeOf(r), address |-> address,
     present |-> present]
AbsentEntry == [present |-> FALSE, writable |-> FALSE, frame |-> 0]

-----------------------------------------------------------------------------
\* Address arithmetic.
PageOf(a) == a \div PageSize
Offset(a) == a % PageSize
Base(page) == page * PageSize
Last(r) == (r.start + r.length - 1) % AddressCount
FrameAfter(frame) == (frame + 1) % PageCount
FrameWraps(frame) == FrameAfter(frame) < frame

EntryDenies(e, intent) == ~e.present \/ (intent = "write" /\ ~e.writable)

\* The result words of the resolution helpers.
ZeroWord ==
    [present |-> FALSE, writable |-> FALSE, frame |-> 0,
     later |-> FALSE, scattered |-> FALSE]

WordOf(e) ==
    [present |-> e.present, writable |-> e.writable, frame |-> e.frame,
     later |-> FALSE, scattered |-> FALSE]

SuccessWord(first, scattered) ==
    [present |-> first.present, writable |-> first.writable,
     frame |-> first.frame, later |-> FALSE, scattered |-> scattered]

LaterDenialWord(page, e) ==
    [present |-> e.present, writable |-> e.writable, frame |-> page,
     later |-> TRUE, scattered |-> FALSE]

-----------------------------------------------------------------------------
\* Static ranges (at most one page): no loop, at most a second page.
StaticRangeNeedsHelper(r) ==
    IF r.length \in {2, 4}
    THEN r.start % r.length # 0
    ELSE Offset(r.start) > PageSize - r.length

\* Slip: the end of the physical space not seen as a break.
FramesAreNotSequentialUnlessWrapped(first, second) ==
    second.frame # FrameAfter(first.frame)

FramesAreNotSequential(first, second) ==
    FrameWraps(first.frame) \/ second.frame # FrameAfter(first.frame)

StaticWord(r, first) ==
    LET secondPage == PageOf(Last(r))
        second == table[secondPage] IN
    CASE PageOf(r.start) = secondPage -> WordOf(first)
      [] PageOf(r.start) # secondPage /\ Last(r) < r.start -> ZeroWord
      [] PageOf(r.start) # secondPage /\ ~(Last(r) < r.start) ->
            IF EntryDenies(first, r.intent) THEN WordOf(first)
            ELSE IF EntryDenies(second, r.intent)
            THEN LaterDenialWord(secondPage, second)
            ELSE SuccessWord(first, FramesAreNotSequential(first, second))

DirectStaticUnavailable(r, first) ==
    LET second == table[PageOf(Last(r))] IN
    IF PageOf(r.start) = PageOf(Last(r))
    THEN EntryDenies(first, r.intent)
    ELSE \/ Last(r) < r.start
         \/ FramesAreNotSequential(first, second)
         \/ EntryDenies([present |-> first.present /\ second.present,
                         writable |-> first.writable /\ second.writable,
                         frame |-> 0], r.intent)

\* A one-byte range, and one that needs no helper, is its first entry.
StaysOnPage(r) == r.length = 1 \/ ~StaticRangeNeedsHelper(r)

-----------------------------------------------------------------------------
\* General ranges: what is known before the loop over later pages.
GeneralWordAtOnce(r, first) ==
    IF r.length = 0 \/ Last(r) < r.start THEN ZeroWord ELSE WordOf(first)

\* Slip: a range that wraps walks too.
NeedsWalkThoughWrapping(r, first) ==
    /\ r.length # 0
    /\ PageOf(r.start) # PageOf(Last(r))
    /\ ~EntryDenies(first, r.intent)

NeedsWalk(r, first) ==
    /\ r.length # 0
    /\ ~(Last(r) < r.start)
    /\ PageOf(r.start) # PageOf(Last(r))
    /\ ~EntryDenies(first, r.intent)

FirstWalk(r, first) ==
    [page |-> PageOf(r.start) + 1, first |-> first,
     expected |-> FrameAfter(first.frame), scattered |-> FrameWraps(first.frame)]

-----------------------------------------------------------------------------
\* Decoding a word.
PhysicalStart(word, start) == Base(word.frame) + Offset(start)

FaultOf(r, word) ==
    Faulted(r, IF word.later THEN Base(word.frame) ELSE r.start,
            word.present)

DirectUnavailable(r, word) ==
    EntryDenies(word, r.intent) \/ word.later \/ word.scattered

\* A fault leaves the generated function.
Fault(r, word) ==
    /\ phase' = "host"
    /\ outcome' = FaultOf(r, word)
    /\ request' = NoRequest
    /\ access' = NoAccess

Decline(r) ==
    /\ phase' = "idle"
    /\ outcome' = Unavailable(r)
    /\ request' = NoRequest
    /\ access' = NoAccess

Grant(r, word) ==
    /\ phase' = "granted"
    /\ outcome' = NoOutcome
    /\ request' = r
    /\ access' = [physicalStart |-> PhysicalStart(word, r.start),
                  scattered |-> word.scattered]

Decode(r, word) ==
    \/ /\ r.mode = "detailed"
       /\ EntryDenies(word, r.intent)
       /\ Fault(r, word)
    \/ /\ r.mode = "direct"
       /\ DirectUnavailable(r, word)
       /\ Decline(r)
    \/ /\ IF r.mode = "direct" THEN ~DirectUnavailable(r, word)
                               ELSE ~EntryDenies(word, r.intent)
       /\ Grant(r, word)

DecodeDirectStatic(r, first) ==
    \/ DirectStaticUnavailable(r, first) /\ Decline(r)
    \/ ~DirectStaticUnavailable(r, first) /\ Grant(r, WordOf(first))

-----------------------------------------------------------------------------
Init ==
    /\ table = [p \in Page |-> AbsentEntry]
    /\ phase = "host"
    /\ cachedPage = NoPage
    /\ cachedEntry = AbsentEntry
    /\ request = NoRequest
    /\ walk = NoWalk
    /\ access = NoAccess
    /\ outcome = NoOutcome

\* Machine calls this once, before the first invocation; mapped is the size
\* of RAM in pages.
InitializeIdentity(mapped) ==
    /\ phase = "host"
    /\ table' = [p \in Page |->
            IF p < mapped
            THEN [present |-> TRUE, writable |-> TRUE, frame |-> p]
            ELSE AbsentEntry]
    /\ outcome' = NoOutcome
    /\ UNCHANGED invocation

\* The host may store other entries between invocations.
Remap(p, e) ==
    /\ phase = "host"
    /\ table' = [table EXCEPT ![p] = e]
    /\ outcome' = NoOutcome
    /\ UNCHANGED invocation

ReadVirtualByte(a, intent) ==
    /\ phase = "host"
    /\ LET e == table[PageOf(a)] IN
       outcome' = IF ~e.present
                  THEN Faulted([start |-> a, length |-> 1, intent |-> intent],
                               a, FALSE)
                  ELSE Touched(a, <<Base(e.frame) + Offset(a)>>)
    /\ UNCHANGED <<table, invocation>>

\* Slip: an invocation that finds the cache of the one before.
InvokeWithOldCache ==
    /\ phase = "host"
    /\ phase' = "idle"
    /\ outcome' = NoOutcome
    /\ UNCHANGED <<table, cachedPage, cachedEntry, request, walk, access>>

\* The cache lives in function locals, which every invocation resets.
Invoke ==
    /\ phase = "host"
    /\ phase' = "idle"
    /\ cachedPage' = NoPage
    /\ cachedEntry' = AbsentEntry
    /\ outcome' = NoOutcome
    /\ UNCHANGED <<table, request, walk, access>>

CachedEntry(p) == IF p = cachedPage THEN cachedEntry ELSE table[p]

Resolve(r) ==
    /\ phase = "idle"
    /\ LET first == CachedEntry(PageOf(r.start)) IN
       /\ cachedPage' = PageOf(r.start)
       /\ cachedEntry' = first
       /\ \/ /\ r.form = "static"
             /\ StaysOnPage(r)
             /\ Decode(r, WordOf(first))
             /\ walk' = NoWalk
          \/ /\ r.form = "static"
             /\ ~StaysOnPage(r)
             /\ IF r.mode = "direct" THEN DecodeDirectStatic(r, first)
                                     ELSE Decode(r, StaticWord(r, first))
             /\ walk' = NoWalk
          \/ /\ r.form = "general"
             /\ ~NeedsWalk(r, first)
             /\ Decode(r, GeneralWordAtOnce(r, first))
             /\ walk' = NoWalk
          \/ /\ r.form = "general"
             /\ NeedsWalk(r, first)
             /\ phase' = "walking"
             /\ request' = r
             /\ walk' = FirstWalk(r, first)
             /\ access' = NoAccess
             /\ outcome' = NoOutcome
    /\ UNCHANGED table

\* One iteration of the loop over later pages, which bypasses the cache.
WalkPage ==
    /\ phase = "walking"
    /\ LET e == table[walk.page]
           scattered == walk.scattered \/ e.frame # walk.expected IN
       \/ /\ EntryDenies(e, request.intent)
          /\ Decode(request, LaterDenialWord(walk.page, e))
          /\ walk' = NoWalk
       \/ /\ ~EntryDenies(e, request.intent)
          /\ walk.page = PageOf(Last(request))
          /\ Decode(request, SuccessWord(walk.first, scattered))
          /\ walk' = NoWalk
       \/ /\ ~EntryDenies(e, request.intent)
          /\ walk.page # PageOf(Last(request))
          /\ walk' = [walk EXCEPT
                        !.page = @ + 1,
                        !.expected = FrameAfter(e.frame),
                        !.scattered = scattered \/ FrameWraps(e.frame)]
          /\ UNCHANGED <<phase, request, access, outcome>>
    /\ UNCHANGED <<table, cachedPage, cachedEntry>>

\* A byte of a scattered access: the entry is read again for its frame only.
TranslateAddress(a) == Base(table[PageOf(a)].frame) + Offset(a)

\* A load or store of width bytes; the caller stays inside the range.
Transfer(offset, width) ==
    /\ phase = "granted"
    /\ offset + width <= request.length
    /\ outcome' = Touched(request.start + offset, [i \in 1 .. width |->
            IF access.scattered
            THEN TranslateAddress(
                    (request.start + offset + (i - 1)) % AddressCount)
            ELSE access.physicalStart + offset + (i - 1)])
    /\ UNCHANGED <<table, invocation>>

\* The instruction is done with the access.
Release ==
    /\ phase = "granted"
    /\ phase' = "idle"
    /\ request' = NoRequest
    /\ access' = NoAccess
    /\ outcome' = NoOutcome
    /\ UNCHANGED <<table, cachedPage, cachedEntry, walk>>

Return ==
    /\ phase = "idle"
    /\ phase' = "host"
    /\ outcome' = NoOutcome
    /\ UNCHANGED <<table, cachedPage, cachedEntry, request, walk, access>>

Next ==
    \/ Invoke \/ WalkPage \/ Release \/ Return
    \/ \E mapped \in 0 .. PageCount : InitializeIdentity(mapped)
    \/ \E p \in Page, e \in HostEntry : Remap(p, e)
    \/ \E a \in Address, intent \in Intent \ {"write"} :
          ReadVirtualByte(a, intent)
    \/ \E r \in Request : Resolve(r)
    \/ \E offset \in 0 .. AddressCount, width \in {1, 2, 4} :
          Transfer(offset, width)

Spec == Init /\ [][Next]_vars

-----------------------------------------------------------------------------
TypeOK ==
    /\ table \in [Page -> Entry]
    /\ phase \in {"host", "idle", "walking", "granted"}
    /\ cachedPage \in Page \cup {NoPage}
    /\ cachedEntry \in Entry
    /\ phase \in {"host", "idle"} => request = NoRequest
    /\ phase \in {"walking", "granted"} => request \in Request
    /\ phase = "walking" =>
          walk \in [page : Page, first : Entry, expected : Page,
                    scattered : BOOLEAN]
    /\ phase = "granted" =>
          access \in [physicalStart : Address, scattered : BOOLEAN]

\* Inside an invocation a cached entry is the entry of the page table.  Across
\* invocations the cache may be stale, since the host changes the table.
CacheCoherent ==
    phase # "host" /\ cachedPage # NoPage => cachedEntry = table[cachedPage]

(***************************************************************************)
(* The loop over later pages never reads an entry twice or past the range: *)
(* the page it is about to read is a later page of the range, and every    *)
(* page before it permits the access.                                      *)
(***************************************************************************)
WalkInsideRange ==
    phase = "walking" =>
        /\ request.start + request.length <= AddressCount
        /\ walk.page \in PageOf(request.start) + 1 .. PageOf(Last(request))
        /\ \A p \in PageOf(request.start) .. walk.page - 1 :
              ~EntryDenies(table[p], request.intent)

GrantedRange ==
    IF phase = "granted"
    THEN RangeOf(request)
    ELSE [start |-> 0, length |-> 0, intent |-> "none"]

\* The resolution is atomic and exact: a range is granted or refused as if
\* each of its bytes were looked up, the fault names the first denied byte,
\* and a transfer touches each byte where the page table puts it.
Memory == INSTANCE PagedMemory WITH grant <- GrantedRange

BytewiseAccess == Memory!Spec
=============================================================================
