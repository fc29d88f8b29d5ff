---------------------- MODULE StatusFlagTrackerProofs ----------------------
(***************************************************************************)
(* Proofs about StatusFlagTracker for every set of flags and conditions,   *)
(* every formula that derives flags from an arithmetic result, and every   *)
(* choice of the conditions that are comparisons.                          *)
(***************************************************************************)
EXTENDS StatusFlagTracker, TLAPS

MemoryOK(m) == DOMAIN m = Field /\ Contents(m)

\* A field tracker whose values fit their fields; flag bytes are never cached.
TrackedFields(t) ==
    /\ DOMAIN t = {"entries", "dirty", "boundary", "reads"}
    /\ Contents(t.entries) /\ Contents(t.boundary) /\ Contents(t.reads)
    /\ t.dirty \subseteq DOMAIN t.entries
    /\ DOMAIN t.reads \subseteq Lazy

\* A cached read is what memory holds.
ReadsHeld(t, m) == \A c \in DOMAIN t.reads : t.reads[c] = m[c]

\* A stored entry is in memory, or is a flag byte nobody looks at.
CleanHeld(t, m) ==
    \A c \in DOMAIN t.entries \ t.dirty :
        \/ t.entries[c] = m[c]
        \/ c \in Flag /\ Pending(t, m)["kind"] # "none"

\* The stored flag bytes are in memory unless a record of this kind stands.
BytesHeld(t, m, kind) ==
    \A f \in (DOMAIN t.entries \ t.dirty) \cap Flag :
        t.entries[f] = m[f] \/ kind # "none"

Sound(t, m) ==
    MemoryOK(m) /\ TrackedFields(t) /\ ReadsHeld(t, m) /\ CleanHeld(t, m)

\* Two memories that say the same about the flags F.
Agree(m, n, F) ==
    /\ \A c \in Lazy : m[c] = n[c]
    /\ m["kind"] = "none" => \A f \in F : m[f] = n[f]

-----------------------------------------------------------------------------
\* The record fields are not flags, and what each of them holds.
LEMMA Fields ==
    /\ "kind" \in Field /\ "a" \in Field /\ "b" \in Field
    /\ Lazy \subseteq Field /\ Flag \subseteq Field
    /\ "kind" \notin Flag /\ "a" \notin Flag /\ "b" \notin Flag
    /\ Content("kind") = Kind \cup {"none"}
    /\ Content("a") = Operand /\ Content("b") = Operand
    /\ \A f \in Flag : Content(f) = Bit
BY FlagAssumption DEF Field, Lazy, Content

\* A memory with a record gives a source, and every memory gives an image.
LEMMA ImageType ==
    ASSUME NEW m, MemoryOK(m)
    PROVE  /\ m["kind"] # "none" => RecordIn(m) \in Source
           /\ ImageIn(m) \in Image
           /\ \A f \in Flag : ImageIn(m)[f] \in Bit
<1>1. /\ m["kind"] \in Kind \cup {"none"}
      /\ m["a"] \in Operand /\ m["b"] \in Operand
      /\ \A f \in Flag : m[f] \in Bit
  BY Fields DEF MemoryOK, Contents
<1>2. m["kind"] # "none" => RecordIn(m) \in Source
  BY <1>1 DEF RecordIn, Source
<1>3. \A f \in Flag : ImageIn(m)[f] \in Bit
  BY <1>1, <1>2, DerivedAssumption DEF ImageIn, Image
<1> QED
  BY <1>2, <1>3 DEF ImageIn, Image

\* Memories that agree give the same flags.
LEMMA AgreeImage ==
    ASSUME NEW m, NEW n, NEW F \in SUBSET Flag, Agree(m, n, F)
    PROVE  /\ RecordIn(m) = RecordIn(n)
           /\ \A f \in F : ImageIn(m)[f] = ImageIn(n)[f]
           /\ F = Flag => ImageIn(m) = ImageIn(n)
<1>1. m["kind"] = n["kind"] /\ m["a"] = n["a"] /\ m["b"] = n["b"]
  BY DEF Agree, Lazy
<1>2. RecordIn(m) = RecordIn(n)
  BY <1>1 DEF RecordIn
<1>3. \A f \in F : ImageIn(m)[f] = ImageIn(n)[f]
  BY <1>1, <1>2 DEF ImageIn, Agree
<1> QED
  BY <1>2, <1>3 DEF ImageIn

\* A memory that holds the record of s gives the flags of s.
LEMMA SourceImage ==
    ASSUME NEW m, MemoryOK(m), NEW s \in Source,
           m["kind"] = s.kind, m["a"] = s.a, s.kind # "logic" => m["b"] = s.b
    PROVE  ImageIn(m) = Derived[s]
<1>1. s.kind \in Kind /\ s.kind # "none" /\ m["kind"] # "none"
  BY DEF Source, Kind
<1>2. RecordIn(m) \in Source
  BY <1>1, ImageType
<1>3. Derived[RecordIn(m)] = Derived[s]
  <2>1. CASE s.kind = "logic"
    BY <1>2, <2>1, DerivedAssumption DEF RecordIn
  <2>2. CASE s.kind # "logic"
    BY <2>2 DEF RecordIn, Source
  <2> QED
    BY <2>1, <2>2
<1>4. Derived[s] \in [Flag -> Bit]
  BY DerivedAssumption DEF Image
<1> QED
  BY <1>1, <1>3, <1>4 DEF ImageIn

\* What memory holds once the pending stores are made.
LEMMA PendingAt ==
    ASSUME NEW t, NEW m, MemoryOK(m), TrackedFields(t)
    PROVE  /\ DOMAIN Pending(t, m) = Field
           /\ \A c \in Field :
                 Pending(t, m)[c] = IF c \in t.dirty THEN t.entries[c] ELSE m[c]
           /\ MemoryOK(Pending(t, m))
BY DEF Pending, Over, On, MemoryOK, TrackedFields, Contents

-----------------------------------------------------------------------------
(***************************************************************************)
(* The operations of the field tracker: what each leaves tracked, and that *)
(* none of them changes what memory will say but where it writes.          *)
(***************************************************************************)
LEMMA InvalidatedFields ==
    ASSUME NEW t, TrackedFields(t), NEW S
    PROVE  /\ TrackedFields(Invalidated(t, S))
           /\ DOMAIN Invalidated(t, S).entries = DOMAIN t.entries \ S
           /\ \A c \in DOMAIN t.entries \ S :
                 Invalidated(t, S).entries[c] = t.entries[c]
           /\ Invalidated(t, S).dirty = t.dirty \ S
           /\ Invalidated(t, S).boundary = t.boundary
           /\ DOMAIN Invalidated(t, S).reads = DOMAIN t.reads \ S
           /\ \A c \in DOMAIN t.reads \ S :
                 Invalidated(t, S).reads[c] = t.reads[c]
<1>1. /\ DOMAIN Invalidated(t, S) = {"entries", "dirty", "boundary", "reads"}
      /\ Invalidated(t, S).entries = Without(t.entries, S)
      /\ Invalidated(t, S).dirty = t.dirty \ S
      /\ Invalidated(t, S).boundary = t.boundary
      /\ Invalidated(t, S).reads = Without(t.reads, S)
  BY DEF Invalidated, TrackedFields
<1> QED
  BY <1>1 DEF Without, TrackedFields, Contents

LEMMA SetFields ==
    ASSUME NEW t, TrackedFields(t), NEW c \in Field, NEW v \in Content(c)
    PROVE  /\ TrackedFields(Set(t, c, v))
           /\ DOMAIN Set(t, c, v).entries = DOMAIN t.entries \cup {c}
           /\ Set(t, c, v).entries[c] = v
           /\ \A d \in DOMAIN t.entries \ {c} :
                 Set(t, c, v).entries[d] = t.entries[d]
           /\ Set(t, c, v).dirty = t.dirty \cup {c}
           /\ Set(t, c, v).boundary = t.boundary
           /\ Set(t, c, v).reads = t.reads
<1>1. /\ DOMAIN Set(t, c, v) = {"entries", "dirty", "boundary", "reads"}
      /\ Set(t, c, v).entries = Put(t.entries, c, v)
      /\ Set(t, c, v).dirty = t.dirty \cup {c}
      /\ Set(t, c, v).boundary = t.boundary
      /\ Set(t, c, v).reads = t.reads
  BY DEF Set, TrackedFields
<1> QED
  BY <1>1 DEF Put, TrackedFields, Contents

\* A write leaves c pending with v, or finds v in memory.
LEMMA WritesFields ==
    ASSUME NEW t, NEW m, MemoryOK(m), TrackedFields(t), ReadsHeld(t, m),
           NEW c \in Field, NEW v \in Content(c), NEW u \in Writes(t, c, v)
    PROVE  /\ TrackedFields(u)
           /\ u.boundary = t.boundary /\ u.reads = t.reads
           /\ DOMAIN u.entries \subseteq DOMAIN t.entries \cup {c}
           /\ \A d \in DOMAIN u.entries \ {c} : u.entries[d] = t.entries[d]
           /\ u.dirty \ {c} = t.dirty \ {c}
           /\ c \in DOMAIN u.entries => c \in u.dirty
           /\ Pending(u, m)[c] = v
<1>1. CASE u = Set(t, c, v)
  BY <1>1, SetFields, PendingAt
<1>2. CASE /\ u = [t EXCEPT !.entries = Without(@, {c}), !.dirty = @ \ {c}]
           /\ c \in DOMAIN t.reads /\ t.reads[c] = v
  <2>1. /\ DOMAIN u = {"entries", "dirty", "boundary", "reads"}
        /\ u.entries = Without(t.entries, {c})
        /\ u.dirty = t.dirty \ {c}
        /\ u.boundary = t.boundary
        /\ u.reads = t.reads
    BY <1>2 DEF TrackedFields
  <2>2. TrackedFields(u)
    BY <2>1 DEF Without, TrackedFields, Contents
  <2>3. Pending(u, m)[c] = v
    <3>1. m[c] = v /\ c \notin u.dirty
      BY <1>2, <2>1 DEF ReadsHeld
    <3> QED
      BY <2>2, <3>1, PendingAt
  <2> QED
    BY <2>1, <2>2, <2>3 DEF Without
<1> QED
  BY <1>1, <1>2 DEF Writes

\* What is tracked of a field is what memory will say of it; a flag byte
\* counts while there is no record.
LEMMA TrackedIsPending ==
    ASSUME NEW t, NEW m, Sound(t, m), NEW c \in Lazy
    PROVE  Tracked(t, m, c) = Pending(t, m)[c]
<1>1. c \in Field /\ c \notin Flag
  BY Fields, FlagAssumption
<1> QED
  BY <1>1, PendingAt DEF Sound, Tracked, CleanHeld, ReadsHeld, TrackedFields

\* A boundary marked here restores the flags as they are.
LEMMA MarkedBoundary ==
    ASSUME NEW t, NEW m, Sound(t, m)
    PROVE  ImageIn(Over(m, t.entries)) = ImageIn(Pending(t, m))
<1> DEFINE w == Over(m, t.entries)
           p == Pending(t, m)
<1>1. \A c \in Field : w[c] = IF c \in DOMAIN t.entries THEN t.entries[c] ELSE m[c]
  BY DEF Sound, MemoryOK, Over
<1>2. \A c \in Field : p[c] = IF c \in t.dirty THEN t.entries[c] ELSE m[c]
  BY PendingAt DEF Sound
<1>3. ASSUME NEW c \in Field
      PROVE  \/ w[c] = p[c]
             \/ c \in Flag /\ p["kind"] # "none"
  BY <1>1, <1>2 DEF Sound, CleanHeld, TrackedFields
<1>4. Agree(w, p, Flag)
  <2>1. \A c \in Lazy : w[c] = p[c]
    BY <1>3, Fields, FlagAssumption
  <2>2. w["kind"] = p["kind"]
    BY <2>1 DEF Lazy
  <2> QED
    BY <1>3, <2>1, <2>2, Fields DEF Agree
<1> QED
  BY <1>4, AgreeImage

\* Publishing pending stores changes neither what memory will say nor what a
\* raise restores.
LEMMA PublishFields ==
    ASSUME NEW t, NEW m, TrackedFields(t), NEW S \in SUBSET t.dirty
    PROVE  LET u == Publishing(t, m, S) IN
           /\ DOMAIN u = {"entries", "dirty", "boundary", "reads"}
           /\ u.entries = t.entries
           /\ u.dirty = t.dirty \ S
           /\ u.boundary = BoundaryAfterPublish(t, m, S)
           /\ DOMAIN u.boundary = DOMAIN t.boundary \cup S
           /\ DOMAIN u.reads = DOMAIN t.reads \ S
           /\ \A c \in DOMAIN u.reads : u.reads[c] = t.reads[c]
           /\ MemoryOK(m) => TrackedFields(u)
<1> DEFINE u == Publishing(t, m, S)
<1>1. /\ DOMAIN u = {"entries", "dirty", "boundary", "reads"}
      /\ u.entries = t.entries
      /\ u.dirty = t.dirty \ S
      /\ u.boundary = BoundaryAfterPublish(t, m, S)
      /\ u.reads = Without(t.reads, S)
  BY DEF Publishing, TrackedFields
<1>2. DOMAIN u.boundary = DOMAIN t.boundary \cup S
  BY <1>1 DEF BoundaryAfterPublish
<1>3. /\ DOMAIN u.reads = DOMAIN t.reads \ S
      /\ \A c \in DOMAIN u.reads : u.reads[c] = t.reads[c]
  BY <1>1 DEF Without
<1>4. ASSUME MemoryOK(m) PROVE Contents(u.boundary)
  BY <1>1, <1>4 DEF BoundaryAfterPublish, TrackedFields, Contents, MemoryOK
<1>5. MemoryOK(m) => TrackedFields(u)
  BY <1>1, <1>3, <1>4 DEF TrackedFields, Contents
<1> QED
  BY <1>1, <1>2, <1>3, <1>5

LEMMA PublishRestores ==
    ASSUME NEW t, NEW m, Sound(t, m), NEW S \in SUBSET t.dirty, NEW n,
           DOMAIN n = Field, \A c \in Field \ S : n[c] = m[c]
    PROVE  Over(n, Publishing(t, m, S).boundary) = Over(m, t.boundary)
<1> DEFINE u == Publishing(t, m, S)
<1>1. /\ u.boundary = BoundaryAfterPublish(t, m, S)
      /\ DOMAIN u.boundary = DOMAIN t.boundary \cup S
  BY PublishFields DEF Sound
<1>2. ASSUME NEW c \in Field
      PROVE  Over(n, u.boundary)[c] = Over(m, t.boundary)[c]
  BY <1>1 DEF Over, BoundaryAfterPublish, Sound, MemoryOK, ReadsHeld
<1> QED
  BY <1>2 DEF Over, Sound, MemoryOK

LEMMA PublishSound ==
    ASSUME NEW t, NEW m, Sound(t, m), NEW S \in SUBSET t.dirty
    PROVE  LET u == Publishing(t, m, S)
               n == MemoryAfterPublish(t, m, S)
           IN  /\ Sound(u, n)
               /\ Pending(u, n) = Pending(t, m)
               /\ Over(n, u.boundary) = Over(m, t.boundary)
               /\ \A c \in Field : n[c] = IF c \in S THEN t.entries[c] ELSE m[c]
<1> DEFINE u == Publishing(t, m, S)
           n == MemoryAfterPublish(t, m, S)
<1>1. /\ DOMAIN n = Field
      /\ \A c \in Field : n[c] = IF c \in S THEN t.entries[c] ELSE m[c]
  BY DEF MemoryAfterPublish, Over, On, Sound, MemoryOK, TrackedFields
<1>2. MemoryOK(n)
  BY <1>1 DEF Sound, MemoryOK, TrackedFields, Contents
<1>3. /\ TrackedFields(u)
      /\ u.entries = t.entries
      /\ u.dirty = t.dirty \ S
      /\ DOMAIN u.reads = DOMAIN t.reads \ S
      /\ \A c \in DOMAIN u.reads : u.reads[c] = t.reads[c]
  BY PublishFields DEF Sound
<1>4. \A c \in Field : Pending(u, n)[c] = Pending(t, m)[c]
  BY <1>1, <1>2, <1>3, PendingAt DEF Sound
<1>5. Pending(u, n) = Pending(t, m)
  BY <1>1, <1>4 DEF Pending, Over, Sound, MemoryOK
<1>6. ReadsHeld(u, n)
  BY <1>1, <1>3, Fields DEF Sound, ReadsHeld, TrackedFields
<1>7. CleanHeld(u, n)
  BY <1>1, <1>3, <1>5 DEF Sound, CleanHeld, TrackedFields, Contents
<1>8. Over(n, u.boundary) = Over(m, t.boundary)
  BY <1>1, PublishRestores
<1> QED
  BY <1>1, <1>2, <1>3, <1>5, <1>6, <1>7, <1>8 DEF Sound

\* Caching the record of a memory changes nothing else.
LEMMA CapturedSound ==
    ASSUME NEW t, NEW m, Sound(t, m)
    PROVE  LET u == ReadOf(t, m, Lazy)
           IN  /\ Sound(u, m)
               /\ u.entries = t.entries
               /\ u.dirty = t.dirty
               /\ u.boundary = t.boundary
               /\ Pending(u, m) = Pending(t, m)
<1> DEFINE u == ReadOf(t, m, Lazy)
<1>1. /\ DOMAIN u = {"entries", "dirty", "boundary", "reads"}
      /\ u.entries = t.entries
      /\ u.dirty = t.dirty
      /\ u.boundary = t.boundary
      /\ u.reads = [c \in DOMAIN t.reads \cup (Lazy \ DOMAIN t.entries) |->
                       IF c \in DOMAIN t.reads THEN t.reads[c] ELSE m[c]]
  BY DEF ReadOf, Sound, TrackedFields
<1>2. TrackedFields(u)
  BY <1>1, Fields DEF Sound, TrackedFields, Contents, MemoryOK
<1>3. ReadsHeld(u, m)
  BY <1>1 DEF Sound, ReadsHeld
<1>4. Pending(u, m) = Pending(t, m)
  BY <1>1 DEF Pending
<1>5. CleanHeld(u, m)
  BY <1>1, <1>4 DEF Sound, CleanHeld
<1> QED
  BY <1>1, <1>2, <1>3, <1>4, <1>5 DEF Sound

-----------------------------------------------------------------------------
\* After the writes of a result the pending record says that result.
LEMMA RecordWritesSound ==
    ASSUME NEW t, NEW m, Sound(t, m), NEW s \in Source, NEW u \in RecordWrites(t, s)
    PROVE  /\ Sound(u, m)
           /\ u.boundary = t.boundary
           /\ Pending(u, m)["kind"] = s.kind
           /\ ImageIn(Pending(u, m)) = Derived[s]
<1> DEFINE cleared == Invalidated(t, Flag \cup {"kind"})
<1>0. PICK ta \in Writes(cleared, "a", s.a) :
           u \in {Set(tb, "kind", s.kind) :
                     tb \in IF s.kind = "logic" THEN {Invalidated(ta, {"b"})}
                                               ELSE Writes(ta, "b", s.b)}
  BY DEF RecordWrites
<1>1. PICK tb \in (IF s.kind = "logic" THEN {Invalidated(ta, {"b"})}
                                      ELSE Writes(ta, "b", s.b)) :
           u = Set(tb, "kind", s.kind)
  BY <1>0
<1>2. /\ s.kind \in Content("kind") /\ s.a \in Content("a") /\ s.b \in Content("b")
      /\ MemoryOK(m)
  BY Fields DEF Source, Sound
<1>3. /\ TrackedFields(cleared) /\ ReadsHeld(cleared, m)
      /\ cleared.boundary = t.boundary
      /\ DOMAIN cleared.entries \subseteq {"a", "b"}
  <2>1. /\ TrackedFields(cleared)
        /\ cleared.boundary = t.boundary
        /\ DOMAIN cleared.entries = DOMAIN t.entries \ (Flag \cup {"kind"})
        /\ DOMAIN cleared.reads = DOMAIN t.reads \ (Flag \cup {"kind"})
        /\ \A c \in DOMAIN t.reads \ (Flag \cup {"kind"}) :
              cleared.reads[c] = t.reads[c]
    BY InvalidatedFields DEF Sound
  <2>2. ReadsHeld(cleared, m)
    BY <2>1 DEF Sound, ReadsHeld
  <2>3. DOMAIN cleared.entries \subseteq {"a", "b"}
    BY <2>1 DEF Sound, TrackedFields, Contents, Field, Lazy
  <2> QED
    BY <2>1, <2>2, <2>3
<1>4. /\ TrackedFields(ta) /\ ReadsHeld(ta, m)
      /\ ta.boundary = t.boundary
      /\ DOMAIN ta.entries \subseteq {"a", "b"}
      /\ "a" \in DOMAIN ta.entries => "a" \in ta.dirty
      /\ Pending(ta, m)["a"] = s.a
  <2> HIDE DEF cleared
  <2>1. /\ TrackedFields(ta)
        /\ ta.boundary = cleared.boundary /\ ta.reads = cleared.reads
        /\ DOMAIN ta.entries \subseteq DOMAIN cleared.entries \cup {"a"}
        /\ "a" \in DOMAIN ta.entries => "a" \in ta.dirty
        /\ Pending(ta, m)["a"] = s.a
    BY <1>1, <1>2, <1>3, Fields, WritesFields
  <2>2. ReadsHeld(ta, m)
    BY <1>3, <2>1 DEF ReadsHeld
  <2> QED
    BY <1>3, <2>1, <2>2
<1>5. /\ TrackedFields(tb) /\ ReadsHeld(tb, m)
      /\ tb.boundary = t.boundary
      /\ DOMAIN tb.entries \subseteq tb.dirty
      /\ "kind" \notin DOMAIN tb.entries
      /\ Pending(tb, m)["a"] = s.a
      /\ s.kind # "logic" => Pending(tb, m)["b"] = s.b
  <2>1. CASE s.kind = "logic"
    <3>1. tb = Invalidated(ta, {"b"})
      BY <1>1, <2>1
    <3>2. /\ TrackedFields(tb)
          /\ DOMAIN tb.entries = DOMAIN ta.entries \ {"b"}
          /\ \A c \in DOMAIN ta.entries \ {"b"} : tb.entries[c] = ta.entries[c]
          /\ tb.dirty = ta.dirty \ {"b"}
          /\ tb.boundary = ta.boundary
          /\ DOMAIN tb.reads = DOMAIN ta.reads \ {"b"}
          /\ \A c \in DOMAIN ta.reads \ {"b"} : tb.reads[c] = ta.reads[c]
      BY <1>4, <3>1, InvalidatedFields
    <3>3. ReadsHeld(tb, m)
      BY <1>4, <3>2 DEF ReadsHeld
    <3>4. DOMAIN tb.entries \subseteq tb.dirty /\ "kind" \notin DOMAIN tb.entries
      BY <1>4, <3>2
    <3>5. Pending(tb, m)["a"] = Pending(ta, m)["a"]
      BY <1>2, <1>4, <3>2, Fields, PendingAt DEF TrackedFields
    <3> QED
      BY <1>4, <2>1, <3>2, <3>3, <3>4, <3>5
  <2>2. CASE s.kind # "logic"
    <3>1. tb \in Writes(ta, "b", s.b)
      BY <1>1, <2>2
    <3>2. /\ TrackedFields(tb)
          /\ tb.boundary = ta.boundary /\ tb.reads = ta.reads
          /\ DOMAIN tb.entries \subseteq DOMAIN ta.entries \cup {"b"}
          /\ \A d \in DOMAIN tb.entries \ {"b"} : tb.entries[d] = ta.entries[d]
          /\ tb.dirty \ {"b"} = ta.dirty \ {"b"}
          /\ "b" \in DOMAIN tb.entries => "b" \in tb.dirty
          /\ Pending(tb, m)["b"] = s.b
      BY <1>2, <1>4, <3>1, Fields, WritesFields
    <3>3. ReadsHeld(tb, m)
      BY <1>4, <3>2 DEF ReadsHeld
    <3>4. DOMAIN tb.entries \subseteq tb.dirty /\ "kind" \notin DOMAIN tb.entries
      BY <1>4, <3>2
    <3>5. "a" \in tb.dirty <=> "a" \in ta.dirty
      BY <3>2
    <3>6. "a" \in tb.dirty => tb.entries["a"] = ta.entries["a"]
      BY <3>2 DEF TrackedFields
    <3>7. Pending(tb, m)["a"] = Pending(ta, m)["a"]
      BY <1>2, <1>4, <3>2, <3>5, <3>6, Fields, PendingAt
    <3> QED
      BY <1>4, <2>2, <3>2, <3>3, <3>4, <3>7
  <2> QED
    BY <2>1, <2>2
<1>6. /\ TrackedFields(u)
      /\ DOMAIN u.entries = DOMAIN tb.entries \cup {"kind"}
      /\ u.entries["kind"] = s.kind
      /\ \A d \in DOMAIN tb.entries \ {"kind"} : u.entries[d] = tb.entries[d]
      /\ u.dirty = tb.dirty \cup {"kind"}
      /\ u.boundary = t.boundary
      /\ u.reads = tb.reads
  BY <1>1, <1>2, <1>5, Fields, SetFields
<1>7. Sound(u, m)
  BY <1>2, <1>5, <1>6 DEF Sound, ReadsHeld, CleanHeld
<1>8. Pending(u, m)["kind"] = s.kind
  BY <1>2, <1>6, Fields, PendingAt
<1>9. ASSUME NEW c \in {"a", "b"}
      PROVE  Pending(u, m)[c] = Pending(tb, m)[c]
  BY <1>2, <1>5, <1>6, <1>9, Fields, PendingAt DEF TrackedFields
<1>10. MemoryOK(Pending(u, m))
  BY <1>2, <1>6, PendingAt
<1>11. ImageIn(Pending(u, m)) = Derived[s]
  BY <1>5, <1>8, <1>9, <1>10, SourceImage
<1> QED
  BY <1>6, <1>7, <1>8, <1>11

\* Flags stored as bytes leave nothing of the record pending or cached.
LEMMA ExplicitSound ==
    ASSUME NEW t, NEW m, MemoryOK(m), TrackedFields(t), NEW image \in Image
    PROVE  LET u == Explicit(t, image)
           IN  /\ Sound(u, m)
               /\ u.boundary = t.boundary
               /\ Flag \cup {"kind"} = u.dirty
               /\ Pending(u, m)["kind"] = "none"
               /\ ImageIn(Pending(u, m)) = image
<1> DEFINE u == Explicit(t, image)
           v == Invalidated(t, Lazy)
<1>1. TrackedFields(v) /\ v.boundary = t.boundary /\ DOMAIN v.reads = DOMAIN t.reads \ Lazy
  BY InvalidatedFields
<1>2. DOMAIN v.reads = {}
  BY <1>1 DEF TrackedFields
<1>3. /\ DOMAIN u = {"entries", "dirty", "boundary", "reads"}
      /\ u.entries = [c \in Flag \cup {"kind"} |->
                         IF c = "kind" THEN "none" ELSE image[c]]
      /\ u.dirty = Flag \cup {"kind"}
      /\ u.boundary = t.boundary
      /\ u.reads = v.reads
  <2> HIDE DEF v
  <2> QED
    BY <1>1 DEF Explicit, TrackedFields, v
<1>4. Contents(u.entries)
  BY <1>3, Fields DEF Contents, Image
<1>5. TrackedFields(u)
  BY <1>1, <1>2, <1>3, <1>4 DEF TrackedFields, Contents
<1>6. Sound(u, m)
  BY <1>2, <1>3, <1>5 DEF Sound, ReadsHeld, CleanHeld
<1>7. /\ Pending(u, m)["kind"] = "none"
      /\ \A f \in Flag : Pending(u, m)[f] = image[f]
  BY <1>3, <1>5, Fields, PendingAt
<1>8. ImageIn(Pending(u, m)) = image
  BY <1>7 DEF ImageIn, Image
<1> QED
  BY <1>3, <1>6, <1>7, <1>8

\* One more flag byte among pending explicit flags.
LEMMA SetFlag ==
    ASSUME NEW t, NEW m, Sound(t, m), Pending(t, m)["kind"] = "none",
           NEW f \in Flag, NEW v \in Bit
    PROVE  LET u == Set(t, f, v)
           IN  /\ Sound(u, m)
               /\ u.boundary = t.boundary
               /\ Pending(u, m)["kind"] = "none"
               /\ ImageIn(Pending(u, m)) = [ImageIn(Pending(t, m)) EXCEPT ![f] = v]
<1> DEFINE u == Set(t, f, v)
<1>1. f \in Field /\ v \in Content(f) /\ f \notin Lazy
  BY Fields, FlagAssumption
<1>2. /\ TrackedFields(u)
      /\ DOMAIN u.entries = DOMAIN t.entries \cup {f}
      /\ u.entries[f] = v
      /\ \A d \in DOMAIN t.entries \ {f} : u.entries[d] = t.entries[d]
      /\ u.dirty = t.dirty \cup {f}
      /\ u.boundary = t.boundary
      /\ u.reads = t.reads
  BY <1>1, SetFields DEF Sound
<1>3. \A c \in Field : Pending(u, m)[c] = IF c = f THEN v ELSE Pending(t, m)[c]
  BY <1>2, PendingAt DEF Sound, TrackedFields
<1>4. Pending(u, m)["kind"] = "none"
  BY <1>1, <1>3, Fields DEF Lazy
<1>5. Sound(u, m)
  BY <1>2, <1>4 DEF Sound, ReadsHeld, CleanHeld
<1>6. ImageIn(Pending(u, m)) = [ImageIn(Pending(t, m)) EXCEPT ![f] = v]
  BY <1>3, <1>4, Fields DEF ImageIn
<1> QED
  BY <1>2, <1>4, <1>5, <1>6

\* The code after a join starts from memory for the record.
LEMMA JoinSound ==
    ASSUME NEW t, NEW m, MemoryOK(m), TrackedFields(t),
           BytesHeld(t, m, m["kind"]),
           NEW u, u = FieldsAfterJoin(t)
    PROVE  /\ Sound(u, m)
           /\ u.dirty = t.dirty \ Lazy
           /\ \A c \in Lazy : Pending(u, m)[c] = m[c]
           /\ \A f \in Flag :
                 Pending(u, m)[f] = IF f \in t.dirty THEN t.entries[f] ELSE m[f]
<1>1. /\ TrackedFields(u)
      /\ DOMAIN u.entries = DOMAIN t.entries \ Lazy
      /\ \A c \in DOMAIN t.entries \ Lazy : u.entries[c] = t.entries[c]
      /\ u.dirty = t.dirty \ Lazy
      /\ DOMAIN u.reads = DOMAIN t.reads \ Lazy
  BY InvalidatedFields DEF FieldsAfterJoin
<1>2. DOMAIN u.reads = {}
  BY <1>1 DEF TrackedFields
<1>0. \A c \in Field :
         Pending(u, m)[c] = IF c \in u.dirty THEN u.entries[c] ELSE m[c]
  BY <1>1, PendingAt
<1>3. \A c \in Lazy : Pending(u, m)[c] = m[c]
  BY <1>1, <1>0, Fields
<1>4. \A f \in Flag :
         Pending(u, m)[f] = IF f \in t.dirty THEN t.entries[f] ELSE m[f]
  BY <1>1, <1>0, Fields, FlagAssumption DEF TrackedFields
<1>5. CleanHeld(u, m)
  <2>1. Pending(u, m)["kind"] = m["kind"]
    BY <1>3 DEF Lazy
  <2> QED
    BY <1>1, <2>1 DEF CleanHeld, BytesHeld, TrackedFields, Contents, Field
<1> QED
  BY <1>1, <1>2, <1>3, <1>4, <1>5 DEF Sound, ReadsHeld

\* The top of an iteration: the record comes in as values, and what is
\* tracked there is the boundary.
LEMMA LoopTopSound ==
    ASSUME NEW t, MemoryOK(mem), TrackedFields(t), ReadsHeld(t, mem),
           NEW record, record["kind"] \in Kind \cup {"none"},
           record["a"] \in Operand, record["b"] \in Operand,
           BytesHeld(t, mem, record["kind"]),
           NEW u, u = LoopTop(t, record)
    PROVE  /\ Sound(u, mem)
           /\ u.boundary = u.entries
           /\ \A c \in Lazy : Pending(u, mem)[c] = record[c]
           /\ \A f \in Flag :
                 Pending(u, mem)[f] = IF f \in t.dirty THEN t.entries[f] ELSE mem[f]
<1> DEFINE seeded == ReadOf(t, mem, Lazy)
           given == [c \in DOMAIN t.entries \cup Lazy |->
                        IF c \in Lazy THEN record[c] ELSE t.entries[c]]
<1>1. /\ seeded.entries = t.entries
      /\ seeded.dirty = t.dirty
      /\ seeded.reads = [c \in DOMAIN t.reads \cup (Lazy \ DOMAIN t.entries) |->
                            IF c \in DOMAIN t.reads THEN t.reads[c] ELSE mem[c]]
  BY DEF ReadOf, TrackedFields
<1>2. u = [entries |-> given, dirty |-> t.dirty \cup Lazy,
           boundary |-> given, reads |-> seeded.reads]
  BY <1>1 DEF LoopTop
<1>3. Contents(given)
  <2>1. \A c \in Lazy : given[c] \in Content(c)
    BY Fields DEF Lazy
  <2>2. \A c \in DOMAIN t.entries \ Lazy : given[c] \in Content(c)
    BY DEF TrackedFields, Contents
  <2> QED
    BY <2>1, <2>2, Fields DEF TrackedFields, Contents
<1>4. Contents(u.reads) /\ DOMAIN u.reads \subseteq Lazy /\ ReadsHeld(u, mem)
  BY <1>1, <1>2, Fields DEF TrackedFields, Contents, MemoryOK, ReadsHeld
<1>5. TrackedFields(u)
  <2>1. DOMAIN u = {"entries", "dirty", "boundary", "reads"}
    BY <1>2
  <2> QED
    BY <1>2, <1>3, <1>4, <2>1 DEF TrackedFields
<1>0. \A c \in Field :
         Pending(u, mem)[c] = IF c \in t.dirty \cup Lazy THEN given[c] ELSE mem[c]
  <2>1. u.dirty = t.dirty \cup Lazy /\ u.entries = given
    BY <1>2
  <2> HIDE DEF given
  <2>2. \A c \in Field :
           Pending(u, mem)[c] = IF c \in u.dirty THEN u.entries[c] ELSE mem[c]
    BY <1>5, PendingAt
  <2> QED
    BY <2>1, <2>2
<1>6. \A c \in Lazy : Pending(u, mem)[c] = record[c]
  BY <1>0, Fields
<1>7. \A f \in Flag :
         Pending(u, mem)[f] = IF f \in t.dirty THEN t.entries[f] ELSE mem[f]
  <2>1. \A f \in Flag : f \notin Lazy
    BY FlagAssumption
  <2> QED
    BY <1>0, <2>1, Fields DEF TrackedFields
<1>8. CleanHeld(u, mem)
  <2>1. Pending(u, mem)["kind"] = record["kind"]
    BY <1>6 DEF Lazy
  <2>2. ASSUME NEW c \in DOMAIN u.entries \ u.dirty
        PROVE  c \in (DOMAIN t.entries \ t.dirty) \cap Flag /\ u.entries[c] = t.entries[c]
    BY <1>2, <2>2 DEF TrackedFields, Contents, Field
  <2> QED
    BY <2>1, <2>2 DEF CleanHeld, BytesHeld
<1>9. u.boundary = u.entries
  BY <1>2
<1> QED
  BY <1>4, <1>5, <1>6, <1>7, <1>8, <1>9 DEF Sound

-----------------------------------------------------------------------------
(***************************************************************************)
(* The inductive invariant.  A flag has its value from memory, from the    *)
(* last result or from bytes written here; all flags have it from the same *)
(* of the three, and each says what memory will say.  While it is memory,  *)
(* nothing of the record is pending, and what is pending is in the         *)
(* boundary of the instruction.                                            *)
(***************************************************************************)
Now == ImageIn(Pending(fields, mem))

StatusRecord(st) ==
    /\ DOMAIN st = {"backing", "directSource", "inputs"}
    /\ DOMAIN st.backing = Flag
    /\ DOMAIN st.inputs \subseteq Flag
    /\ st.directSource \in Source \cup {NoSource}

\* The flags are what memory said when the function asked for them.
FromMemory(st) ==
    /\ st.directSource = NoSource
    /\ \A f \in Flag : st.backing[f] = InputBacking
    /\ \A f \in DOMAIN st.inputs : st.inputs[f] = Now[f]

FromResult(st) ==
    /\ st.directSource \in Source
    /\ st.backing = BackingsOf(st, st.directSource)
    /\ Derived[st.directSource] = Now

FromBytes(st) ==
    /\ st.directSource = NoSource
    /\ \A f \in Flag : st.backing[f] = ValueBacking(Now[f])
    /\ Pending(fields, mem)["kind"] = "none"

Unstored ==
    /\ fields.dirty \cap Lazy = {}
    /\ phase = "running" => fields.dirty \subseteq DOMAIN fields.boundary

StatusMatches ==
    \/ FromMemory(status) /\ Unstored
    \/ FromResult(status)
    \/ FromBytes(status)

\* The tracker a REP goes back to knows memory as it still is.
OuterKept ==
    /\ TrackedFields(outer.fields)
    /\ ReadsHeld(outer.fields, mem)
    /\ StatusRecord(outer.status)

TrackerInv ==
    /\ Sound(fields, mem)
    /\ StatusRecord(status)
    /\ saved \in Image
    /\ phase \in {"exited", "between", "running", "looping", "iterated",
                  "committing"}
    /\ phase = "exited" => fields = FreshFields /\ status = FreshStatus
    /\ phase \in {"running", "looping"} => ImageIn(Over(mem, fields.boundary)) = saved
    /\ phase # "looping" => StatusMatches
    /\ phase \in {"looping", "iterated"} => OuterKept
    /\ phase = "iterated" =>
          FromResult(status) /\ Pending(fields, mem)["kind"] = "sub"

-----------------------------------------------------------------------------
\* A result is not the absence of one.
LEMMA SourceIsNotNone == \A s \in Source : s # NoSource
BY DEF Source, NoSource

\* With nothing pending memory already says it.
LEMMA NothingPending ==
    ASSUME NEW t, NEW m, MemoryOK(m), TrackedFields(t), t.dirty = {}
    PROVE  ImageIn(Pending(t, m)) = ImageIn(m)
<1>1. \A c \in Field : Pending(t, m)[c] = m[c]
  BY PendingAt
<1>2. Agree(Pending(t, m), m, Flag)
  BY <1>1, Fields DEF Agree
<1> QED
  BY <1>2, AgreeImage

LEMMA ArchitecturalIsNow == TrackerInv => Architectural = Now
<1>1. FreshFields.dirty = {}
  BY DEF FreshFields
<1> QED
  BY <1>1, NothingPending DEF TrackerInv, Architectural, Now, Sound

LEMMA ArchitecturalIsNowAfter == (TrackerInv => Architectural = Now)'
BY ArchitecturalIsNow, PTL

\* A tracker that tracks nothing, as a function starts with.
LEMMA FreshTrackerSound ==
    ASSUME NEW m, MemoryOK(m)
    PROVE  /\ Sound(FreshFields, m)
           /\ FreshFields.dirty = {}
           /\ FreshFields.boundary = << >>
           /\ ImageIn(Pending(FreshFields, m)) = ImageIn(m)
           /\ StatusRecord(FreshStatus)
           /\ FreshStatus.directSource = NoSource
           /\ \A f \in Flag : FreshStatus.backing[f] = InputBacking
           /\ DOMAIN FreshStatus.inputs = {}
<1>1. DOMAIN << >> = {}
  OBVIOUS
<1>2. /\ DOMAIN FreshFields = {"entries", "dirty", "boundary", "reads"}
      /\ FreshFields.entries = << >> /\ FreshFields.dirty = {}
      /\ FreshFields.boundary = << >> /\ FreshFields.reads = << >>
  BY DEF FreshFields
<1>3. TrackedFields(FreshFields)
  BY <1>1, <1>2 DEF TrackedFields, Contents
<1>4. Sound(FreshFields, m)
  BY <1>1, <1>2, <1>3 DEF Sound, ReadsHeld, CleanHeld
<1>5. StatusRecord(FreshStatus)
  BY <1>1 DEF StatusRecord, FreshStatus
<1> QED
  BY <1>1, <1>2, <1>3, <1>4, <1>5, NothingPending DEF FreshStatus

LEMMA Tags ==
    /\ InputBacking.tag = "input"
    /\ UndefBacking.tag = "undef"
    /\ \A s : SourceBacking(s).tag = "source" /\ SourceBacking(s).source = s
    /\ \A v : ValueBacking(v).tag = "value" /\ ValueBacking(v).value = v
BY DEF InputBacking, UndefBacking, SourceBacking, ValueBacking

\* What the tracker computes a flag from, by where the flags come from.
LEMMA ValueIsNow ==
    ASSUME NEW st, NEW f \in Flag,
           \/ FromMemory(st) /\ f \in DOMAIN st.inputs
           \/ FromResult(st)
           \/ FromBytes(st)
    PROVE  Value(st, f) = Now[f]
<1>1. CASE FromMemory(st) /\ f \in DOMAIN st.inputs
  BY <1>1, Tags DEF FromMemory, Value
<1>2. CASE FromResult(st)
  <2> DEFINE s == st.directSource
  <2>1. s \in Source /\ Derived[s] = Now
    BY <1>2 DEF FromResult
  <2>2. st.backing[f] = (IF s.kind = "logic" /\ f \in Cleared THEN ValueBacking(0)
                         ELSE IF s.kind = "logic" /\ f \in Undefined THEN UndefBacking
                         ELSE SourceBacking(s))
    BY <1>2 DEF FromResult, BackingsOf
  <2>3. CASE s.kind = "logic" /\ f \in Cleared
    BY <2>1, <2>2, <2>3, DerivedAssumption, Tags DEF Value
  <2>4. CASE s.kind = "logic" /\ f \notin Cleared /\ f \in Undefined
    BY <2>1, <2>2, <2>4, DerivedAssumption, Tags DEF Value
  <2>5. CASE ~(s.kind = "logic" /\ f \in Cleared \cup Undefined)
    <3>1. st.backing[f] = SourceBacking(s)
      BY <2>2, <2>5
    <3> HIDE DEF s
    <3> QED
      BY <2>1, <3>1, Tags DEF Value
  <2> QED
    BY <2>3, <2>4, <2>5
<1>3. CASE FromBytes(st)
  BY <1>3, Tags DEF FromBytes, Value
<1> QED
  BY <1>1, <1>2, <1>3

\* Which flags still have to be asked for.
LEMMA BackedByMemory ==
    ASSUME NEW st, StatusRecord(st)
    PROVE  /\ FromMemory(st) => InputBacked(st) = Flag
           /\ FromResult(st) => InputBacked(st) = {} /\ st.directSource # NoSource
           /\ FromBytes(st) => InputBacked(st) = {} /\ st.directSource = NoSource
<1>1. FromMemory(st) => InputBacked(st) = Flag
  BY Tags DEF FromMemory, InputBacked
<1>2. ASSUME FromResult(st), NEW f \in Flag PROVE st.backing[f].tag # "input"
  BY <1>2, Tags DEF FromResult, BackingsOf
<1>3. FromBytes(st) => InputBacked(st) = {} /\ st.directSource = NoSource
  BY Tags DEF FromBytes, InputBacked
<1>4. FromResult(st) => st.directSource # NoSource
  BY SourceIsNotNone DEF FromResult
<1> QED
  BY <1>1, <1>2, <1>3, <1>4 DEF InputBacked

\* Asking a resolver function for the flags F: the stores it makes first put
\* into memory what F depends on, and change nothing else.
LEMMA Asking ==
    ASSUME TrackerInv, StatusMatches, NEW F \in SUBSET Flag,
           NEW m, m = MemoryFor(F), NEW t, t = FieldsFor(F),
           NEW st, st = StatusFor(F)
    PROVE  /\ Sound(t, m)
           /\ Pending(t, m) = Pending(fields, mem)
           /\ Over(m, t.boundary) = Over(mem, fields.boundary)
           /\ Unstored => /\ t.dirty \cap Lazy = {}
                          /\ phase = "running" => t.dirty \subseteq DOMAIN t.boundary
           /\ StatusRecord(st)
           /\ FromMemory(status) => FromMemory(st)
           /\ FromResult(status) => FromResult(st) /\ \A c \in Field : m[c] = mem[c]
           /\ FromBytes(status) => FromBytes(st)
           /\ \A f \in F : Value(st, f) = Now[f]
<1> DEFINE S == StoresFor(F)
           U == Unresolved(status, F)
<1>1. S \in SUBSET fields.dirty /\ (U # {} => S = fields.dirty \cap (Lazy \cup U))
  BY DEF StoresFor, Published
<1>2. /\ m = MemoryAfterPublish(fields, mem, S) /\ t = Publishing(fields, mem, S)
      /\ st = ResolvedInputs(status, m, F)
  BY DEF MemoryFor, FieldsFor, StatusFor
<1>3. Sound(fields, mem) /\ StatusRecord(status)
  BY DEF TrackerInv
<1>4. /\ Sound(t, m)
      /\ Pending(t, m) = Pending(fields, mem)
      /\ Over(m, t.boundary) = Over(mem, fields.boundary)
      /\ \A c \in Field : m[c] = IF c \in S THEN fields.entries[c] ELSE mem[c]
  <2> HIDE DEF S
  <2> QED
    BY <1>1, <1>2, <1>3, PublishSound
<1>5. t.dirty = fields.dirty \ S /\ DOMAIN t.boundary = DOMAIN fields.boundary \cup S
  <2> HIDE DEF S
  <2> QED
    BY <1>1, <1>2, <1>3, PublishFields DEF Sound
<1>6. Unstored => /\ t.dirty \cap Lazy = {}
                  /\ phase = "running" => t.dirty \subseteq DOMAIN t.boundary
  BY <1>5 DEF Unstored
<1>7. /\ DOMAIN st = {"backing", "directSource", "inputs"}
      /\ st.backing = status.backing
      /\ st.directSource = status.directSource
      /\ st.inputs = [f \in DOMAIN status.inputs \cup U |->
                         IF f \in DOMAIN status.inputs THEN status.inputs[f]
                         ELSE ImageIn(m)[f]]
  BY <1>2, <1>3 DEF ResolvedInputs, StatusRecord
<1>8. StatusRecord(st)
  BY <1>3, <1>7 DEF StatusRecord, Unresolved
\* What a resolver finds is what memory will say.
<1>9. ASSUME NEW f \in U PROVE ImageIn(m)[f] = Now[f]
  <2>1. \A c \in Lazy \cup U : m[c] = Pending(fields, mem)[c]
    BY <1>1, <1>3, <1>4, <1>9, Fields, PendingAt DEF Unresolved, Sound
  <2>2. Agree(m, Pending(fields, mem), U)
    BY <2>1 DEF Agree
  <2>3. U \in SUBSET Flag
    BY DEF Unresolved
  <2> HIDE DEF U
  <2> QED
    BY <1>9, <2>2, <2>3, AgreeImage DEF Now
<1>10. FromMemory(status) => FromMemory(st)
  BY <1>7, <1>9 DEF FromMemory
<1>11. FromResult(status) => FromResult(st)
  BY <1>7 DEF FromResult, BackingsOf
<1>12. FromBytes(status) => FromBytes(st)
  BY <1>7 DEF FromBytes
<1>13. FromResult(status) => \A c \in Field : m[c] = mem[c]
  BY <1>3, <1>4, BackedByMemory DEF StoresFor, Unresolved
<1>14. ASSUME NEW f \in F PROVE Value(st, f) = Now[f]
  <2>1. CASE FromMemory(status)
    <3>1. f \in DOMAIN st.inputs
      BY <1>3, <1>7, <1>14, <2>1, BackedByMemory DEF Unresolved
    <3> QED
      BY <1>10, <2>1, <3>1, ValueIsNow
  <2>2. CASE FromResult(status) \/ FromBytes(status)
    BY <1>11, <1>12, <2>2, ValueIsNow
  <2> QED
    BY <2>1, <2>2 DEF StatusMatches
<1> QED
  BY <1>4, <1>6, <1>8, <1>10, <1>11, <1>12, <1>13, <1>14

\* The invariant is kept by a step inside an instruction that leaves the
\* tracker sound, what memory says unchanged and the boundary good.
LEMMA QuietStep ==
    ASSUME TrackerInv, phase \in {"running", "iterated"}, phase' = phase,
           UNCHANGED <<outer, saved>>,
           Sound(fields', mem'), StatusRecord(status'),
           Now' = Now,
           Over(mem', fields'.boundary) = Over(mem, fields.boundary),
           StatusMatches',
           phase = "iterated" =>
              /\ FromResult(status)'
              /\ Pending(fields', mem')["kind"] = "sub"
              /\ \A c \in Field : mem'[c] = mem[c]
    PROVE  TrackerInv'
<1>1. phase = "iterated" => OuterKept'
  <2>1. ASSUME phase = "iterated" PROVE ReadsHeld(outer.fields, mem')
    BY <2>1, Fields DEF TrackerInv, OuterKept, ReadsHeld, TrackedFields
  <2> QED
    BY <2>1 DEF TrackerInv, OuterKept
<1> QED
  BY <1>1 DEF TrackerInv

\* A flag reads as memory will say it, from wherever the tracker has it.
LEMMA ReadStep ==
    ASSUME TrackerInv, NEW f \in Flag, Read(f)
    PROVE  TrackerInv' /\ Now' = Now /\ result' = <<Now[f]>>
<1>1. /\ phase = "running" /\ phase' = phase /\ UNCHANGED <<outer, saved>>
      /\ mem' = MemoryFor({f}) /\ fields' = FieldsFor({f}) /\ status' = StatusFor({f})
      /\ result' = <<Value(status', f)>>
  BY DEF Read
<1>2. StatusMatches
  BY <1>1 DEF TrackerInv
<1>3. /\ Sound(fields', mem')
      /\ Pending(fields', mem') = Pending(fields, mem)
      /\ Over(mem', fields'.boundary) = Over(mem, fields.boundary)
      /\ Unstored => Unstored'
      /\ StatusRecord(status')
      /\ FromMemory(status) => FromMemory(status')
      /\ FromResult(status) => FromResult(status')
      /\ FromBytes(status) => FromBytes(status')
      /\ Value(status', f) = Now[f]
  BY <1>1, <1>2, Asking DEF Unstored
<1>4. Now' = Now
  BY <1>3 DEF Now
<1>5. StatusMatches'
  BY <1>2, <1>3, <1>4 DEF StatusMatches, FromMemory, FromResult, FromBytes
<1>6. TrackerInv'
  BY <1>1, <1>3, <1>4, <1>5, QuietStep
<1> QED
  BY <1>1, <1>3, <1>4, <1>6

\* The flags of a result, and its record, after the writes it makes.
LEMMA ResultWritten ==
    ASSUME TrackerInv, NEW s \in Source, fields' \in RecordWrites(fields, s),
           status' = SourceStatus(s), mem' = mem
    PROVE  /\ Sound(fields', mem') /\ StatusRecord(status')
           /\ FromResult(status)'
           /\ Now' = Derived[s]
           /\ Pending(fields', mem')["kind"] = s.kind
           /\ fields'.boundary = fields.boundary
<1>1. Sound(fields, mem) /\ StatusRecord(status)
  BY DEF TrackerInv
<1>2. /\ Sound(fields', mem')
      /\ Pending(fields', mem')["kind"] = s.kind
      /\ ImageIn(Pending(fields', mem')) = Derived[s]
      /\ fields'.boundary = fields.boundary
  BY <1>1, RecordWritesSound
<1>3. status' = [backing |-> BackingsOf(status, s), directSource |-> s,
                 inputs |-> status.inputs]
  BY DEF SourceStatus
<1>4. /\ DOMAIN status' = {"backing", "directSource", "inputs"}
      /\ status'.backing = BackingsOf(status, s)
      /\ status'.directSource = s
      /\ status'.inputs = status.inputs
  BY <1>3
<1>5. DOMAIN BackingsOf(status, s) = Flag
  BY DEF BackingsOf
<1>6. StatusRecord(status')
  BY <1>1, <1>4, <1>5 DEF StatusRecord
<1>7. BackingsOf(status, s) = BackingsOf(status', s)
  BY DEF BackingsOf
<1>8. FromResult(status)'
  BY <1>2, <1>4, <1>7 DEF FromResult, Now
<1> QED
  BY <1>2, <1>6, <1>8 DEF Now

LEMMA WriteSourceStep ==
    ASSUME TrackerInv, NEW s \in Source, WriteSource(s)
    PROVE  TrackerInv' /\ Now' = Derived[s]
<1>1. /\ phase = "running" /\ UNCHANGED <<mem, outer, phase, saved>>
      /\ fields' \in RecordWrites(fields, s) /\ status' = SourceStatus(s)
  BY DEF WriteSource
<1>2. /\ Sound(fields', mem') /\ StatusRecord(status')
      /\ FromResult(status)' /\ Now' = Derived[s]
      /\ fields'.boundary = fields.boundary
  BY <1>1, ResultWritten
<1> QED
  BY <1>1, <1>2 DEF TrackerInv, StatusMatches

LEMMA IterateStep ==
    ASSUME TrackerInv, NEW s \in Source, Iterate(s)
    PROVE  TrackerInv' /\ Now' = Derived[s]
<1>1. /\ phase = "looping" /\ phase' = "iterated" /\ s.kind = "sub"
      /\ UNCHANGED <<mem, outer, saved>>
      /\ fields' \in RecordWrites(fields, s) /\ status' = SourceStatus(s)
  BY DEF Iterate, Move
<1>2. /\ Sound(fields', mem') /\ StatusRecord(status')
      /\ FromResult(status)' /\ Now' = Derived[s]
      /\ Pending(fields', mem')["kind"] = s.kind
  BY <1>1, ResultWritten
<1>3. OuterKept'
  BY <1>1 DEF TrackerInv, OuterKept
<1> QED
  BY <1>1, <1>2, <1>3 DEF TrackerInv, StatusMatches

\* Writing one flag: the others are spelt out first, unless they are already.
LEMMA WriteStep ==
    ASSUME TrackerInv, NEW f \in Flag, NEW v \in Bit, Write(f, v)
    PROVE  TrackerInv' /\ Now' = [Now EXCEPT ![f] = v]
<1>1. /\ phase = "running" /\ UNCHANGED <<outer, phase, saved>>
      /\ StatusMatches /\ Sound(fields, mem) /\ StatusRecord(status)
  BY DEF Write, TrackerInv
<1>2. Now \in Image
  BY <1>1, ImageType, PendingAt DEF Now, Sound
<1>3. CASE WriteCurrent(f, v)
  <2>1. UNCHANGED <<mem, fields, status>> /\ Value(status, f) = v
        /\ Unresolved(status, {f}) = {}
    BY <1>3 DEF WriteCurrent
  <2>2. Value(status, f) = Now[f]
    <3>1. FromMemory(status) => f \in DOMAIN status.inputs
      BY <1>1, <2>1, BackedByMemory DEF Unresolved
    <3> QED
      BY <1>1, <3>1, ValueIsNow DEF StatusMatches
  <2>3. Now' = Now /\ Now' = [Now EXCEPT ![f] = v]
    BY <1>2, <2>1, <2>2 DEF Now, Image
  <2>4. TrackerInv'
    BY <1>1, <2>1, <2>3 DEF TrackerInv, StatusMatches, FromMemory, FromResult,
       FromBytes, Unstored
  <2> QED
    BY <2>3, <2>4
<1>4. CASE WriteFlushing(f, v)
  <2> DEFINE t == FieldsFor(Flag)
             st == StatusFor(Flag)
             image == [g \in Flag |-> Value(st, g)]
  <2>1. /\ mem' = MemoryFor(Flag)
        /\ fields' = Set(Explicit(t, image), f, v)
        /\ status' = [backing |-> [g \in Flag |->
                                     ValueBacking(IF g = f THEN v ELSE image[g])],
                      directSource |-> NoSource,
                      inputs |-> st.inputs]
    BY <1>4 DEF WriteFlushing
  <2>2. /\ Sound(t, mem')
        /\ Over(mem', t.boundary) = Over(mem, fields.boundary)
        /\ StatusRecord(st)
        /\ \A g \in Flag : Value(st, g) = Now[g]
    BY <1>1, <2>1, Asking
  <2> HIDE DEF t, st
  <2>3. image = Now
    BY <1>2, <2>2 DEF Image
  <2>4. PICK u : u = Explicit(t, image)
    OBVIOUS
  <2> HIDE DEF image
  <2>5. /\ Sound(u, mem')
        /\ u.boundary = t.boundary
        /\ Pending(u, mem')["kind"] = "none"
        /\ ImageIn(Pending(u, mem')) = Now
    BY <1>2, <2>2, <2>3, <2>4, ExplicitSound DEF Sound
  <2>6. /\ Sound(fields', mem')
        /\ fields'.boundary = t.boundary
        /\ Pending(fields', mem')["kind"] = "none"
        /\ ImageIn(Pending(fields', mem')) = [Now EXCEPT ![f] = v]
    BY <2>1, <2>4, <2>5, SetFlag
  <2>7. Now' = [Now EXCEPT ![f] = v]
    BY <2>6 DEF Now
  <2>8. /\ DOMAIN status' = {"backing", "directSource", "inputs"}
        /\ status'.backing = [g \in Flag |->
                                ValueBacking(IF g = f THEN v ELSE image[g])]
        /\ status'.directSource = NoSource
        /\ status'.inputs = st.inputs
    BY <2>1
  <2>9. StatusRecord(status')
    BY <2>2, <2>8 DEF StatusRecord
  <2>10. \A g \in Flag : status'.backing[g] = ValueBacking(Now'[g])
    BY <1>2, <2>3, <2>7, <2>8 DEF Image
  <2>11. FromBytes(status)'
    BY <2>6, <2>8, <2>10 DEF FromBytes
  <2> QED
    BY <1>1, <2>2, <2>6, <2>7, <2>9, <2>11 DEF TrackerInv, StatusMatches
<1>5. CASE WriteExplicit(f, v)
  <2>1. /\ ~NeedsFlush(status) /\ mem' = mem
        /\ fields' = Set(fields, f, v)
        /\ status' = [status EXCEPT !.backing[f] = ValueBacking(v)]
    BY <1>5 DEF WriteExplicit
  <2>2. FromBytes(status)
    <3>1. status.directSource = NoSource /\ f \notin InputBacked(status)
      BY <2>1 DEF NeedsFlush
    <3> QED
      BY <1>1, <3>1, BackedByMemory DEF StatusMatches
  <2>3. /\ Sound(fields', mem')
        /\ fields'.boundary = fields.boundary
        /\ Pending(fields', mem')["kind"] = "none"
        /\ ImageIn(Pending(fields', mem')) = [Now EXCEPT ![f] = v]
    BY <1>1, <2>1, <2>2, SetFlag DEF FromBytes, Now
  <2>4. Now' = [Now EXCEPT ![f] = v]
    BY <2>3 DEF Now
  <2>5. /\ DOMAIN status' = {"backing", "directSource", "inputs"}
        /\ status'.backing = [status.backing EXCEPT ![f] = ValueBacking(v)]
        /\ status'.directSource = status.directSource
        /\ status'.inputs = status.inputs
    BY <1>1, <2>1 DEF StatusRecord
  <2>6. StatusRecord(status')
    BY <1>1, <2>5 DEF StatusRecord
  <2>7. \A g \in Flag : status'.backing[g] = ValueBacking(Now'[g])
    BY <1>1, <1>2, <2>2, <2>4, <2>5 DEF FromBytes, StatusRecord, Image
  <2>8. FromBytes(status)'
    BY <2>2, <2>3, <2>5, <2>7 DEF FromBytes
  <2> QED
    BY <1>1, <2>1, <2>3, <2>4, <2>6, <2>8 DEF TrackerInv, StatusMatches
<1> QED
  BY <1>3, <1>4, <1>5 DEF Write

-----------------------------------------------------------------------------
\* A condition looks at the flags it reads and at no other.
LEMMA HoldsSame ==
    ASSUME NEW cc \in Condition, NEW i \in Image, NEW j \in Image,
           \A f \in Reads[cc] : i[f] = j[f]
    PROVE  Holds(cc, i) = Holds(cc, j)
BY ConditionAssumption DEF Holds

\* The record a switch captures is the one memory will hold.
LEMMA CapturedIsPending ==
    ASSUME Sound(fields, mem)
    PROVE  /\ CapturedRecord = RecordIn(Pending(fields, mem))
           /\ \A c \in Lazy : CapturedRecord[c] = Pending(fields, mem)[c]
           /\ CapturedRecord["kind"] \in Kind \cup {"none"}
           /\ CapturedRecord["a"] \in Operand /\ CapturedRecord["b"] \in Operand
<1>1. /\ "kind" \in Lazy /\ "a" \in Lazy /\ "b" \in Lazy
  BY DEF Lazy
<1>2. /\ Tracked(fields, mem, "kind") = Pending(fields, mem)["kind"]
      /\ Tracked(fields, mem, "a") = Pending(fields, mem)["a"]
      /\ Tracked(fields, mem, "b") = Pending(fields, mem)["b"]
  BY <1>1, TrackedIsPending
<1>3. CapturedRecord = RecordIn(Pending(fields, mem))
  BY <1>2 DEF CapturedRecord, RecordIn
<1>4. MemoryOK(Pending(fields, mem))
  BY PendingAt DEF Sound
<1>5. \A c \in Lazy : CapturedRecord[c] = Pending(fields, mem)[c]
  BY <1>2 DEF CapturedRecord, Lazy
<1> QED
  BY <1>1, <1>3, <1>4, <1>5, Fields DEF MemoryOK, Contents

(***************************************************************************)
(* The switch over the captured record: the arms that compare its operands *)
(* store nothing, yet the tracker takes the pending flag bytes for stored. *)
(* A record stands there, so nobody looks at those bytes.                  *)
(***************************************************************************)
LEMMA TestRecordStep ==
    ASSUME TrackerInv, NEW cc \in Condition, phase \in {"running", "iterated"},
           UNCHANGED <<outer, phase, saved>>, TestRecord(cc)
    PROVE  TrackerInv' /\ Now' = Now /\ result' = <<Holds(cc, Now)>>
<1> DEFINE t == Captured
           P == Pending(fields, mem)
           S == Published(t, Reads[cc])
<1>1. Sound(fields, mem) /\ StatusRecord(status) /\ StatusMatches
  BY DEF TrackerInv
<1>2. FromMemory(status) /\ Unstored /\ phase = "running"
  <2>1. Reads[cc] # {} /\ Reads[cc] \subseteq InputBacked(status)
    BY ConditionAssumption DEF TestRecord, RecordComparable, ReadsOnlyInputs
  <2>2. ~FromResult(status) /\ ~FromBytes(status)
    BY <1>1, <2>1, BackedByMemory
  <2> QED
    BY <1>1, <2>2 DEF StatusMatches, TrackerInv
<1>3. /\ Sound(t, mem)
      /\ t.entries = fields.entries /\ t.dirty = fields.dirty
      /\ t.boundary = fields.boundary
      /\ Pending(t, mem) = P
  BY <1>1, CapturedSound DEF Captured
<1>4. S \in SUBSET t.dirty /\ S \cap Lazy = {} /\ S \subseteq Flag
      /\ t.dirty \cap Reads[cc] \subseteq S
  BY <1>2, <1>3, ConditionAssumption DEF Published, Unstored
<1>5. /\ CapturedRecord = RecordIn(P)
      /\ CapturedRecord.kind = P["kind"]
      /\ MemoryOK(P) /\ Now \in Image
      /\ P["kind"] # "none" => Now = Derived[RecordIn(P)]
  <2>1. CapturedRecord = RecordIn(P)
    BY <1>1, CapturedIsPending
  <2>2. MemoryOK(P)
    BY <1>1, PendingAt DEF Sound
  <2>3. P["kind"] # "none" => Derived[RecordIn(P)] \in [Flag -> Bit]
    BY <2>2, ImageType, DerivedAssumption DEF Image
  <2>4. P["kind"] # "none" => ImageIn(P) = Derived[RecordIn(P)]
    BY <2>3 DEF ImageIn
  <2> QED
    BY <2>1, <2>2, <2>4, ImageType DEF RecordIn, Now
<1>6. fields' = Publishing(t, mem, S) /\ UNCHANGED status
  BY DEF TestRecord
<1> HIDE DEF t, S
<1>7. /\ TrackedFields(fields')
      /\ fields'.entries = t.entries
      /\ fields'.dirty = t.dirty \ S
      /\ DOMAIN fields'.boundary = DOMAIN t.boundary \cup S
      /\ DOMAIN fields'.reads = DOMAIN t.reads \ S
      /\ \A c \in DOMAIN fields'.reads : fields'.reads[c] = t.reads[c]
  BY <1>3, <1>4, <1>6, PublishFields DEF Sound
<1>8. Unstored'
  BY <1>2, <1>3, <1>7 DEF Unstored
<1>9. ASSUME Sound(fields', mem'), Now' = Now,
             Over(mem', fields'.boundary) = Over(mem, fields.boundary)
      PROVE  TrackerInv'
  <2>1. StatusMatches'
    BY <1>2, <1>6, <1>8, <1>9 DEF StatusMatches, FromMemory
  <2> QED
    BY <1>1, <1>2, <1>6, <1>9, <2>1, QuietStep
<1>10. CASE CapturedRecord.kind # "none" /\ cc \in Direct[CapturedRecord.kind]
  <2>1. mem' = mem /\ result' = <<Holds(cc, Derived[CapturedRecord])>>
    BY <1>10 DEF TestRecord
  <2>2. \A c \in Field : Pending(fields', mem)[c] =
                            IF c \in t.dirty \ S THEN t.entries[c] ELSE mem[c]
    BY <1>1, <1>7, PendingAt DEF Sound
  <2>3. \A c \in Lazy : Pending(fields', mem)[c] = P[c]
    BY <1>1, <1>3, <1>4, <2>2, Fields, PendingAt DEF Sound
  <2>4. Pending(fields', mem)["kind"] # "none"
    BY <1>5, <1>10, <2>3 DEF Lazy
  <2>5. Sound(fields', mem')
    BY <1>3, <1>4, <1>7, <2>1, <2>4 DEF Sound, ReadsHeld, CleanHeld
  <2>6. Agree(Pending(fields', mem), P, Flag)
    BY <2>3, <2>4 DEF Agree
  <2>7. Now' = Now
    BY <2>1, <2>6, AgreeImage DEF Now
  <2>8. Over(mem', fields'.boundary) = Over(mem, fields.boundary)
    BY <1>3, <1>4, <1>6, <2>1, PublishRestores DEF Sound, MemoryOK
  <2>9. Holds(cc, Derived[CapturedRecord]) = Holds(cc, Now)
    BY <1>5, <1>10
  <2> QED
    BY <1>9, <2>1, <2>5, <2>7, <2>8, <2>9
<1>11. CASE ~(CapturedRecord.kind # "none" /\ cc \in Direct[CapturedRecord.kind])
  <2>1. mem' = MemoryAfterPublish(t, mem, S) /\ result' = <<Holds(cc, ImageIn(mem'))>>
    BY <1>11 DEF TestRecord, t, S
  <2>2. /\ Sound(fields', mem')
        /\ Pending(fields', mem') = P
        /\ Over(mem', fields'.boundary) = Over(mem, fields.boundary)
        /\ \A c \in Field : mem'[c] = IF c \in S THEN t.entries[c] ELSE mem[c]
    BY <1>3, <1>4, <1>6, <2>1, PublishSound
  <2>3. Now' = Now
    BY <2>2 DEF Now
  <2>4. Reads[cc] \in SUBSET Flag
    BY ConditionAssumption
  <2>5. ASSUME NEW c \in Lazy \cup Reads[cc] PROVE mem'[c] = P[c]
    <3>1. c \in Field /\ (c \in fields.dirty => c \in S)
      BY <1>2, <1>3, <1>4, <2>4, Fields DEF Unstored
    <3> QED
      BY <1>1, <1>3, <1>4, <2>2, <3>1, PendingAt DEF Sound
  <2>6. Agree(mem', P, Reads[cc])
    BY <2>5 DEF Agree
  <2>7. \A f \in Reads[cc] : ImageIn(mem')[f] = Now[f]
    BY <2>4, <2>6, AgreeImage DEF Now
  <2>8. ImageIn(mem') \in Image
    BY <2>2, ImageType DEF Sound
  <2>9. Holds(cc, ImageIn(mem')) = Holds(cc, Now)
    BY <1>5, <2>7, <2>8, HoldsSame
  <2> QED
    BY <1>9, <2>1, <2>2, <2>3, <2>9
<1> QED
  BY <1>10, <1>11

LEMMA TestStep ==
    ASSUME TrackerInv, NEW cc \in Condition, Test(cc)
    PROVE  TrackerInv' /\ Now' = Now /\ result' = <<Holds(cc, Now)>>
<1>1. /\ phase \in {"running", "iterated"} /\ UNCHANGED <<outer, phase, saved>>
      /\ StatusMatches /\ Sound(fields, mem) /\ StatusRecord(status)
  BY DEF Test, TrackerInv
<1>2. Now \in Image
  BY <1>1, ImageType, PendingAt DEF Now, Sound
<1>3. CASE TestDirect(cc)
  <2>1. /\ status.directSource # NoSource /\ UNCHANGED <<mem, fields, status>>
        /\ result' = <<Holds(cc, Derived[status.directSource])>>
    BY <1>3 DEF TestDirect, DirectlyComparable
  <2>2. FromResult(status)
    BY <1>1, <2>1 DEF StatusMatches, FromMemory, FromBytes
  <2>3. Now' = Now
    BY <2>1 DEF Now
  <2>4. TrackerInv'
    BY <1>1, <2>1, <2>2, <2>3 DEF TrackerInv, StatusMatches, FromResult, OuterKept
  <2> QED
    BY <2>1, <2>2, <2>3, <2>4 DEF FromResult
<1>4. CASE TestRecord(cc)
  BY <1>1, <1>4, TestRecordStep
<1>5. CASE TestFlags(cc)
  <2> DEFINE i == [f \in Flag |-> IF f \in Reads[cc] THEN Value(status', f) ELSE 0]
  <2>1. /\ mem' = MemoryFor(Reads[cc]) /\ fields' = FieldsFor(Reads[cc])
        /\ status' = StatusFor(Reads[cc])
        /\ result' = <<Holds(cc, i)>>
    BY <1>5 DEF TestFlags
  <2>2. Reads[cc] \in SUBSET Flag
    BY ConditionAssumption
  <2>3. /\ Sound(fields', mem')
        /\ Pending(fields', mem') = Pending(fields, mem)
        /\ Over(mem', fields'.boundary) = Over(mem, fields.boundary)
        /\ Unstored => /\ fields'.dirty \cap Lazy = {}
                       /\ phase = "running" => fields'.dirty \subseteq DOMAIN fields'.boundary
        /\ StatusRecord(status')
        /\ FromMemory(status) => FromMemory(status')
        /\ FromResult(status) => FromResult(status') /\ \A c \in Field : mem'[c] = mem[c]
        /\ FromBytes(status) => FromBytes(status')
        /\ \A f \in Reads[cc] : Value(status', f) = Now[f]
    BY <1>1, <2>1, <2>2, Asking
  <2>4. Now' = Now
    BY <2>3 DEF Now
  <2>5. /\ FromMemory(status) => FromMemory(status)'
        /\ FromResult(status) => FromResult(status)'
        /\ FromBytes(status) => FromBytes(status)'
    BY <2>3, <2>4 DEF FromMemory, FromResult, FromBytes
  <2>6. StatusMatches'
    BY <1>1, <2>3, <2>5 DEF StatusMatches, Unstored
  <2>7. phase = "iterated" =>
           /\ FromResult(status)'
           /\ Pending(fields', mem')["kind"] = "sub"
           /\ \A c \in Field : mem'[c] = mem[c]
    BY <2>3, <2>5 DEF TrackerInv
  <2>8. TrackerInv'
    <3>1. phase' = phase /\ UNCHANGED <<outer, saved>>
      BY <1>1
    <3>2. /\ Sound(fields', mem') /\ StatusRecord(status')
          /\ Over(mem', fields'.boundary) = Over(mem, fields.boundary)
      BY <2>3
    <3> QED
      BY <1>1, <2>4, <2>6, <2>7, <3>1, <3>2, QuietStep
  <2>9. i \in Image /\ \A f \in Reads[cc] : i[f] = Now[f]
    BY <1>2, <2>2, <2>3 DEF Image, Bit
  <2> HIDE DEF i
  <2>10. Holds(cc, i) = Holds(cc, Now)
    BY <1>2, <2>9, HoldsSame
  <2> QED
    BY <2>1, <2>4, <2>8, <2>10
<1> QED
  BY <1>3, <1>4, <1>5 DEF Test

-----------------------------------------------------------------------------
\* The host and the ends of a function: nothing is tracked outside.
LEMMA FreshInv ==
    ASSUME MemoryOK(mem'), fields' = FreshFields, status' = FreshStatus,
           phase' \in {"exited", "between"}, saved' \in Image
    PROVE  TrackerInv' /\ Now' = ImageIn(mem')
<1>1. /\ Sound(fields', mem') /\ fields'.dirty = {}
      /\ ImageIn(Pending(fields', mem')) = ImageIn(mem')
      /\ StatusRecord(status')
      /\ status'.directSource = NoSource
      /\ \A f \in Flag : status'.backing[f] = InputBacking
      /\ DOMAIN status'.inputs = {}
  BY FreshTrackerSound
<1>2. StatusMatches'
  BY <1>1 DEF StatusMatches, FromMemory, Unstored
<1> QED
  BY <1>1, <1>2 DEF TrackerInv, Now

LEMMA InitInv == Init => TrackerInv /\ Architectural = ImageIn(mem)
<1> SUFFICES ASSUME Init PROVE TrackerInv /\ Architectural = ImageIn(mem)
  OBVIOUS
<1>1. MemoryOK(mem)
  <2>1. PICK k \in Kind \cup {"none"}, a \in Operand, b \in Operand, bytes \in Image :
           mem = [c \in Field |-> CASE c = "kind" -> k
                                    [] c = "a" -> a
                                    [] c = "b" -> b
                                    [] c \in Flag -> bytes[c]]
    BY DEF Init
  <2>2. ASSUME NEW c \in Field PROVE mem[c] \in Content(c)
    <3>1. CASE c = "kind"
      BY <2>1, <3>1, Fields
    <3>2. CASE c = "a"
      BY <2>1, <3>2, Fields
    <3>3. CASE c = "b"
      BY <2>1, <3>3, Fields
    <3>4. CASE c \in Flag
      BY <2>1, <3>4, Fields DEF Image
    <3> QED
      BY <3>1, <3>2, <3>3, <3>4 DEF Field, Lazy
  <2> QED
    BY <2>1, <2>2 DEF MemoryOK, Contents
<1>2. /\ fields = FreshFields /\ status = FreshStatus /\ phase = "exited"
      /\ saved = ImageIn(mem)
  BY DEF Init
<1>3. /\ Sound(fields, mem) /\ fields.dirty = {}
      /\ StatusRecord(status)
      /\ status.directSource = NoSource
      /\ \A f \in Flag : status.backing[f] = InputBacking
      /\ DOMAIN status.inputs = {}
  BY <1>1, <1>2, FreshTrackerSound
<1>4. StatusMatches
  BY <1>2, <1>3 DEF StatusMatches, FromMemory, Unstored
<1> QED
  BY <1>1, <1>2, <1>3, <1>4, ImageType DEF TrackerInv, Architectural

LEMMA HostWriteStep ==
    ASSUME TrackerInv, NEW f \in Flag, NEW v \in Bit, HostWrite(f, v)
    PROVE  TrackerInv' /\ Now' = [Now EXCEPT ![f] = v]
<1>1. /\ phase = "exited" /\ UNCHANGED <<fields, status, outer, phase, saved>>
      /\ mem' = [c \in Field |-> IF c = f THEN v
                                 ELSE IF c \in Flag THEN ImageIn(mem)[c]
                                 ELSE IF c = "kind" THEN "none" ELSE mem[c]]
      /\ MemoryOK(mem) /\ fields = FreshFields /\ status = FreshStatus
      /\ saved \in Image
  BY DEF HostWrite, TrackerInv, Sound
<1>2. \A g \in Flag : ImageIn(mem)[g] \in Bit
  BY <1>1, ImageType
<1>3. MemoryOK(mem')
  <2>1. ASSUME NEW c \in Field PROVE mem'[c] \in Content(c)
    BY <1>1, <1>2, <2>1, Fields DEF MemoryOK, Contents
  <2> QED
    BY <1>1, <2>1 DEF MemoryOK, Contents
<1>4. Now = ImageIn(mem)
  BY <1>1, FreshTrackerSound DEF Now
<1>5. ImageIn(mem') = [ImageIn(mem) EXCEPT ![f] = v]
  <2>1. mem'["kind"] = "none" /\ \A g \in Flag : mem'[g] = IF g = f THEN v ELSE ImageIn(mem)[g]
    BY <1>1, Fields
  <2> QED
    BY <2>1 DEF ImageIn
<1>6. TrackerInv' /\ Now' = ImageIn(mem')
  BY <1>1, <1>3, FreshInv
<1> QED
  BY <1>4, <1>5, <1>6

\* Reading by the host, entering and leaving a function.
LEMMA EdgeStep ==
    ASSUME TrackerInv,
           Enter \/ Publish \/ \E f \in Flag : HostRead(f)
    PROVE  TrackerInv' /\ Now' = Now /\ saved' = saved
<1>1. MemoryOK(mem) /\ MemoryOK(Pending(fields, mem)) /\ saved \in Image
  BY PendingAt DEF TrackerInv, Sound
<1>2. phase = "exited" => /\ fields = FreshFields /\ status = FreshStatus
                          /\ Now = ImageIn(mem)
  BY <1>1, FreshTrackerSound DEF TrackerInv, Now
<1>3. CASE Enter
  BY <1>1, <1>2, <1>3, FreshInv DEF Enter, Move, FreshTracker
<1>4. CASE Publish
  <2>1. MemoryOK(mem') /\ ImageIn(mem') = Now
    BY <1>1, <1>4 DEF Publish, Now
  <2> QED
    BY <1>1, <1>4, <2>1, FreshInv DEF Publish, Move, FreshTracker
<1>5. CASE \E f \in Flag : HostRead(f)
  BY <1>1, <1>2, <1>5, FreshInv DEF HostRead
<1> QED
  BY <1>3, <1>4, <1>5

\* A raise writes the boundary over memory and finds what was saved.
LEMMA FaultStep ==
    ASSUME TrackerInv, Fault
    PROVE  TrackerInv' /\ Now' = saved /\ saved' = saved
<1>1. /\ MemoryOK(mem) /\ TrackedFields(fields) /\ saved \in Image
      /\ ImageIn(Over(mem, fields.boundary)) = saved
      /\ mem' = Over(mem, fields.boundary)
      /\ fields' = FreshFields /\ status' = FreshStatus /\ phase' = "exited"
      /\ saved' = saved
  BY DEF Fault, Move, FreshTracker, TrackerInv, Sound
<1>2. MemoryOK(mem')
  BY <1>1 DEF MemoryOK, Over, TrackedFields, Contents
<1> QED
  BY <1>1, <1>2, FreshInv

\* The code after a join asks memory for everything.
LEMMA JoinedStatus ==
    ASSUME Sound(fields', mem'), fields'.dirty \cap Lazy = {},
           status' = StatusAfterJoin, phase' = "committing", saved' \in Image
    PROVE  TrackerInv'
<1>1. /\ StatusRecord(FreshStatus)
      /\ FreshStatus.directSource = NoSource
      /\ \A f \in Flag : FreshStatus.backing[f] = InputBacking
      /\ DOMAIN FreshStatus.inputs = {}
  BY FreshTrackerSound DEF Sound
<1>2. FromMemory(status)' /\ Unstored'
  BY <1>1 DEF FromMemory, Unstored, StatusAfterJoin
<1> QED
  BY <1>1, <1>2 DEF TrackerInv, StatusMatches, StatusAfterJoin

\* The marks between instructions.
LEMMA BeginStep ==
    ASSUME TrackerInv, BeginInstruction
    PROVE  TrackerInv' /\ Now' = Now /\ saved' = Now
<1>1. /\ phase = "between" /\ phase' = "running"
      /\ UNCHANGED <<mem, status, outer>>
      /\ fields' = MarkBoundary(fields) /\ saved' = Now
      /\ Sound(fields, mem) /\ StatusMatches
  BY DEF BeginInstruction, Move, TrackerInv, Now
<1>2. /\ DOMAIN fields' = {"entries", "dirty", "boundary", "reads"}
      /\ fields'.entries = fields.entries /\ fields'.dirty = fields.dirty
      /\ fields'.boundary = fields.entries /\ fields'.reads = fields.reads
  BY <1>1 DEF MarkBoundary, Sound, TrackedFields
<1>3. Pending(fields', mem') = Pending(fields, mem)
  BY <1>1, <1>2 DEF Pending
<1>4. Sound(fields', mem')
  BY <1>1, <1>2, <1>3 DEF Sound, TrackedFields, ReadsHeld, CleanHeld
<1>5. Now' = Now /\ Now \in Image
  BY <1>1, <1>3, ImageType, PendingAt DEF Now, Sound
<1>6. ImageIn(Over(mem', fields'.boundary)) = saved'
  BY <1>1, <1>2, MarkedBoundary DEF Now
<1>7. Unstored => Unstored'
  BY <1>1, <1>2 DEF Unstored, Sound, TrackedFields
<1>8. StatusMatches'
  BY <1>1, <1>3, <1>5, <1>7 DEF StatusMatches, FromMemory, FromResult, FromBytes
<1> QED
  BY <1>1, <1>4, <1>5, <1>6, <1>8 DEF TrackerInv

LEMMA PassStep ==
    ASSUME TrackerInv, Complete \/ SkipKnown
    PROVE  TrackerInv' /\ Now' = Now /\ saved' = saved
<1>1. /\ phase \in {"running", "committing"} /\ phase' \in {"between", "committing"}
      /\ UNCHANGED <<mem, fields, status, saved>>
  BY DEF Complete, SkipKnown, Move
<1>2. Now' = Now
  BY <1>1 DEF Now
<1>3. Unstored => Unstored'
  BY <1>1 DEF Unstored
<1>4. StatusMatches'
  BY <1>1, <1>2, <1>3 DEF TrackerInv, StatusMatches, FromMemory, FromResult, FromBytes
<1> QED
  BY <1>1, <1>2, <1>4 DEF TrackerInv

-----------------------------------------------------------------------------
\* The arm not taken: memory holds the record that was pending, and the flag
\* bytes are as they were.
LEMMA SkipArmStep ==
    ASSUME TrackerInv, SkipArm
    PROVE  TrackerInv' /\ Now' = Now /\ saved' = saved
<1> DEFINE P == Pending(fields, mem)
<1>1. /\ phase' = "committing" /\ saved' = saved /\ saved \in Image
      /\ mem' = Over(mem, On(fields.entries, fields.dirty \cap Lazy))
      /\ fields' = FieldsAfterJoin(fields)
      /\ status' = StatusAfterJoin
      /\ Sound(fields, mem)
  BY DEF SkipArm, Move, TrackerInv
<1>2. MemoryOK(mem) /\ TrackedFields(fields)
  BY <1>1 DEF Sound
<1>3. /\ DOMAIN mem' = Field
      /\ \A c \in Field : mem'[c] = IF c \in fields.dirty \cap Lazy
                                    THEN fields.entries[c] ELSE mem[c]
  BY <1>1, <1>2 DEF Over, On, MemoryOK, TrackedFields
<1>4. MemoryOK(mem')
  BY <1>2, <1>3 DEF MemoryOK, TrackedFields, Contents
<1>5. \A c \in Field : P[c] = IF c \in fields.dirty THEN fields.entries[c] ELSE mem[c]
  BY <1>2, PendingAt
<1>6. (\A c \in Lazy : mem'[c] = P[c]) /\ \A f \in Flag : mem'[f] = mem[f]
  BY <1>3, <1>5, Fields, FlagAssumption
<1>7. BytesHeld(fields, mem', mem'["kind"])
  <2>1. mem'["kind"] = P["kind"]
    BY <1>6 DEF Lazy
  <2> QED
    BY <1>1, <1>6, <2>1 DEF BytesHeld, Sound, CleanHeld
<1>8. /\ Sound(fields', mem')
      /\ fields'.dirty = fields.dirty \ Lazy
      /\ \A c \in Lazy : Pending(fields', mem')[c] = mem'[c]
      /\ \A f \in Flag : Pending(fields', mem')[f] =
                            IF f \in fields.dirty THEN fields.entries[f] ELSE mem'[f]
  BY <1>1, <1>2, <1>4, <1>7, JoinSound
<1>9. Agree(Pending(fields', mem'), P, Flag)
  BY <1>5, <1>6, <1>8, Fields DEF Agree
<1>10. Now' = Now
  BY <1>9, AgreeImage DEF Now
<1>11. TrackerInv'
  BY <1>1, <1>8, JoinedStatus
<1> QED
  BY <1>1, <1>10, <1>11

\* Flag bytes do not matter to a memory that holds a record.
LEMMA RecordAgrees ==
    ASSUME NEW m, NEW n, \A c \in Lazy : m[c] = n[c], m["kind"] # "none"
    PROVE  ImageIn(m) = ImageIn(n)
<1>1. Agree(m, n, Flag)
  BY DEF Agree
<1> QED
  BY <1>1, AgreeImage

LEMMA EnterLoopStep ==
    ASSUME TrackerInv, EnterLoop
    PROVE  TrackerInv' /\ Now' = Now /\ saved' = Now
<1> DEFINE P == Pending(fields, mem)
           record == CapturedRecord
<1>1. /\ phase' = "looping" /\ UNCHANGED <<mem, status>>
      /\ fields' = LoopTop(fields, record) /\ saved' = Now
      /\ outer'.fields = fields /\ outer'.status = status
      /\ Sound(fields, mem) /\ StatusRecord(status)
  BY DEF EnterLoop, Move, TrackerInv, Now
<1>2. MemoryOK(mem) /\ TrackedFields(fields) /\ ReadsHeld(fields, mem)
  BY <1>1 DEF Sound
<1>3. /\ \A c \in Lazy : record[c] = P[c]
      /\ record["kind"] \in Kind \cup {"none"}
      /\ record["a"] \in Operand /\ record["b"] \in Operand
  BY <1>1, CapturedIsPending
<1> HIDE DEF record
<1>4. BytesHeld(fields, mem, record["kind"])
  <2>1. record["kind"] = P["kind"]
    BY <1>3 DEF Lazy
  <2> QED
    BY <1>1, <2>1 DEF BytesHeld, Sound, CleanHeld
<1>5. /\ Sound(fields', mem)
      /\ fields'.boundary = fields'.entries
      /\ \A c \in Lazy : Pending(fields', mem)[c] = record[c]
      /\ \A f \in Flag : Pending(fields', mem)[f] =
                            IF f \in fields.dirty THEN fields.entries[f] ELSE mem[f]
  BY <1>1, <1>2, <1>3, <1>4, LoopTopSound
<1>6. \A f \in Flag : P[f] = IF f \in fields.dirty THEN fields.entries[f] ELSE mem[f]
  <2>1. \A c \in Field : P[c] = IF c \in fields.dirty THEN fields.entries[c] ELSE mem[c]
    BY <1>2, PendingAt
  <2> QED
    BY <2>1, Fields
<1>7. Agree(Pending(fields', mem'), P, Flag)
  BY <1>1, <1>3, <1>5, <1>6 DEF Agree
<1>8. Now' = Now /\ Now \in Image
  BY <1>2, <1>7, AgreeImage, ImageType, PendingAt DEF Now
<1>9. ImageIn(Over(mem', fields'.boundary)) = saved'
  BY <1>1, <1>5, <1>8, MarkedBoundary DEF Now
<1>10. OuterKept'
  BY <1>1, <1>2 DEF OuterKept
<1> QED
  BY <1>1, <1>5, <1>8, <1>9, <1>10 DEF TrackerInv

\* The next iteration starts from the tracker of before the loop, with the
\* record of the last one: a subtraction, so no flag byte matters.
LEMMA AgainStep ==
    ASSUME TrackerInv, Again
    PROVE  TrackerInv' /\ Now' = Now /\ saved' = Now
<1> DEFINE P == Pending(fields, mem)
           record == CapturedRecord
<1>1. /\ phase' = "looping" /\ UNCHANGED <<mem, outer>>
      /\ fields' = LoopTop(outer.fields, record) /\ saved' = Now
      /\ status' = outer.status
      /\ Sound(fields, mem) /\ OuterKept /\ P["kind"] = "sub"
  BY DEF Again, Move, TrackerInv, Now
<1>2. MemoryOK(mem) /\ TrackedFields(outer.fields) /\ ReadsHeld(outer.fields, mem)
      /\ TrackedFields(fields)
  BY <1>1 DEF Sound, OuterKept
<1>3. /\ \A c \in Lazy : record[c] = P[c]
      /\ record["kind"] \in Kind \cup {"none"}
      /\ record["a"] \in Operand /\ record["b"] \in Operand
  BY <1>1, CapturedIsPending
<1> HIDE DEF record
<1>4. record["kind"] # "none"
  BY <1>1, <1>3 DEF Lazy
<1>5. BytesHeld(outer.fields, mem, record["kind"])
  BY <1>4 DEF BytesHeld
<1>6. /\ Sound(fields', mem)
      /\ fields'.boundary = fields'.entries
      /\ \A c \in Lazy : Pending(fields', mem)[c] = record[c]
  BY <1>1, <1>2, <1>3, <1>5, LoopTopSound
<1>7. \A c \in Lazy : P[c] = Pending(fields', mem')[c]
  BY <1>1, <1>3, <1>6
<1>8. P["kind"] # "none"
  BY <1>1
<1>9. ImageIn(P) = ImageIn(Pending(fields', mem'))
  BY <1>7, <1>8, RecordAgrees
<1>10. Now' = Now /\ Now \in Image
  BY <1>2, <1>9, ImageType, PendingAt DEF Now
<1>11. ImageIn(Over(mem', fields'.boundary)) = saved'
  BY <1>1, <1>6, <1>10, MarkedBoundary DEF Now
<1>12. OuterKept' /\ StatusRecord(status')
  BY <1>1 DEF OuterKept
<1> QED
  BY <1>1, <1>6, <1>10, <1>11, <1>12 DEF TrackerInv

\* The commit after the loop: the record of the last iteration is in memory.
LEMMA LeaveStep ==
    ASSUME TrackerInv, Leave
    PROVE  TrackerInv' /\ Now' = Now /\ saved' = saved
<1> DEFINE P == Pending(fields, mem)
<1>1. /\ phase = "iterated" /\ phase' = "committing"
      /\ saved' = saved /\ saved \in Image
      /\ mem' = [c \in Field |-> IF c \in Lazy THEN CapturedRecord[c] ELSE mem[c]]
      /\ fields' = FieldsAfterJoin(IF outer.arm THEN outer.fields ELSE fields)
      /\ status' = StatusAfterJoin
      /\ Sound(fields, mem) /\ OuterKept /\ P["kind"] = "sub"
  BY DEF Leave, Move, TrackerInv
<1>2. PICK t : t = IF outer.arm THEN outer.fields ELSE fields
  OBVIOUS
<1>3. TrackedFields(t) /\ MemoryOK(mem) /\ fields' = FieldsAfterJoin(t)
  BY <1>1, <1>2 DEF Sound, OuterKept
<1>4. /\ \A c \in Lazy : mem'[c] = P[c]
      /\ MemoryOK(P)
  BY <1>1, <1>3, CapturedIsPending, PendingAt, Fields DEF Sound
<1>5. MemoryOK(mem')
  BY <1>1, <1>3, <1>4, Fields DEF MemoryOK, Contents
<1>6. mem'["kind"] = "sub"
  BY <1>1, <1>4 DEF Lazy
<1>7. BytesHeld(t, mem', mem'["kind"])
  BY <1>6 DEF BytesHeld
<1>8. /\ Sound(fields', mem')
      /\ fields'.dirty = t.dirty \ Lazy
      /\ \A c \in Lazy : Pending(fields', mem')[c] = mem'[c]
  BY <1>3, <1>5, <1>7, JoinSound
<1>9. (\A c \in Lazy : P[c] = Pending(fields', mem')[c]) /\ P["kind"] # "none"
  BY <1>1, <1>4, <1>8
<1>10. ImageIn(P) = ImageIn(Pending(fields', mem'))
  BY <1>9, RecordAgrees
<1>11. Now' = Now
  BY <1>10 DEF Now
<1>12. TrackerInv'
  BY <1>1, <1>8, JoinedStatus
<1> QED
  BY <1>1, <1>11, <1>12

-----------------------------------------------------------------------------
\* Every step keeps the invariant, and is the step of StatusFlagFile that has
\* its name, on the flags as memory will say them.
LEMMA NextStep ==
    ASSUME TrackerInv, Next
    PROVE  TrackerInv' /\ File!Next
<1>0. \/ Enter \/ BeginInstruction \/ Complete \/ Publish \/ Fault
      \/ SkipArm \/ SkipKnown \/ EnterLoop \/ Again \/ Leave
      \/ \E f \in Flag : HostRead(f)
      \/ \E f \in Flag : Read(f)
      \/ \E f \in Flag : \E v \in Bit : HostWrite(f, v)
      \/ \E f \in Flag : \E v \in Bit : Write(f, v)
      \/ \E s \in Source : WriteSource(s)
      \/ \E s \in Source : Iterate(s)
      \/ \E cc \in Condition : Test(cc)
  BY DEF Next
<1> DEFINE Flags == Architectural
<1>A. Flags = Now /\ (TrackerInv' => Flags' = Now')
  BY ArchitecturalIsNow, ArchitecturalIsNowAfter
<1> HIDE DEF Flags
<1>1. CASE Enter
  <2>1. TrackerInv' /\ Flags' = Flags /\ saved' = saved
    BY <1>A, <1>1, EdgeStep
  <2>2. File!Enter
    BY <1>1, <2>1 DEF Enter, Move, NoResult, Flags, File!Enter, File!Pass, File!Move, File!NoResult
  <2> QED
    BY <2>1, <2>2 DEF File!Next
<1>2. CASE BeginInstruction
  <2>1. TrackerInv' /\ Flags' = Flags /\ saved' = Flags
    BY <1>A, <1>2, BeginStep
  <2>2. File!Begin
    BY <1>2, <2>1 DEF BeginInstruction, Move, NoResult, Flags,
       File!Begin, File!Mark, File!Move, File!NoResult
  <2> QED
    BY <2>1, <2>2 DEF File!Next
<1>3. CASE Complete
  <2>1. TrackerInv' /\ Flags' = Flags /\ saved' = saved
    BY <1>A, <1>3, PassStep
  <2>2. File!Complete
    BY <1>3, <2>1 DEF Complete, Move, NoResult, Flags,
       File!Complete, File!Pass, File!Move, File!NoResult
  <2> QED
    BY <2>1, <2>2 DEF File!Next
<1>4. CASE Publish
  <2>1. TrackerInv' /\ Flags' = Flags /\ saved' = saved
    BY <1>A, <1>4, EdgeStep
  <2>2. File!Publish
    BY <1>4, <2>1 DEF Publish, Move, NoResult, Flags,
       File!Publish, File!Pass, File!Move, File!NoResult
  <2> QED
    BY <2>1, <2>2 DEF File!Next
<1>5. CASE Fault
  <2>1. TrackerInv' /\ Flags' = saved /\ saved' = saved
    BY <1>A, <1>5, FaultStep
  <2>2. File!Fault
    BY <1>5, <2>1 DEF Fault, Move, NoResult, Flags,
       File!Fault, File!Assign, File!Move, File!NoResult
  <2> QED
    BY <2>1, <2>2 DEF File!Next
<1>6. CASE SkipArm \/ SkipKnown
  <2>1. TrackerInv' /\ Flags' = Flags /\ saved' = saved
    BY <1>A, <1>6, SkipArmStep, PassStep
  <2>2. File!Skip
    BY <1>6, <2>1 DEF SkipArm, SkipKnown, Move, NoResult, Flags,
       File!Skip, File!Pass, File!Move, File!NoResult
  <2> QED
    BY <2>1, <2>2 DEF File!Next
<1>7. CASE EnterLoop
  <2>1. TrackerInv' /\ Flags' = Flags /\ saved' = Flags
    BY <1>A, <1>7, EnterLoopStep
  <2>2. File!EnterLoop
    BY <1>7, <2>1 DEF EnterLoop, Move, NoResult, Flags,
       File!EnterLoop, File!Mark, File!Move, File!NoResult
  <2> QED
    BY <2>1, <2>2 DEF File!Next
<1>8. CASE Again
  <2>1. TrackerInv' /\ Flags' = Flags /\ saved' = Flags
    BY <1>A, <1>8, AgainStep
  <2>2. File!Again
    BY <1>8, <2>1 DEF Again, Move, NoResult, Flags,
       File!Again, File!Mark, File!Move, File!NoResult
  <2> QED
    BY <2>1, <2>2 DEF File!Next
<1>9. CASE Leave
  <2>1. TrackerInv' /\ Flags' = Flags /\ saved' = saved
    BY <1>A, <1>9, LeaveStep
  <2>2. File!Leave
    BY <1>9, <2>1 DEF Leave, Move, NoResult, Flags,
       File!Leave, File!Pass, File!Move, File!NoResult
  <2> QED
    BY <2>1, <2>2 DEF File!Next
<1>10. ASSUME NEW f \in Flag, HostRead(f) PROVE TrackerInv' /\ File!Next
  <2>1. TrackerInv' /\ Flags' = Flags /\ saved' = saved
    BY <1>A, <1>10, EdgeStep
  <2>2. Flags = ImageIn(mem)
    BY <1>10 DEF HostRead, Flags, Architectural
  <2>3. File!HostRead(f)
    BY <1>10, <2>1, <2>2 DEF HostRead, Flags, File!HostRead, File!Answer
  <2> QED
    BY <2>1, <2>3 DEF File!Next
<1>11. ASSUME NEW f \in Flag, Read(f) PROVE TrackerInv' /\ File!Next
  <2>1. TrackerInv' /\ Flags' = Flags /\ result' = <<Flags[f]>>
    BY <1>A, <1>11, ReadStep
  <2>2. File!Read(f)
    BY <1>11, <2>1 DEF Read, Flags, File!Read, File!Answer
  <2> QED
    BY <2>1, <2>2 DEF File!Next
<1>12. ASSUME NEW f \in Flag, NEW v \in Bit, HostWrite(f, v)
       PROVE TrackerInv' /\ File!Next
  <2>1. TrackerInv' /\ Flags' = [Flags EXCEPT ![f] = v]
    BY <1>A, <1>12, HostWriteStep
  <2>2. File!HostWrite(f, v)
    BY <1>12, <2>1 DEF HostWrite, NoResult, Flags, File!HostWrite, File!Assign, File!NoResult
  <2> QED
    BY <2>1, <2>2 DEF File!Next, Bit, File!Bit
<1>13. ASSUME NEW f \in Flag, NEW v \in Bit, Write(f, v)
       PROVE TrackerInv' /\ File!Next
  <2>1. TrackerInv' /\ Flags' = [Flags EXCEPT ![f] = v]
    BY <1>A, <1>13, WriteStep
  <2>2. File!Write(f, v)
    BY <1>13, <2>1 DEF Write, NoResult, Flags, File!Write, File!Assign, File!NoResult
  <2> QED
    BY <2>1, <2>2 DEF File!Next, Bit, File!Bit
<1>14. ASSUME NEW s \in Source, WriteSource(s) PROVE TrackerInv' /\ File!Next
  <2>1. TrackerInv' /\ Flags' = Derived[s]
    BY <1>A, <1>14, WriteSourceStep
  <2>2. File!WriteSource(s)
    BY <1>14, <2>1 DEF WriteSource, NoResult, Flags, File!WriteSource, File!Assign, File!NoResult
  <2> QED
    BY <2>1, <2>2 DEF File!Next
<1>15. ASSUME NEW s \in Source, Iterate(s) PROVE TrackerInv' /\ File!Next
  <2>1. TrackerInv' /\ Flags' = Derived[s]
    BY <1>A, <1>15, IterateStep
  <2>2. File!Iterate(s)
    BY <1>15, <2>1 DEF Iterate, Move, NoResult, Flags,
       File!Iterate, File!Move, File!Assign, File!NoResult
  <2> QED
    BY <2>1, <2>2 DEF File!Next
<1>16. ASSUME NEW cc \in Condition, Test(cc) PROVE TrackerInv' /\ File!Next
  <2>1. TrackerInv' /\ Flags' = Flags /\ result' = <<Holds(cc, Flags)>>
    BY <1>A, <1>16, TestStep
  <2>2. File!Test(cc)
    BY <1>16, <2>1 DEF Test, Holds, Flags, File!Test, File!Answer, File!Holds
  <2> QED
    BY <2>1, <2>2 DEF File!Next
<1> QED
  BY <1>0, <1>1, <1>2, <1>3, <1>4, <1>5, <1>6, <1>7, <1>8, <1>9, <1>10, <1>11,
     <1>12, <1>13, <1>14, <1>15, <1>16

LEMMA Stutter ==
    ASSUME TrackerInv, UNCHANGED vars
    PROVE  TrackerInv' /\ UNCHANGED File!vars
<1>1. UNCHANGED <<mem, fields, status, outer, phase, result, saved>>
  BY DEF vars
<1>2. Sound(fields, mem)' /\ StatusRecord(status)'
  BY <1>1 DEF TrackerInv
<1>3. Now' = Now /\ Architectural' = Architectural
  BY <1>1 DEF Now, Architectural
<1>4. StatusMatches' = StatusMatches
  BY <1>1, <1>3 DEF StatusMatches, FromMemory, FromResult, FromBytes, Unstored
<1>5. OuterKept' = OuterKept /\ FromResult(status)' = FromResult(status)
  BY <1>1, <1>3 DEF OuterKept, FromResult
<1> QED
  BY <1>1, <1>2, <1>3, <1>4, <1>5 DEF TrackerInv, File!vars

LEMMA StepInv == TrackerInv /\ [Next]_vars => TrackerInv' /\ [File!Next]_(File!vars)
BY NextStep, Stutter

\* The three facts of the tracker the runs check, from the invariant.
LEMMA InvType == TrackerInv => TypeOK
BY FlagAssumption DEF TrackerInv, Sound, MemoryOK, TrackedFields, StatusRecord, TypeOK,
   Contents, Field

LEMMA InvBackings == TrackerInv => BackingsMatchRecord
<1> SUFFICES ASSUME TrackerInv, phase # "looping"
             PROVE  /\ \A f \in Flag : Unresolved(status, {f}) = {} =>
                          Value(status, f) = Now[f]
                    /\ status.directSource # NoSource =>
                          Derived[status.directSource] = Now
  BY ArchitecturalIsNow DEF BackingsMatchRecord
<1>1. StatusMatches /\ StatusRecord(status)
  BY DEF TrackerInv
<1>2. ASSUME NEW f \in Flag, Unresolved(status, {f}) = {}
      PROVE  Value(status, f) = Now[f]
  <2>1. FromMemory(status) => f \in DOMAIN status.inputs
    BY <1>1, <1>2, BackedByMemory DEF Unresolved
  <2> QED
    BY <1>1, <2>1, ValueIsNow DEF StatusMatches
<1>3. status.directSource # NoSource => Derived[status.directSource] = Now
  BY <1>1 DEF StatusMatches, FromMemory, FromResult, FromBytes
<1> QED
  BY <1>2, <1>3

LEMMA InvDefaultArm == TrackerInv => DefaultArmIsInvisible
<1> SUFFICES ASSUME TrackerInv PROVE DefaultArmIsInvisible
  OBVIOUS
<1>1. ASSUME phase = "running", InputBacked(status) # {}
      PROVE  /\ InputBacked(status) = Flag
             /\ fields.dirty \subseteq DOMAIN fields.boundary
  BY <1>1, BackedByMemory DEF TrackerInv, StatusMatches, Unstored
<1> QED
  BY <1>1 DEF DefaultArmIsInvisible, TrackerInv, Sound, CleanHeld

LEMMA TrackerHolds == Spec => []TrackerInv
<1>1. Init => TrackerInv
  BY InitInv
<1> QED
  BY <1>1, StepInv, PTL DEF Spec

-----------------------------------------------------------------------------
(***************************************************************************)
(* What the tracker keeps has the shape the code gives it: entries for     *)
(* fields it knows, every dirty field among them, inputs of flags only     *)
(* (StatusFlagTracker and StateFieldTracker, tracker.ts).                  *)
(***************************************************************************)
THEOREM TrackerType == Spec => []TypeOK
BY TrackerHolds, InvType, PTL

(***************************************************************************)
(* A flag computed in the function, from the last result, a written byte   *)
(* or an answer of a resolver, is the flag memory will give after the      *)
(* pending stores: readFlag, writeSource and writeFlag keep the two        *)
(* accounts together.                                                      *)
(***************************************************************************)
THEOREM BackingsAgree == Spec => []BackingsMatchRecord
BY TrackerHolds, InvBackings, PTL

(***************************************************************************)
(* A raise inside an instruction gives back the flags the instruction, or  *)
(* the iteration of a REP, began with, whatever was stored since           *)
(* (flushesForPath("fault")).                                              *)
(***************************************************************************)
THEOREM RaiseRestoresFlags == Spec => []BoundaryRestoresFlags
BY TrackerHolds, PTL DEF TrackerInv, BoundaryRestoresFlags

(***************************************************************************)
(* The stores of the default arm of a condition over the record cannot be  *)
(* told from no stores by the code after it (#lazyInputCondition).         *)
(***************************************************************************)
THEOREM DefaultArmInvisible == Spec => []DefaultArmIsInvisible
BY TrackerHolds, InvDefaultArm, PTL

(***************************************************************************)
(* The lazy flags implement flags that are always up to date: every read,  *)
(* write, test and raise gives what StatusFlagFile gives.                  *)
(***************************************************************************)
THEOREM FlagsAreEager == Spec => EagerFlags
<1>1. Init => File!Init
  <2> SUFFICES ASSUME Init PROVE File!Init
    OBVIOUS
  <2>1. TrackerInv /\ Architectural = ImageIn(mem)
    BY InitInv
  <2>2. ImageIn(mem) \in [Flag -> Bit]
    BY <2>1, ImageType DEF TrackerInv, Sound, Image
  <2> QED
    BY <2>1, <2>2 DEF Init, File!Init, NoResult, File!NoResult, Bit, File!Bit
<1> QED
  BY <1>1, TrackerHolds, StepInv, PTL DEF Spec, EagerFlags, File!Spec

=============================================================================
