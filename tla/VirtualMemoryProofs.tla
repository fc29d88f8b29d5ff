------------------------ MODULE VirtualMemoryProofs -------------------------
(***************************************************************************)
(* Proofs about VirtualMemory for every page size and page count, and for  *)
(* every set of requests and host entries.                                 *)
(*                                                                         *)
(* The first part is arithmetic on pages.  The second says what the words  *)
(* of the resolution helpers mean (SoundWord): decoding one gives the      *)
(* fault, the refusal or the grant that looking at each byte would give.   *)
(* The third part carries the invariant Inv over each action together with *)
(* the abstract step it stands for.                                        *)
(***************************************************************************)
EXTENDS VirtualMemory, ModularArithmetic, TLAPS

\* The sizes are positive integers.
LEMMA Sizes ==
    /\ PageSize \in Nat /\ PageSize > 0
    /\ PageCount \in Nat /\ PageCount > 1
    /\ AddressCount \in Nat
    /\ AddressCount = Base(PageCount)
BY PageAssumption DEF AddressCount, Base

\* Base yields integers: outside the lemmas about it Base stays folded, since
\* the solver is poor at products of two constants.
LEMMA BaseInt ==
    ASSUME NEW p \in Int PROVE Base(p) \in Int
BY PageAssumption DEF Base

\* One page further is PageSize bytes further.
LEMMA Stride ==
    ASSUME NEW p \in Int, NEW q \in Int, p < q
    PROVE  Base(p) + PageSize <= Base(q)
<1>1. (q - p - 1) * PageSize >= 0
  BY PageAssumption
<1> QED BY <1>1, PageAssumption DEF Base

\* Base yields natural numbers on pages.
LEMMA BaseNat ==
    ASSUME NEW p \in Nat PROVE Base(p) \in Nat
BY PageAssumption DEF Base

\* An address lies in its page.
LEMMA Division ==
    ASSUME NEW a \in Nat
    PROVE  /\ PageOf(a) \in Nat
           /\ Offset(a) \in 0 .. PageSize - 1
           /\ Offset(a) \in Nat
           /\ a = Base(PageOf(a)) + Offset(a)
BY PageAssumption DEF PageOf, Offset, Base

\* Page and offset determine the address they came from.
LEMMA Composed ==
    ASSUME NEW p \in Nat, NEW o \in 0 .. PageSize - 1
    PROVE  /\ Base(p) + o \in Nat
           /\ PageOf(Base(p) + o) = p
           /\ Offset(Base(p) + o) = o
<1>1. PICK a \in Nat : a = Base(p) + o
  BY BaseNat, Sizes
<1>2. /\ PageOf(a) \in Nat
      /\ Offset(a) \in 0 .. PageSize - 1
      /\ a = Base(PageOf(a)) + Offset(a)
  BY Division
<1>3. Base(p) \in Int /\ Base(PageOf(a)) \in Int
  BY <1>2, BaseInt
<1>4. PageOf(a) = p
  <2>1. ASSUME PageOf(a) < p PROVE FALSE
    <3>1. Base(PageOf(a)) + PageSize <= Base(p)
      BY <2>1, <1>2, Stride
    <3> QED BY <3>1, <1>1, <1>2, <1>3, Sizes
  <2>2. ASSUME p < PageOf(a) PROVE FALSE
    <3>1. Base(p) + PageSize <= Base(PageOf(a))
      BY <2>2, <1>2, Stride
    <3> QED BY <3>1, <1>1, <1>2, <1>3, Sizes
  <2> QED BY <2>1, <2>2, <1>2
<1>5. Offset(a) = o
  BY <1>1, <1>2, <1>4, BaseNat, Sizes
<1> QED BY <1>1, <1>4, <1>5

\* Later addresses are on the same or a later page.
LEMMA PageMonotone ==
    ASSUME NEW a \in Nat, NEW b \in Nat, a <= b
    PROVE  PageOf(a) <= PageOf(b)
<1>1. /\ PageOf(a) \in Nat
      /\ PageOf(b) \in Nat
      /\ Offset(a) \in 0 .. PageSize - 1
      /\ Offset(b) \in 0 .. PageSize - 1
      /\ a = Base(PageOf(a)) + Offset(a)
      /\ b = Base(PageOf(b)) + Offset(b)
  BY Division
<1>2. Base(PageOf(a)) \in Int /\ Base(PageOf(b)) \in Int
  BY <1>1, BaseInt
<1>3. ASSUME PageOf(b) < PageOf(a) PROVE FALSE
  <2>1. Base(PageOf(b)) + PageSize <= Base(PageOf(a))
    BY <1>1, <1>3, Stride
  <2> QED BY <2>1, <1>1, <1>2, Sizes
<1> QED BY <1>1, <1>3

\* The page of an address is a page.
LEMMA AddressPages ==
    /\ \A a \in Address : a \in Nat /\ PageOf(a) \in Page
    /\ \A p \in Page, o \in 0 .. PageSize - 1 : Base(p) + o \in Address
<1>1. ASSUME NEW a \in Address PROVE a \in Nat /\ PageOf(a) \in Page
  <2>1. a \in Nat /\ a < Base(PageCount)
    BY Sizes DEF Address
  <2>2. /\ PageOf(a) \in Nat
        /\ Offset(a) \in 0 .. PageSize - 1
        /\ a = Base(PageOf(a)) + Offset(a)
    BY <2>1, Division
  <2>3. Base(PageCount) \in Int /\ Base(PageOf(a)) \in Int
    BY <2>2, BaseInt, Sizes
  <2>4. ASSUME PageCount < PageOf(a) PROVE FALSE
    <3>1. Base(PageCount) + PageSize <= Base(PageOf(a))
      BY <2>2, <2>4, Stride, Sizes
    <3> QED BY <3>1, <2>1, <2>2, <2>3, Sizes
  <2>5. PageCount # PageOf(a)
    BY <2>1, <2>2, <2>3
  <2> QED BY <2>1, <2>2, <2>4, <2>5, Sizes DEF Page
<1>2. ASSUME NEW p \in Page, NEW o \in 0 .. PageSize - 1
      PROVE  Base(p) + o \in Address
  <2>1. p \in Nat /\ p < PageCount
    BY Sizes DEF Page
  <2>2. Base(p) + PageSize <= Base(PageCount)
    BY <2>1, Stride, Sizes
  <2> QED BY <2>1, <2>2, BaseNat, Sizes DEF Address
<1> QED BY <1>1, <1>2

-----------------------------------------------------------------------------
(***************************************************************************)
(* Ranges and the pages they reach.                                        *)
(***************************************************************************)
Covered(r) == r.length > 0 /\ r.start + r.length <= AddressCount

Permitted(r, lo, hi) == \A p \in lo .. hi : ~EntryDenies(table[p], r.intent)

Sequential(lo, hi) ==
    \A p \in lo .. hi : table[p].frame = table[lo].frame + (p - lo)

Broken(lo, hi) == \E p \in lo .. hi - 1 : table[p + 1].frame # table[p].frame + 1

\* The fields of a request.
LEMMA RequestParts ==
    ASSUME NEW r \in Request
    PROVE  /\ r.start \in Address /\ r.start \in Nat
           /\ r.length \in Nat /\ r.length < AddressCount
           /\ r.intent \in Intent
           /\ r.form \in {"static", "general"}
           /\ r.mode \in {"detailed", "direct"}
           /\ r.form = "static" => r.length > 0 /\ r.length <= PageSize
           /\ RangeOf(r) \in Memory!Range
BY RequestAssumption, Sizes
   DEF RequestType, Address, RangeOf, Memory!Range, Memory!Address,
       Memory!AddressCount, Memory!Intent, AddressCount, Intent

\* Last(r) is below r.start exactly when the range wraps.
LEMMA LastOf ==
    ASSUME NEW r \in Request
    PROVE  /\ Last(r) \in Address
           /\ Covered(r) <=> r.length # 0 /\ ~(Last(r) < r.start)
           /\ Covered(r) => Last(r) = r.start + r.length - 1
<1>1. /\ r.start \in Nat /\ r.start < AddressCount
      /\ r.length \in Nat /\ r.length < AddressCount
      /\ AddressCount \in Nat /\ AddressCount > 0
  BY RequestParts, Sizes DEF Address
<1>2. PICK x \in Int : x = r.start + r.length - 1
  BY <1>1
<1>3. Last(r) = x % AddressCount /\ Last(r) \in 0 .. AddressCount - 1
  BY <1>1, <1>2 DEF Last
<1>4. ASSUME r.length > 0, x < AddressCount
      PROVE  Last(r) = x
  <2>1. x \in 0 .. AddressCount - 1 /\ x = 0 * AddressCount + x
    BY <1>1, <1>2, <1>4
  <2> QED BY <2>1, <1>1, <1>3, UniqueRemainder
<1>5. ASSUME x >= AddressCount
      PROVE  Last(r) = x - AddressCount
  <2>1. /\ x - AddressCount \in 0 .. AddressCount - 1
        /\ x = 1 * AddressCount + (x - AddressCount)
    BY <1>1, <1>2, <1>5
  <2> QED BY <2>1, <1>1, <1>3, UniqueRemainder
<1> QED BY <1>1, <1>2, <1>3, <1>4, <1>5 DEF Covered, Address

\* The pages a range touches are those from its first to its last.
LEMMA RangePages ==
    ASSUME NEW r \in Request, Covered(r)
    PROVE  /\ Last(r) = r.start + r.length - 1
           /\ PageOf(r.start) \in Page
           /\ PageOf(Last(r)) \in Page
           /\ PageOf(r.start) <= PageOf(Last(r))
           /\ Memory!Bytes(RangeOf(r)) = r.start .. Last(r)
           /\ \A a \in r.start .. Last(r) :
                 a \in Nat /\ PageOf(a) \in PageOf(r.start) .. PageOf(Last(r))
<1>1. /\ Last(r) \in Address /\ Last(r) = r.start + r.length - 1
      /\ r.start \in Nat /\ r.start \in Address
      /\ r.length \in Nat /\ r.length > 0 /\ Last(r) \in Nat
  BY LastOf, RequestParts, AddressPages DEF Covered
<1>2. PageOf(r.start) \in Page /\ PageOf(Last(r)) \in Page
  BY <1>1, AddressPages
<1>3. PageOf(r.start) <= PageOf(Last(r))
  BY <1>1, PageMonotone
<1>4. ASSUME NEW a \in r.start .. Last(r)
      PROVE  a \in Nat /\ PageOf(a) \in PageOf(r.start) .. PageOf(Last(r))
  <2>1. a \in Nat /\ r.start <= a /\ a <= Last(r)
    BY <1>1
  <2>2. /\ PageOf(r.start) <= PageOf(a) /\ PageOf(a) <= PageOf(Last(r))
        /\ PageOf(a) \in Nat
    BY <2>1, <1>1, PageMonotone, Division
  <2> QED BY <2>1, <2>2, <1>2 DEF Page
<1>5. Memory!Bytes(RangeOf(r)) = r.start .. Last(r)
  BY <1>1 DEF Memory!Bytes, RangeOf
<1> QED BY <1>1, <1>2, <1>3, <1>4, <1>5

\* The base of a later page of a range is a byte of the range, and the first
\* one of that page.
LEMMA PageBase ==
    ASSUME NEW r \in Request, Covered(r),
           NEW p \in PageOf(r.start) + 1 .. PageOf(Last(r))
    PROVE  /\ Base(p) \in r.start + 1 .. Last(r)
           /\ PageOf(Base(p)) = p
           /\ Offset(Base(p)) = 0
           /\ \A b \in r.start .. Base(p) - 1 :
                 PageOf(b) \in PageOf(r.start) .. p - 1
<1>1. /\ Last(r) \in Nat /\ r.start \in Nat
      /\ PageOf(r.start) \in Nat /\ PageOf(Last(r)) \in Nat
      /\ p \in Nat
      /\ PageOf(r.start) <= PageOf(Last(r))
  BY RangePages, RequestParts, LastOf, AddressPages, Sizes DEF Page
<1>2. /\ Base(p) \in Nat
      /\ PageOf(Base(p)) = p
      /\ Offset(Base(p)) = 0
  <2>1. 0 \in 0 .. PageSize - 1
    BY Sizes
  <2>2. Base(p) \in Nat /\ Base(p) + 0 = Base(p)
    BY <1>1, BaseNat
  <2> QED BY <1>1, <2>1, <2>2, Composed
<1>3. ASSUME NEW b \in Nat, b < Base(p)
      PROVE  PageOf(b) < p
  <2>1. /\ PageOf(b) \in Nat /\ Offset(b) \in 0 .. PageSize - 1
        /\ b = Base(PageOf(b)) + Offset(b)
        /\ Base(PageOf(b)) \in Nat
    BY Division, BaseNat
  <2>2. ASSUME p < PageOf(b) PROVE FALSE
    <3>1. Base(p) + PageSize <= Base(PageOf(b))
      BY <2>1, <2>2, <1>1, Stride
    <3> QED BY <3>1, <2>1, <1>2, <1>3, Sizes
  <2>3. PageOf(b) # p
    BY <2>1, <1>3, <1>2, Sizes
  <2> QED BY <2>1, <2>2, <2>3, <1>1
<1>4. ~(Last(r) < Base(p))
  BY <1>1, <1>3
<1>5. ASSUME Base(p) <= r.start PROVE FALSE
  <2>1. p <= PageOf(r.start)
    BY <1>1, <1>2, <1>5, PageMonotone
  <2> QED BY <2>1, <1>1
<1>6. ASSUME NEW b \in r.start .. Base(p) - 1
      PROVE  PageOf(b) \in PageOf(r.start) .. p - 1
  <2>1. b \in Nat /\ r.start <= b /\ b < Base(p)
    BY <1>1, <1>2
  <2>2. PageOf(b) \in Nat /\ PageOf(r.start) <= PageOf(b) /\ PageOf(b) < p
    BY <2>1, <1>1, <1>3, PageMonotone, Division
  <2> QED BY <2>2, <1>1
<1> QED BY <1>1, <1>2, <1>4, <1>5, <1>6

\* A range is allowed when each of its pages permits the access.
LEMMA AllowedPages ==
    ASSUME NEW r \in Request
    PROVE  Memory!Allowed(RangeOf(r)) <=>
             Covered(r) /\ Permitted(r, PageOf(r.start), PageOf(Last(r)))
<1>1. Memory!Proper(RangeOf(r)) <=> Covered(r)
  BY DEF Memory!Proper, RangeOf, Covered, Memory!AddressCount, AddressCount
<1>2. \A a : Memory!Denied(a, r.intent) <=>
             EntryDenies(table[PageOf(a)], r.intent)
  BY DEF Memory!Denied, Memory!EntryDenies, EntryDenies, Memory!PageOf, PageOf
<1>3. Memory!Allowed(RangeOf(r)) <=>
        /\ Covered(r)
        /\ \A a \in Memory!Bytes(RangeOf(r)) :
              ~EntryDenies(table[PageOf(a)], r.intent)
  BY <1>1, <1>2 DEF Memory!Allowed, RangeOf
<1>4. ASSUME Covered(r), Permitted(r, PageOf(r.start), PageOf(Last(r)))
      PROVE  \A a \in Memory!Bytes(RangeOf(r)) :
                ~EntryDenies(table[PageOf(a)], r.intent)
  BY <1>4, RangePages DEF Permitted
<1>5. ASSUME Covered(r),
             \A a \in Memory!Bytes(RangeOf(r)) :
                ~EntryDenies(table[PageOf(a)], r.intent)
      PROVE  Permitted(r, PageOf(r.start), PageOf(Last(r)))
  <2> SUFFICES ASSUME NEW p \in PageOf(r.start) .. PageOf(Last(r))
               PROVE  ~EntryDenies(table[p], r.intent)
    BY DEF Permitted
  <2>1. /\ Memory!Bytes(RangeOf(r)) = r.start .. Last(r)
        /\ r.start \in Nat /\ Last(r) \in Int /\ r.start <= Last(r)
        /\ PageOf(r.start) \in Nat /\ PageOf(Last(r)) \in Nat
    BY <1>5, RangePages, RequestParts, Sizes DEF Page, Covered
  <2>2. CASE p = PageOf(r.start)
    BY <2>1, <2>2, <1>5
  <2>3. CASE p # PageOf(r.start)
    <3>1. p \in PageOf(r.start) + 1 .. PageOf(Last(r))
      BY <2>1, <2>3
    <3>2. Base(p) \in r.start .. Last(r) /\ PageOf(Base(p)) = p
      BY <3>1, <1>5, <2>1, PageBase
    <3> QED BY <3>2, <2>1, <1>5
  <2> QED BY <2>2, <2>3
<1> QED BY <1>3, <1>4, <1>5

\* Base is linear: frames shifted by a difference move by whole pages.
LEMMA BaseAdds ==
    ASSUME NEW x \in Int, NEW y \in Int, NEW z \in Int,
           NEW w \in Int, w = x + (y - z)
    PROVE  Base(w) = Base(x) + Base(y) - Base(z)
BY PageAssumption DEF Base

\* Frames in the table are pages.
LEMMA Frames ==
    ASSUME table \in [Page -> Entry], NEW p \in Page
    PROVE  table[p].frame \in Nat /\ table[p].frame \in Page
BY Sizes DEF Entry, Page

\* Consecutive frames make the translation of the range one run of bytes.
LEMMA SequentialContiguous ==
    ASSUME table \in [Page -> Entry], NEW r \in Request, Covered(r),
           Sequential(PageOf(r.start), PageOf(Last(r))),
           NEW a \in r.start .. Last(r)
    PROVE  Memory!Translate(a) = Memory!Translate(r.start) + (a - r.start)
<1>1. /\ a \in Nat /\ PageOf(a) \in PageOf(r.start) .. PageOf(Last(r))
      /\ r.start \in Nat
      /\ PageOf(r.start) \in Page /\ PageOf(Last(r)) \in Page
  BY RangePages, RequestParts
<1>2. /\ PageOf(a) \in Nat /\ PageOf(r.start) \in Nat
      /\ Offset(a) \in Int /\ Offset(r.start) \in Int
      /\ a = Base(PageOf(a)) + Offset(a)
      /\ r.start = Base(PageOf(r.start)) + Offset(r.start)
      /\ Base(PageOf(a)) \in Int /\ Base(PageOf(r.start)) \in Int
  BY <1>1, Division, BaseInt, Sizes
<1>3. PICK f \in Nat : f = table[PageOf(r.start)].frame
  BY <1>1, Frames
<1>4. table[PageOf(a)].frame = f + (PageOf(a) - PageOf(r.start))
  BY <1>1, <1>3 DEF Sequential
<1>5. Base(table[PageOf(a)].frame)
        = Base(f) + Base(PageOf(a)) - Base(PageOf(r.start))
  BY <1>2, <1>3, <1>4, BaseAdds
<1>6. /\ Memory!Translate(a) = Base(table[PageOf(a)].frame) + Offset(a)
      /\ Memory!Translate(r.start) = Base(f) + Offset(r.start)
  BY <1>3 DEF Memory!Translate, Memory!Base, Memory!PageOf, Memory!Offset,
              Base, PageOf, Offset
<1>7. Base(f) \in Int
  BY <1>3, BaseInt
<1> QED BY <1>2, <1>5, <1>6, <1>7

\* A range over sequential frames is contiguous.
LEMMA ContiguousWhenSequential ==
    ASSUME table \in [Page -> Entry], NEW r \in Request, Covered(r),
           Sequential(PageOf(r.start), PageOf(Last(r)))
    PROVE  Memory!Contiguous(RangeOf(r))
<1>1. Memory!Bytes(RangeOf(r)) = r.start .. Last(r)
  BY RangePages
<1> QED BY <1>1, SequentialContiguous DEF Memory!Contiguous, RangeOf

\* Where the frames are not consecutive the bytes on the two sides of the
\* page boundary are not neighbours.
LEMMA BrokenNotContiguous ==
    ASSUME table \in [Page -> Entry], NEW r \in Request, Covered(r),
           Broken(PageOf(r.start), PageOf(Last(r)))
    PROVE  ~Memory!Contiguous(RangeOf(r))
<1>1. /\ Last(r) \in Nat /\ r.start \in Nat
      /\ PageOf(r.start) \in Page /\ PageOf(Last(r)) \in Page
      /\ PageOf(r.start) \in Nat /\ PageOf(Last(r)) \in Nat
      /\ Memory!Bytes(RangeOf(r)) = r.start .. Last(r)
  BY RangePages, RequestParts, LastOf, AddressPages, Sizes DEF Page
<1>2. PICK p \in PageOf(r.start) .. PageOf(Last(r)) - 1 :
         table[p + 1].frame # table[p].frame + 1
  BY DEF Broken
<1>3. /\ p \in Nat /\ p \in Page /\ p + 1 \in Page
      /\ p + 1 \in PageOf(r.start) + 1 .. PageOf(Last(r))
  BY <1>1, <1>2, Sizes DEF Page
<1>4. /\ Base(p + 1) \in r.start + 1 .. Last(r)
      /\ PageOf(Base(p + 1)) = p + 1
      /\ Offset(Base(p + 1)) = 0
  BY <1>3, PageBase
<1>5. /\ Base(p + 1) = Base(p) + PageSize
      /\ Base(p) \in Nat
  BY <1>3, BaseNat, PageAssumption DEF Base
<1>6. /\ PageOf(Base(p) + (PageSize - 1)) = p
      /\ Offset(Base(p) + (PageSize - 1)) = PageSize - 1
  BY <1>3, Composed, Sizes
<1>7. PICK b \in Nat : b = Base(p) + (PageSize - 1)
  BY <1>5, Sizes
<1>8. /\ b \in r.start .. Last(r)
      /\ b + 1 \in r.start .. Last(r)
      /\ b + 1 = Base(p + 1)
  <2>1. b + 1 = Base(p + 1) /\ b \in Int
    BY <1>5, <1>7, Sizes
  <2>2. Base(p + 1) \in Int /\ r.start + 1 <= Base(p + 1) /\ Base(p + 1) <= Last(r)
    BY <1>1, <1>4
  <2> QED BY <2>1, <2>2, <1>1
<1>9. PICK f \in Nat, g \in Nat :
         f = table[p].frame /\ g = table[p + 1].frame
  BY <1>3, Frames
<1>10. /\ Memory!Translate(b) = Base(f) + (PageSize - 1)
       /\ Memory!Translate(b + 1) = Base(g) + 0
  BY <1>4, <1>6, <1>7, <1>8, <1>9
     DEF Memory!Translate, Memory!Base, Memory!PageOf, Memory!Offset,
         Base, PageOf, Offset
<1>11. SUFFICES ASSUME Memory!Contiguous(RangeOf(r)) PROVE FALSE
  OBVIOUS
<1>12. /\ Memory!Translate(b) = Memory!Translate(r.start) + (b - r.start)
       /\ Memory!Translate(b + 1) =
             Memory!Translate(r.start) + ((b + 1) - r.start)
  BY <1>1, <1>8, <1>11 DEF Memory!Contiguous, RangeOf
<1>13. Memory!Translate(r.start) \in Int
  <2>1. Memory!Translate(r.start) =
          Base(table[PageOf(r.start)].frame) + Offset(r.start)
    BY DEF Memory!Translate, Memory!Base, Memory!PageOf, Memory!Offset,
           Base, PageOf, Offset
  <2>2. table[PageOf(r.start)].frame \in Int
    BY <1>1, Frames
  <2>3. Base(table[PageOf(r.start)].frame) \in Int
    BY <2>2, BaseInt
  <2>4. Offset(r.start) \in Int
    <3>1. PICK s \in Nat : s = r.start
      BY <1>1
    <3>2. Offset(s) \in Nat
      BY <3>1, Division
    <3> QED BY <3>1, <3>2
  <2> QED BY <2>1, <2>3, <2>4
<1>14. Base(g) = Base(f) + PageSize
  <2>1. Base(f) \in Int /\ Base(g) \in Int
    BY <1>9, BaseInt
  <2>2. PICK t \in Int : t = Memory!Translate(r.start)
    BY <1>13
  <2>3. /\ Base(f) + (PageSize - 1) = t + (b - r.start)
        /\ Base(g) = t + ((b + 1) - r.start)
    BY <2>1, <2>2, <1>10, <1>12
  <2>4. PICK s \in Nat : s = r.start
    BY <1>1
  <2>5. /\ Base(f) + (PageSize - 1) = t + (b - s)
        /\ Base(g) = t + ((b + 1) - s)
    BY <2>3, <2>4
  <2> QED BY <2>1, <2>2, <2>4, <2>5, <1>7, Sizes
<1>15. Base(f + 1) = Base(f) + PageSize
  BY PageAssumption DEF Base
<1>16. ASSUME NEW x \in Nat, NEW y \in Nat, Base(x) = Base(y) PROVE x = y
  <2>1. Base(x) \in Nat /\ Base(y) \in Nat
    BY BaseNat
  <2>2. ASSUME x < y PROVE FALSE
    <3>1. Base(x) + PageSize <= Base(y)
      BY <2>2, Stride
    <3> QED BY <3>1, <2>1, <1>16, Sizes
  <2>3. ASSUME y < x PROVE FALSE
    <3>1. Base(y) + PageSize <= Base(x)
      BY <2>3, Stride
    <3> QED BY <3>1, <2>1, <1>16, Sizes
  <2> QED BY <2>2, <2>3
<1>17. g = f + 1
  BY <1>14, <1>15, <1>16
<1> QED BY <1>2, <1>9, <1>17

-----------------------------------------------------------------------------
(***************************************************************************)
(* Result words.  A word is sound for a range when decoding it does what   *)
(* looking at every byte of the range would do.                            *)
(***************************************************************************)
Word == [present : BOOLEAN, writable : BOOLEAN, frame : Page,
         later : BOOLEAN, scattered : BOOLEAN]

Granted(r, frame, scattered) ==
    /\ Covered(r)
    /\ Permitted(r, PageOf(r.start), PageOf(Last(r)))
    /\ frame = table[PageOf(r.start)].frame
    /\ ~scattered => Sequential(PageOf(r.start), PageOf(Last(r)))
    /\ scattered => Broken(PageOf(r.start), PageOf(Last(r)))

SoundWord(r, w) ==
    /\ w \in Word
    /\ EntryDenies(w, r.intent) =>
          /\ FaultOf(r, w) \in Memory!RefusalOf(RangeOf(r))
          /\ ~Memory!Allowed(RangeOf(r))
    /\ ~EntryDenies(w, r.intent) =>
          ~w.later /\ Granted(r, w.frame, w.scattered)

\* The zero word refuses a range that is empty or wraps.
LEMMA ZeroWordSound ==
    ASSUME NEW r \in Request, ~Covered(r)
    PROVE  SoundWord(r, ZeroWord)
<1>1. ZeroWord \in Word
  BY Sizes DEF ZeroWord, Word, Page
<1>2. EntryDenies(ZeroWord, r.intent)
  BY DEF EntryDenies, ZeroWord
<1>3. ~Memory!Proper(RangeOf(r))
  BY DEF Memory!Proper, RangeOf, Covered, Memory!AddressCount, AddressCount
<1>4. FaultOf(r, ZeroWord) = Memory!Faulted(RangeOf(r), r.start, FALSE)
  BY DEF FaultOf, ZeroWord, Faulted, Memory!Faulted
<1>5. FaultOf(r, ZeroWord) \in Memory!RefusalOf(RangeOf(r))
  BY <1>3, <1>4 DEF Memory!RefusalOf, RangeOf
<1> QED BY <1>1, <1>2, <1>3, <1>5 DEF SoundWord, Memory!Allowed

\* The first denied byte of a range whose pages before p permit the access.
LEMMA FirstDenied ==
    ASSUME table \in [Page -> Entry], NEW r \in Request, Covered(r),
           NEW a \in r.start .. Last(r),
           EntryDenies(table[PageOf(a)], r.intent),
           \A b \in r.start .. a - 1 : ~EntryDenies(table[PageOf(b)], r.intent)
    PROVE  /\ Faulted(r, a, table[PageOf(a)].present)
                \in Memory!RefusalOf(RangeOf(r))
           /\ ~Memory!Allowed(RangeOf(r))
<1>1. Memory!Bytes(RangeOf(r)) = r.start .. Last(r)
  BY RangePages
<1>2. r.start \in Int /\ Last(r) \in Int
  BY RequestParts, LastOf, AddressPages
<1>3. Memory!Proper(RangeOf(r))
  BY DEF Memory!Proper, RangeOf, Covered, Memory!AddressCount, AddressCount
<1>4. \A b : Memory!Denied(b, r.intent) <=>
             EntryDenies(table[PageOf(b)], r.intent)
  BY DEF Memory!Denied, Memory!EntryDenies, EntryDenies, Memory!PageOf, PageOf
<1>5. /\ a \in Memory!Bytes(RangeOf(r))
      /\ Memory!Denied(a, RangeOf(r).intent)
      /\ \A b \in Memory!Bytes(RangeOf(r)) :
            b < a => ~Memory!Denied(b, RangeOf(r).intent)
  BY <1>1, <1>2, <1>4 DEF RangeOf
<1>6. Faulted(r, a, table[PageOf(a)].present) =
        Memory!Faulted(RangeOf(r), a, table[Memory!PageOf(a)].present)
  BY DEF Faulted, Memory!Faulted, Memory!PageOf, PageOf
<1>7. Faulted(r, a, table[PageOf(a)].present)
        \in Memory!RefusalOf(RangeOf(r))
  BY <1>3, <1>5, <1>6 DEF Memory!RefusalOf
<1> QED BY <1>5, <1>7 DEF Memory!Allowed, RangeOf

\* A denied first entry is the fault the abstract memory names.
LEMMA FirstEntryDenied ==
    ASSUME table \in [Page -> Entry], NEW r \in Request, Covered(r),
           EntryDenies(table[PageOf(r.start)], r.intent)
    PROVE  SoundWord(r, WordOf(table[PageOf(r.start)]))
<1>1. /\ PageOf(r.start) \in Page
      /\ table[PageOf(r.start)] \in Entry
      /\ r.start \in Int /\ Last(r) \in Int /\ r.start <= Last(r)
  BY RangePages, RequestParts, LastOf, AddressPages DEF Covered
<1>2. WordOf(table[PageOf(r.start)]) \in Word
  BY <1>1 DEF WordOf, Word, Entry
<1>3. EntryDenies(WordOf(table[PageOf(r.start)]), r.intent)
  BY DEF EntryDenies, WordOf
<1>4. /\ Faulted(r, r.start, table[PageOf(r.start)].present)
           \in Memory!RefusalOf(RangeOf(r))
      /\ ~Memory!Allowed(RangeOf(r))
  BY <1>1, FirstDenied
<1> QED BY <1>2, <1>3, <1>4 DEF SoundWord, FaultOf, WordOf

\* So is the first denied later page, at its first byte.
LEMMA LaterDenialSound ==
    ASSUME table \in [Page -> Entry], NEW r \in Request, Covered(r),
           NEW p \in PageOf(r.start) + 1 .. PageOf(Last(r)),
           Permitted(r, PageOf(r.start), p - 1),
           EntryDenies(table[p], r.intent)
    PROVE  SoundWord(r, LaterDenialWord(p, table[p]))
<1>1. /\ p \in Page
      /\ table[p] \in Entry
      /\ r.start \in Int /\ Last(r) \in Int
  <2>1. /\ PageOf(r.start) \in 0 .. PageCount - 1
        /\ PageOf(Last(r)) \in 0 .. PageCount - 1
        /\ PageCount \in Nat
    BY RangePages, Sizes DEF Page
  <2>2. p \in Page
    BY <2>1 DEF Page
  <2>3. r.start \in Int /\ Last(r) \in Int
    BY RequestParts, LastOf, AddressPages
  <2> QED BY <2>2, <2>3
<1>2. LaterDenialWord(p, table[p]) \in Word
  BY <1>1 DEF LaterDenialWord, Word, Entry
<1>3. EntryDenies(LaterDenialWord(p, table[p]), r.intent)
  BY DEF EntryDenies, LaterDenialWord
<1>4. /\ Base(p) \in r.start .. Last(r)
      /\ PageOf(Base(p)) = p
      /\ \A b \in r.start .. Base(p) - 1 :
            PageOf(b) \in PageOf(r.start) .. p - 1
  BY <1>1, PageBase
<1>5. /\ Faulted(r, Base(p), table[PageOf(Base(p))].present)
           \in Memory!RefusalOf(RangeOf(r))
      /\ ~Memory!Allowed(RangeOf(r))
  BY <1>4, FirstDenied DEF Permitted
<1> QED BY <1>2, <1>3, <1>4, <1>5 DEF SoundWord, FaultOf, LaterDenialWord

\* A success word grants the range, and its mark tells contiguity.
LEMMA SuccessSound ==
    ASSUME table \in [Page -> Entry], NEW r \in Request,
           NEW scattered \in BOOLEAN,
           Granted(r, table[PageOf(r.start)].frame, scattered)
    PROVE  SoundWord(r, SuccessWord(table[PageOf(r.start)], scattered))
<1>1. Covered(r)
  BY DEF Granted
<1>2. /\ PageOf(r.start) \in Page /\ PageOf(Last(r)) \in Page
      /\ PageOf(r.start) \in PageOf(r.start) .. PageOf(Last(r))
      /\ table[PageOf(r.start)] \in Entry
  BY <1>1, RangePages, Sizes DEF Page
<1>3. SuccessWord(table[PageOf(r.start)], scattered) =
        [present |-> table[PageOf(r.start)].present,
         writable |-> table[PageOf(r.start)].writable,
         frame |-> table[PageOf(r.start)].frame,
         later |-> FALSE, scattered |-> scattered]
  BY DEF SuccessWord, WordOf
<1>4. ~EntryDenies(SuccessWord(table[PageOf(r.start)], scattered), r.intent)
  BY <1>2, <1>3 DEF Granted, Permitted, EntryDenies
<1> QED BY <1>2, <1>3, <1>4 DEF SoundWord, Word, Entry

\* On a single page the first entry decides.
LEMMA SinglePageSound ==
    ASSUME table \in [Page -> Entry], NEW r \in Request, Covered(r),
           PageOf(r.start) = PageOf(Last(r))
    PROVE  SoundWord(r, WordOf(table[PageOf(r.start)]))
<1>1. CASE EntryDenies(table[PageOf(r.start)], r.intent)
  BY <1>1, FirstEntryDenied
<1>2. CASE ~EntryDenies(table[PageOf(r.start)], r.intent)
  <2>1. /\ PageOf(r.start) \in Nat
        /\ table[PageOf(r.start)].frame \in Nat
        /\ table[PageOf(r.start)] \in Entry
    BY RangePages, Frames, Sizes DEF Page
  <2>2. Granted(r, table[PageOf(r.start)].frame, FALSE)
    BY <2>1, <1>2 DEF Granted, Permitted, Sequential
  <2>3. SuccessWord(table[PageOf(r.start)], FALSE) =
          WordOf(table[PageOf(r.start)])
    BY DEF SuccessWord, WordOf
  <2> QED BY <2>2, <2>3, SuccessSound
<1> QED BY <1>1, <1>2

-----------------------------------------------------------------------------
(***************************************************************************)
(* Static ranges.                                                          *)
(***************************************************************************)
\* A multiple of n below a multiple of n is at least n below it.
LEMMA AlignedOffset ==
    ASSUME NEW n \in {2, 4}, NEW a \in Nat, a % n = 0
    PROVE  Offset(a) + n <= PageSize
<1>1. PICK q \in Nat, o \in Nat :
         q = PageOf(a) /\ o = Offset(a) /\ a = Base(q) + o /\ o < PageSize
  BY Division, Sizes
<1>2. PICK k \in Nat : PageSize = n * k
  <2> DEFINE j == PageSize \div 4
  <2>3. j \in Nat /\ PageSize = 4 * j
    BY PageAssumption
  <2>1. CASE n = 4
    BY <2>1, <2>3
  <2>2. CASE n = 2
    <3>1. 2 * j \in Nat /\ PageSize = 2 * (2 * j)
      BY <2>3
    <3> QED BY <3>1, <2>2
  <2> QED BY <2>1, <2>2
<1>3. PICK m \in Nat : a = n * m
  <2>1. CASE n = 4
    BY <2>1
  <2>2. CASE n = 2
    BY <2>2
  <2> QED BY <2>1, <2>2
<1>4. PICK d \in Nat : d = q * k
  OBVIOUS
<1>5. Base(q) = n * d
  <2>1. Base(q) = q * (n * k)
    BY <1>2 DEF Base
  <2>2. q * (n * k) = n * (q * k)
    OBVIOUS
  <2> QED BY <2>1, <2>2, <1>4
<1>6. o = n * (m - d)
  <2>1. n * m = n * d + o
    BY <1>1, <1>3, <1>5
  <2> QED BY <2>1, <1>1
<1>7. m - d < k
  BY <1>1, <1>2, <1>6
<1>8. o + n <= PageSize
  <2>1. CASE n = 4
    BY <2>1, <1>2, <1>6, <1>7
  <2>2. CASE n = 2
    BY <2>2, <1>2, <1>6, <1>7
  <2> QED BY <2>1, <2>2
<1> QED BY <1>1, <1>8

\* The test without a helper is exact for the ranges it lets through.
LEMMA StaysOnOnePage ==
    ASSUME NEW r \in Request, r.form = "static", StaysOnPage(r)
    PROVE  Covered(r) /\ PageOf(r.start) = PageOf(Last(r))
<1>1. PICK a \in Nat, n \in Nat :
         /\ a = r.start /\ n = r.length /\ a \in Address
         /\ n > 0 /\ n <= PageSize
  BY RequestParts
<1>2. PICK q \in Nat, o \in Nat :
         /\ q = PageOf(a) /\ o = Offset(a) /\ a = Base(q) + o
         /\ o < PageSize /\ q \in Page
  BY <1>1, Division, AddressPages, Sizes
<1>3. o + n <= PageSize
  <2>1. CASE n = 1
    BY <2>1, <1>2, Sizes
  <2>2. CASE n \in {2, 4} /\ n # 1
    <3>1. a % n = 0
      BY <2>2, <1>1 DEF StaysOnPage, StaticRangeNeedsHelper
    <3> QED BY <3>1, <2>2, <1>2, AlignedOffset
  <2>3. CASE n \notin {1, 2, 4}
    <3>1. ~(o > PageSize - n)
      BY <2>3, <1>1, <1>2 DEF StaysOnPage, StaticRangeNeedsHelper
    <3> QED BY <3>1, <1>2, Sizes
  <2> QED BY <2>1, <2>2, <2>3
<1>4. PICK u \in 0 .. PageSize - 1 : u = o + n - 1
  BY <1>1, <1>3, Sizes
<1>5. /\ Base(q) + u \in Nat /\ Base(q) + u \in Address
      /\ PageOf(Base(q) + u) = q
  BY <1>2, <1>4, Composed, AddressPages
<1>6. Base(q) \in Nat
  BY BaseNat
<1>7. Base(q) + u = a + n - 1
  <2>1. n \in Int
    BY <1>1
  <2>2. o \in Int /\ a = Base(q) + o
    BY <1>2
  <2>3. u \in Int /\ u = o + n - 1
    BY <1>4, Sizes
  <2> QED BY <2>1, <2>2, <2>3, <1>6
<1>8. a + n <= AddressCount
  BY <1>5, <1>6, <1>7, Sizes DEF Address
<1>9. Covered(r)
  BY <1>1, <1>8 DEF Covered
<1>10. Last(r) = a + n - 1
  BY <1>1, <1>9, LastOf
<1> QED BY <1>1, <1>2, <1>5, <1>7, <1>9, <1>10

\* A range of at most a page that starts and ends on one page does not wrap.
LEMMA SamePageCovered ==
    ASSUME NEW r \in Request, r.form = "static",
           PageOf(r.start) = PageOf(Last(r))
    PROVE  Covered(r)
<1>1. PICK a \in Nat, n \in Nat, l \in Nat :
         /\ a = r.start /\ n = r.length /\ l = Last(r)
         /\ n > 0 /\ n <= PageSize /\ n < AddressCount
         /\ a \in Address
  BY RequestParts, LastOf, AddressPages
<1>2. SUFFICES ASSUME ~Covered(r) PROVE FALSE
  OBVIOUS
<1>3. l < a
  BY <1>1, <1>2, LastOf
<1>4. /\ a = Base(PageOf(a)) + Offset(a) /\ l = Base(PageOf(l)) + Offset(l)
      /\ Offset(a) \in 0 .. PageSize - 1 /\ Offset(l) \in 0 .. PageSize - 1
      /\ PageOf(a) \in Nat /\ PageOf(l) = PageOf(a)
  BY <1>1, Division
<1>5. Base(PageOf(a)) \in Nat
  BY <1>4, BaseNat
<1>6. a - l < PageSize
  BY <1>4, <1>5, Sizes
<1>7. 2 * PageSize <= AddressCount
  <2>1. (PageCount - 2) * PageSize >= 0
    BY Sizes
  <2> QED BY <2>1, Sizes DEF AddressCount
<1>8. a + n > AddressCount
  BY <1>1, <1>2, Sizes DEF Covered
<1>9. l = a + n - 1 - AddressCount
  <2>1. a < AddressCount
    BY <1>1, Sizes DEF Address
  <2>2. PICK x \in Int, y \in Int : x = a + n - 1 /\ y = x - AddressCount
    BY <1>1, Sizes
  <2>3. y \in 0 .. AddressCount - 1 /\ x = 1 * AddressCount + y
    BY <1>1, <1>8, <2>1, <2>2, Sizes
  <2>4. x % AddressCount = y
    BY <2>3, <1>1, UniqueRemainder, Sizes
  <2>5. Last(r) = x % AddressCount
    BY <1>1, <2>2 DEF Last
  <2>6. l = x - AddressCount
    BY <2>2, <2>4, <2>5, <1>1
  <2>7. a \in Nat /\ n \in Nat
    BY <1>1
  <2> QED BY <2>2, <2>6, <2>7, Sizes
<1> QED BY <1>1, <1>6, <1>7, <1>9, Sizes

\* A static range touches at most two pages.
LEMMA AtMostTwoPages ==
    ASSUME NEW r \in Request, r.form = "static", Covered(r)
    PROVE  PageOf(Last(r)) <= PageOf(r.start) + 1
<1>1. PICK a \in Nat, n \in Nat, l \in Nat :
         /\ a = r.start /\ n = r.length /\ l = Last(r)
         /\ n > 0 /\ n <= PageSize /\ l = a + n - 1
  BY RequestParts, LastOf, AddressPages
<1>2. PICK p \in Nat, q \in Nat : p = PageOf(a) /\ q = PageOf(l)
  BY Division
<1>3. /\ a = Base(p) + Offset(a) /\ l = Base(q) + Offset(l)
      /\ Offset(a) \in 0 .. PageSize - 1 /\ Offset(l) \in 0 .. PageSize - 1
      /\ Base(p) \in Nat /\ Base(q) \in Nat
  BY <1>2, Division, BaseNat
<1>4. ASSUME p + 1 < q PROVE FALSE
  <2>1. Base(p + 1) = Base(p) + PageSize
    BY PageAssumption DEF Base
  <2>2. Base(p + 1) + PageSize <= Base(q)
    BY <1>4, Stride
  <2> QED BY <2>1, <2>2, <1>1, <1>3, Sizes
<1> QED BY <1>1, <1>2, <1>4

\* What the frame after f is, and when it wraps.
LEMMA FrameStep ==
    ASSUME NEW f \in Page
    PROVE  /\ FrameAfter(f) \in Page
           /\ FrameWraps(f) <=> f + 1 = PageCount
           /\ ~FrameWraps(f) => FrameAfter(f) = f + 1
<1>1. f \in Nat /\ f < PageCount
  BY Sizes DEF Page
<1>2. CASE f + 1 < PageCount
  <2>1. /\ f + 1 \in 0 .. PageCount - 1 /\ f + 1 \in Int
        /\ f + 1 = 0 * PageCount + (f + 1)
    BY <1>1, <1>2, Sizes
  <2>2. FrameAfter(f) = f + 1
    BY <2>1, UniqueRemainder, Sizes DEF FrameAfter
  <2> QED BY <1>1, <1>2, <2>1, <2>2 DEF FrameWraps, Page
<1>3. CASE f + 1 = PageCount
  <2>1. /\ 0 \in 0 .. PageCount - 1 /\ f + 1 \in Int
        /\ f + 1 = 1 * PageCount + 0
    BY <1>1, <1>3, Sizes
  <2>2. FrameAfter(f) = 0
    BY <2>1, UniqueRemainder, Sizes DEF FrameAfter
  <2> QED BY <1>1, <1>3, <2>1, <2>2, Sizes DEF FrameWraps, Page
<1> QED BY <1>1, <1>2, <1>3, Sizes

\* Two pages are sequential or broken as framesAreNotSequential says.
LEMMA TwoFrames ==
    ASSUME table \in [Page -> Entry], NEW p \in Page, NEW q \in Page,
           q = p + 1
    PROVE  /\ FramesAreNotSequential(table[p], table[q]) => Broken(p, q)
           /\ ~FramesAreNotSequential(table[p], table[q]) => Sequential(p, q)
<1>1. p \in Nat /\ q \in Nat
  BY Sizes DEF Page
<1>2. PICK f \in Page, g \in Page :
         f = table[p].frame /\ g = table[q].frame
  BY Frames
<1>3. f \in Nat /\ g \in Nat /\ f < PageCount /\ g < PageCount
  BY Sizes DEF Page
<1>4. FramesAreNotSequential(table[p], table[q]) <=> g # f + 1
  BY <1>2, <1>3, FrameStep, Sizes DEF FramesAreNotSequential
<1>5. g # f + 1 => Broken(p, q)
  <2>1. p \in p .. q - 1
    BY <1>1
  <2> QED BY <2>1, <1>2 DEF Broken
<1>6. g = f + 1 => Sequential(p, q)
  <2> SUFFICES ASSUME g = f + 1, NEW x \in p .. q
               PROVE  table[x].frame = table[p].frame + (x - p)
    BY DEF Sequential
  <2>1. x = p \/ x = q
    BY <1>1
  <2> QED BY <2>1, <1>1, <1>2, <1>3
<1> QED BY <1>4, <1>5, <1>6

\* The two pages of a static range that leaves its first page.
LEMMA StaticPages ==
    ASSUME NEW r \in Request, r.form = "static",
           PageOf(r.start) # PageOf(Last(r))
    PROVE  /\ Covered(r) <=> ~(Last(r) < r.start)
           /\ Covered(r) =>
                /\ PageOf(r.start) \in Page /\ PageOf(r.start) \in Nat
                /\ PageOf(Last(r)) \in Page
                /\ PageOf(Last(r)) = PageOf(r.start) + 1
<1>1. r.length # 0
  BY RequestParts
<1>2. ASSUME Covered(r)
      PROVE  /\ PageOf(r.start) \in Page /\ PageOf(Last(r)) \in Page
             /\ PageOf(r.start) <= PageOf(Last(r))
             /\ PageOf(Last(r)) <= PageOf(r.start) + 1
  BY <1>2, RangePages, AtMostTwoPages
<1> QED BY <1>1, <1>2, LastOf, Sizes DEF Page

\* The word of the static helper decides its range.
LEMMA StaticWordSound ==
    ASSUME table \in [Page -> Entry], NEW r \in Request, r.form = "static"
    PROVE  SoundWord(r, StaticWord(r, table[PageOf(r.start)]))
<1> DEFINE lo == PageOf(r.start)
           hi == PageOf(Last(r))
<1>1. CASE lo = hi
  <2>1. StaticWord(r, table[lo]) = WordOf(table[lo])
    BY <1>1 DEF StaticWord
  <2> QED BY <2>1, <1>1, SamePageCovered, SinglePageSound
<1>2. CASE lo # hi /\ Last(r) < r.start
  <2>1. StaticWord(r, table[lo]) = ZeroWord
    BY <1>2 DEF StaticWord
  <2> QED BY <2>1, <1>2, StaticPages, ZeroWordSound
<1>3. CASE lo # hi /\ ~(Last(r) < r.start)
  <2>1. Covered(r) /\ lo \in Page /\ lo \in Nat /\ hi \in Page /\ hi = lo + 1
    BY <1>3, StaticPages
  <2>2. CASE EntryDenies(table[lo], r.intent)
    <3>1. StaticWord(r, table[lo]) = WordOf(table[lo])
      BY <1>3, <2>2 DEF StaticWord
    <3> QED BY <3>1, <2>1, <2>2, FirstEntryDenied
  <2>3. CASE ~EntryDenies(table[lo], r.intent) /\ EntryDenies(table[hi], r.intent)
    <3>1. StaticWord(r, table[lo]) = LaterDenialWord(hi, table[hi])
      BY <1>3, <2>3 DEF StaticWord
    <3>2. hi \in lo + 1 .. hi /\ Permitted(r, lo, hi - 1)
      BY <2>1, <2>3 DEF Permitted
    <3> QED BY <3>1, <3>2, <2>1, <2>3, LaterDenialSound
  <2>4. CASE ~EntryDenies(table[lo], r.intent) /\ ~EntryDenies(table[hi], r.intent)
    <3>1. StaticWord(r, table[lo]) =
            SuccessWord(table[lo], FramesAreNotSequential(table[lo], table[hi]))
      BY <1>3, <2>4 DEF StaticWord
    <3>2. Permitted(r, lo, hi)
      BY <2>1, <2>4 DEF Permitted
    <3>3. Granted(r, table[lo].frame,
                  FramesAreNotSequential(table[lo], table[hi]))
      BY <2>1, <3>2, TwoFrames DEF Granted
    <3>4. FramesAreNotSequential(table[lo], table[hi]) \in BOOLEAN
      BY DEF FramesAreNotSequential
    <3> QED BY <3>1, <3>3, <3>4, SuccessSound
  <2> QED BY <2>2, <2>3, <2>4
<1> QED BY <1>1, <1>2, <1>3

\* resolveDirect declines a static range exactly when the detailed resolution
\* would refuse it or find it scattered.
LEMMA DirectStaticExact ==
    ASSUME table \in [Page -> Entry], NEW r \in Request, r.form = "static"
    PROVE  /\ DirectStaticUnavailable(r, table[PageOf(r.start)]) =>
                 \/ ~Memory!Allowed(RangeOf(r))
                 \/ ~Memory!Contiguous(RangeOf(r))
           /\ ~DirectStaticUnavailable(r, table[PageOf(r.start)]) =>
                 Granted(r, table[PageOf(r.start)].frame, FALSE)
<1> DEFINE lo == PageOf(r.start)
           hi == PageOf(Last(r))
<1>1. CASE lo = hi
  <2>1. DirectStaticUnavailable(r, table[lo]) <=>
          EntryDenies(table[lo], r.intent)
    BY <1>1 DEF DirectStaticUnavailable
  <2>2. SoundWord(r, WordOf(table[lo]))
    BY <1>1, SamePageCovered, SinglePageSound
  <2>3. EntryDenies(WordOf(table[lo]), r.intent) <=>
          EntryDenies(table[lo], r.intent)
    BY DEF EntryDenies, WordOf
  <2>4. /\ WordOf(table[lo]).frame = table[lo].frame
        /\ WordOf(table[lo]).scattered = FALSE
    BY DEF WordOf
  <2> QED BY <2>1, <2>2, <2>3, <2>4 DEF SoundWord
<1>2. CASE lo # hi /\ Last(r) < r.start
  <2>1. DirectStaticUnavailable(r, table[lo])
    BY <1>2 DEF DirectStaticUnavailable
  <2>2. ~Covered(r)
    BY <1>2, StaticPages
  <2> QED BY <2>1, <2>2, AllowedPages
<1>3. CASE lo # hi /\ ~(Last(r) < r.start)
  <2>1. Covered(r) /\ lo \in Page /\ lo \in Nat /\ hi \in Page /\ hi = lo + 1
    BY <1>3, StaticPages
  <2>2. DirectStaticUnavailable(r, table[lo]) <=>
          \/ FramesAreNotSequential(table[lo], table[hi])
          \/ EntryDenies(table[lo], r.intent)
          \/ EntryDenies(table[hi], r.intent)
    BY <1>3 DEF DirectStaticUnavailable, EntryDenies
  <2>3. Permitted(r, lo, hi) <=>
          /\ ~EntryDenies(table[lo], r.intent)
          /\ ~EntryDenies(table[hi], r.intent)
    BY <2>1 DEF Permitted
  <2>4. FramesAreNotSequential(table[lo], table[hi]) =>
          ~Memory!Contiguous(RangeOf(r))
    BY <2>1, TwoFrames, BrokenNotContiguous
  <2>5. ~FramesAreNotSequential(table[lo], table[hi]) => Sequential(lo, hi)
    BY <2>1, TwoFrames
  <2> QED BY <2>1, <2>2, <2>3, <2>4, <2>5, AllowedPages DEF Granted
<1> QED BY <1>1, <1>2, <1>3

-----------------------------------------------------------------------------
(***************************************************************************)
(* The inductive invariant.  The loop has found every page before walk.page *)
(* permitted, and its scattered flag tells whether the frames seen so far,  *)
(* and the first one expected next, are consecutive.                        *)
(***************************************************************************)
FirstPage == PageOf(request.start)
LastPage == PageOf(Last(request))

Walked ==
    /\ request.form = "general"
    /\ Covered(request)
    /\ walk.page \in FirstPage + 1 .. LastPage
    /\ walk.first = table[FirstPage]
    /\ Permitted(request, FirstPage, walk.page - 1)
    /\ walk.expected = FrameAfter(table[walk.page - 1].frame)
    /\ ~walk.scattered =>
          /\ Sequential(FirstPage, walk.page - 1)
          /\ ~FrameWraps(table[walk.page - 1].frame)
    /\ walk.scattered => Broken(FirstPage, walk.page)

Accessible ==
    /\ Granted(request, table[FirstPage].frame, access.scattered)
    /\ access.physicalStart = Base(table[FirstPage].frame) + Offset(request.start)

Inv ==
    /\ TypeOK
    /\ CacheCoherent
    /\ phase = "walking" => Walked
    /\ phase = "granted" => Accessible

\* Decoding a sound word grants, refuses or declines as the bytes say.
LEMMA DecodeSound ==
    ASSUME TypeOK, phase # "granted", NEW r \in Request, NEW w,
           SoundWord(r, w), Decode(r, w), UNCHANGED table
    PROVE  /\ \/ phase' \in {"host", "idle"} /\ request' = NoRequest
              \/ /\ phase' = "granted"
                 /\ request' = r
                 /\ access' \in [physicalStart : Address, scattered : BOOLEAN]
                 /\ Accessible'
           /\ Memory!Next
<1>1. table \in [Page -> Entry]
  BY DEF TypeOK
<1>2. RangeOf(r) \in Memory!Range
  BY RequestParts
<1>3. CASE r.mode = "detailed" /\ EntryDenies(w, r.intent) /\ Fault(r, w)
  <2>1. FaultOf(r, w) \in Memory!RefusalOf(RangeOf(r))
    BY <1>3 DEF SoundWord
  <2>2. FaultOf(r, w).kind = "fault" /\ FaultOf(r, w).range = RangeOf(r)
    BY DEF FaultOf, Faulted
  <2>3. Memory!Refuse
    BY <1>2, <1>3, <2>1, <2>2 DEF Memory!Refuse, Fault, Memory!NoGrant, GrantedRange
  <2> QED BY <1>3, <2>3 DEF Fault, Memory!Next
<1>4. CASE r.mode = "direct" /\ DirectUnavailable(r, w) /\ Decline(r)
  <2>1. \/ ~Memory!Allowed(RangeOf(r))
        \/ ~Memory!Contiguous(RangeOf(r))
    BY <1>1, <1>4, BrokenNotContiguous DEF DirectUnavailable, SoundWord, Granted
  <2>2. Unavailable(r) = Memory!Unavailable(RangeOf(r))
    BY DEF Unavailable, Memory!Unavailable
  <2>3. /\ Unavailable(r).kind = "unavailable"
        /\ Unavailable(r).range = RangeOf(r)
    BY DEF Unavailable
  <2>4. Memory!Decline
    BY <1>2, <1>4, <2>1, <2>2, <2>3
       DEF Memory!Decline, Decline, Memory!NoGrant, GrantedRange
  <2> QED BY <1>4, <2>4 DEF Decline, Memory!Next
<1>5. CASE Grant(r, w) /\ ~EntryDenies(w, r.intent)
  <2>1. /\ w \in Word /\ Granted(r, w.frame, w.scattered)
        /\ w.frame = table[PageOf(r.start)].frame
    BY <1>5 DEF SoundWord, Granted
  <2>2. Memory!Allowed(RangeOf(r))
    BY <2>1, AllowedPages DEF Granted
  <2>3. Memory!Grant
    BY <1>2, <1>5, <2>2
       DEF Memory!Grant, Grant, NoOutcome, Memory!NoOutcome, GrantedRange
  <2>4. r.start \in Nat /\ Offset(r.start) \in 0 .. PageSize - 1
    BY RequestParts, Division
  <2>5. /\ PhysicalStart(w, r.start) \in Address
        /\ w.scattered \in BOOLEAN
    BY <2>1, <2>4, AddressPages DEF PhysicalStart, Word
  <2>6. access' \in [physicalStart : Address, scattered : BOOLEAN]
    BY <1>5, <2>5 DEF Grant
  <2>7. Accessible'
    BY <1>5, <2>1
       DEF Accessible, Grant, Granted, PhysicalStart, FirstPage, Permitted,
           Sequential, Broken
  <2> QED BY <1>5, <2>3, <2>6, <2>7 DEF Grant, Memory!Next
<1>6. DirectUnavailable(r, w) \/ ~EntryDenies(w, r.intent)
  BY DEF DirectUnavailable
<1> QED BY <1>3, <1>4, <1>5, <1>6 DEF Decode, DirectUnavailable

\* So does the direct form of the static helper.
LEMMA DecodeDirectStaticSound ==
    ASSUME TypeOK, phase # "granted", NEW r \in Request, r.form = "static",
           NEW first, first = table[PageOf(r.start)],
           DecodeDirectStatic(r, first), UNCHANGED table
    PROVE  /\ \/ phase' \in {"host", "idle"} /\ request' = NoRequest
              \/ /\ phase' = "granted"
                 /\ request' = r
                 /\ access' \in [physicalStart : Address, scattered : BOOLEAN]
                 /\ Accessible'
           /\ Memory!Next
<1>1. table \in [Page -> Entry]
  BY DEF TypeOK
<1>2. RangeOf(r) \in Memory!Range
  BY RequestParts
<1>3. CASE DirectStaticUnavailable(r, first) /\ Decline(r)
  <2>1. \/ ~Memory!Allowed(RangeOf(r))
        \/ ~Memory!Contiguous(RangeOf(r))
    BY <1>1, <1>3, DirectStaticExact
  <2>2. Unavailable(r) = Memory!Unavailable(RangeOf(r))
    BY DEF Unavailable, Memory!Unavailable
  <2>3. /\ Unavailable(r).kind = "unavailable"
        /\ Unavailable(r).range = RangeOf(r)
    BY DEF Unavailable
  <2>4. Memory!Decline
    BY <1>2, <1>3, <2>1, <2>2, <2>3
       DEF Memory!Decline, Decline, Memory!NoGrant, GrantedRange
  <2> QED BY <1>3, <2>4 DEF Decline, Memory!Next
<1>4. CASE ~DirectStaticUnavailable(r, first) /\ Grant(r, WordOf(first))
  <2>1. Granted(r, first.frame, FALSE)
    BY <1>1, <1>4, DirectStaticExact
  <2>2. Memory!Allowed(RangeOf(r))
    BY <2>1, AllowedPages DEF Granted
  <2>3. Memory!Grant
    BY <1>2, <1>4, <2>2
       DEF Memory!Grant, Grant, NoOutcome, Memory!NoOutcome, GrantedRange
  <2>4. r.start \in Nat /\ Offset(r.start) \in 0 .. PageSize - 1
    BY RequestParts, Division
  <2>5. first.frame \in Page
    <3>1. PageOf(r.start) \in Page
      BY RequestParts, AddressPages
    <3> QED BY <3>1, <1>1, Frames
  <2>6. /\ WordOf(first).frame = first.frame
        /\ WordOf(first).scattered = FALSE
    BY DEF WordOf
  <2>7. PhysicalStart(WordOf(first), r.start) \in Address
    BY <2>4, <2>5, <2>6, AddressPages DEF PhysicalStart
  <2>8. access' \in [physicalStart : Address, scattered : BOOLEAN]
    BY <1>4, <2>6, <2>7 DEF Grant
  <2>9. Accessible'
    BY <1>4, <2>1, <2>6
       DEF Accessible, Grant, Granted, PhysicalStart, FirstPage, Permitted,
           Sequential, Broken
  <2> QED BY <1>4, <2>3, <2>8, <2>9 DEF Grant, Memory!Next
<1> QED BY <1>3, <1>4 DEF DecodeDirectStatic

-----------------------------------------------------------------------------
(***************************************************************************)
(* The steps.                                                              *)
(***************************************************************************)
Step == Memory!Next \/ UNCHANGED <<table, GrantedRange, outcome>>

\* The invariant holds before the first invocation.
LEMMA InitInv == Init => Inv /\ Memory!Init
<1> SUFFICES ASSUME Init PROVE Inv /\ Memory!Init
  OBVIOUS
<1>1. AbsentEntry \in Entry
  BY Sizes DEF AbsentEntry, Entry, Page
<1>2. table \in [Page -> Entry] /\ phase = "host"
  BY <1>1 DEF Init
<1>3. Inv
  BY <1>1, <1>2 DEF Init, Inv, TypeOK, CacheCoherent, NoPage
<1>4. Memory!Init
  BY <1>2 DEF Init, Memory!Init, Memory!Page, Page, Memory!Entry, Entry,
              Memory!NoGrant, Memory!NoOutcome, NoOutcome,
              GrantedRange
<1> QED BY <1>3, <1>4

\* The host changes the table while no range is granted.
LEMMA HostSteps ==
    ASSUME Inv,
           \/ \E mapped \in 0 .. PageCount : InitializeIdentity(mapped)
           \/ \E p \in Page, e \in HostEntry : Remap(p, e)
    PROVE  Inv' /\ Step
<1>1. /\ phase = "host" /\ outcome' = NoOutcome
      /\ UNCHANGED invocation
      /\ table \in [Page -> Entry]
  BY DEF InitializeIdentity, Remap, Inv, TypeOK
<1>2. table' \in [Page -> Entry]
  <2>1. CASE \E mapped \in 0 .. PageCount : InitializeIdentity(mapped)
    <3>1. AbsentEntry \in Entry
      BY Sizes DEF AbsentEntry, Entry, Page
    <3>2. \A p \in Page :
             [present |-> TRUE, writable |-> TRUE, frame |-> p] \in Entry
      BY DEF Entry
    <3> QED BY <2>1, <3>1, <3>2 DEF InitializeIdentity
  <2>2. CASE \E p \in Page, e \in HostEntry : Remap(p, e)
    <3>1. HostEntry \subseteq Entry
      BY RequestAssumption
    <3> QED BY <2>2, <3>1, <1>1 DEF Remap
  <2> QED BY <2>1, <2>2
<1>3. Inv'
  BY <1>1, <1>2 DEF Inv, TypeOK, CacheCoherent, invocation
<1>4. Memory!Remap
  BY <1>1, <1>2
     DEF Memory!Remap, invocation, GrantedRange, Memory!NoGrant, NoOutcome,
         Memory!NoOutcome, Memory!Page, Page, Memory!Entry, Entry
<1> QED BY <1>3, <1>4 DEF Step, Memory!Next

\* The host reads a byte where the page table puts it.
LEMMA ReadVirtualByteStep ==
    ASSUME Inv, NEW a \in Address, NEW intent \in Intent \ {"write"},
           ReadVirtualByte(a, intent)
    PROVE  Inv' /\ Step
<1>1. Inv'
  BY DEF ReadVirtualByte, invocation, Inv, TypeOK, CacheCoherent
<1>2. Memory!HostRead(a, intent)
  <2>1. /\ GrantedRange = Memory!NoGrant /\ UNCHANGED GrantedRange
    BY DEF ReadVirtualByte, invocation, GrantedRange, Memory!NoGrant
  <2>2. Memory!Denied(a, intent) <=> ~table[PageOf(a)].present
    BY DEF Memory!Denied, Memory!EntryDenies, Memory!PageOf, PageOf
  <2>3. Faulted([start |-> a, length |-> 1, intent |-> intent], a, FALSE) =
          Memory!Faulted([start |-> a, length |-> 1, intent |-> intent],
                         a, FALSE)
    BY DEF Faulted, RangeOf, Memory!Faulted
  <2>4. Touched(a, <<Base(table[PageOf(a)].frame) + Offset(a)>>) =
          Memory!Touched(a, <<Memory!Translate(a)>>)
    BY DEF Touched, Memory!Touched, Memory!Translate, Memory!Base, Base,
           Memory!PageOf, PageOf, Memory!Offset, Offset
  <2> QED BY <2>1, <2>2, <2>3, <2>4 DEF Memory!HostRead, ReadVirtualByte
<1>3. a \in Memory!Address /\ intent \in Memory!Intent \ {"write"}
  BY DEF Memory!Address, Address, Memory!AddressCount, AddressCount,
         Memory!Intent, Intent
<1> QED BY <1>1, <1>2, <1>3 DEF Step, Memory!Next

\* Entering and leaving the generated function, and dropping an access.
LEMMA QuietSteps ==
    ASSUME Inv, Invoke \/ Release \/ Return
    PROVE  Inv' /\ Step
<1>1. /\ phase' \in {"host", "idle"} /\ request' = NoRequest
      /\ outcome' = NoOutcome /\ UNCHANGED table
  BY DEF Invoke, Release, Return, Inv, TypeOK
<1>2. AbsentEntry \in Entry
  BY Sizes DEF AbsentEntry, Entry, Page
<1>3. TypeOK'
  BY <1>1, <1>2 DEF Invoke, Release, Return, Inv, TypeOK
<1>4. CacheCoherent'
  BY <1>1 DEF Invoke, Release, Return, Inv, CacheCoherent, NoPage
<1>5. Memory!Release
  BY <1>1 DEF Memory!Release, GrantedRange, Memory!NoGrant, NoOutcome,
              Memory!NoOutcome
<1> QED BY <1>1, <1>3, <1>4, <1>5 DEF Inv, Step, Memory!Next

\* A load or store touches each byte where the page table puts it.
LEMMA TransferStep ==
    ASSUME Inv, NEW offset \in 0 .. AddressCount, NEW width \in {1, 2, 4},
           Transfer(offset, width)
    PROVE  Inv' /\ Step
<1>1. /\ phase = "granted" /\ request \in Request
      /\ table \in [Page -> Entry]
      /\ access \in [physicalStart : Address, scattered : BOOLEAN]
      /\ UNCHANGED <<table, invocation>>
      /\ Accessible
  BY DEF Transfer, Inv, TypeOK
<1>2. Inv'
  BY <1>1 DEF Inv, TypeOK, CacheCoherent, invocation, Walked, Accessible,
              Granted, Covered, Permitted, Sequential, Broken, FirstPage,
              LastPage
<1>3. Covered(request)
  BY <1>1 DEF Accessible, Granted
<1>4. PICK s \in Nat, n \in Nat :
         /\ s = request.start /\ n = request.length
         /\ s + n <= AddressCount /\ n > 0 /\ offset + width <= n
         /\ Last(request) = s + n - 1
  BY <1>1, <1>3, RequestParts, RangePages DEF Covered, Transfer
<1>5. ASSUME NEW i \in 1 .. width
      PROVE  (IF access.scattered
              THEN TranslateAddress(
                      (request.start + offset + (i - 1)) % AddressCount)
              ELSE access.physicalStart + offset + (i - 1))
             = Memory!Translate(request.start + offset + (i - 1))
  <2>1. PICK a \in Nat : a = s + offset + (i - 1)
    BY <1>4, Sizes
  <2>2. a \in s .. s + n - 1 /\ a < AddressCount
    BY <1>4, <2>1, Sizes
  <2>3. a = request.start + offset + (i - 1)
    BY <1>4, <2>1
  <2>4. CASE access.scattered
    <3>1. a % AddressCount = a
      <4>1. a \in 0 .. AddressCount - 1 /\ a = 0 * AddressCount + a
        BY <2>2, Sizes
      <4> QED BY <4>1, UniqueRemainder, Sizes
    <3>2. TranslateAddress(a) = Memory!Translate(a)
      BY DEF TranslateAddress, Memory!Translate, Memory!Base, Base,
             Memory!PageOf, PageOf, Memory!Offset, Offset
    <3> QED BY <2>3, <2>4, <3>1, <3>2
  <2>5. CASE ~access.scattered
    <3>1. Sequential(PageOf(request.start), PageOf(Last(request)))
      BY <1>1, <2>5 DEF Accessible, Granted
    <3>2. a \in request.start .. Last(request)
      BY <1>4, <2>2
    <3>3. Memory!Translate(a) = Memory!Translate(request.start)
                                  + (a - request.start)
      BY <1>1, <1>3, <3>1, <3>2, SequentialContiguous
    <3>4. access.physicalStart = Memory!Translate(request.start)
      BY <1>1 DEF Accessible, FirstPage, Memory!Translate, Memory!Base, Base,
                  Memory!PageOf, PageOf, Memory!Offset, Offset
    <3>5. PICK t \in Int : t = access.physicalStart
      BY <1>1, Sizes DEF Address
    <3>6. Memory!Translate(a) = t + (a - s)
      BY <3>3, <3>4, <3>5, <1>4
    <3>7. t + (a - s) = t + offset + (i - 1)
      BY <2>1, <3>5, <1>4, Sizes
    <3> QED BY <2>3, <2>5, <3>5, <3>6, <3>7
  <2> QED BY <2>4, <2>5
<1>6. Memory!Transfer(offset, width)
  <2>1. GrantedRange = RangeOf(request) /\ UNCHANGED GrantedRange
    BY <1>1 DEF GrantedRange, invocation
  <2>2. /\ GrantedRange.start = request.start
        /\ GrantedRange.length = n
    BY <2>1, <1>4 DEF RangeOf
  <2>3. GrantedRange # Memory!NoGrant
    BY <2>2, <1>4 DEF Memory!NoGrant
  <2>4. outcome' = Memory!Touched(GrantedRange.start + offset, [i \in 1 .. width |->
            Memory!Translate(GrantedRange.start + offset + (i - 1))])
    BY <1>5, <2>2 DEF Transfer, Touched, Memory!Touched
  <2> QED BY <1>1, <1>4, <2>1, <2>2, <2>3, <2>4 DEF Memory!Transfer
<1>7. offset \in 0 .. Memory!AddressCount /\ width \in 1 .. 4
  BY DEF Memory!AddressCount, AddressCount
<1> QED BY <1>2, <1>6, <1>7 DEF Step, Memory!Next

\* A step that answers a request leaves the invariant.
LEMMA AnswerInv ==
    ASSUME Inv, UNCHANGED table, NEW r \in Request,
           cachedPage' \in Page \cup {NoPage}, cachedEntry' \in Entry,
           cachedPage' # NoPage => cachedEntry' = table[cachedPage'],
           \/ phase' \in {"host", "idle"} /\ request' = NoRequest
           \/ /\ phase' = "granted"
              /\ request' = r
              /\ access' \in [physicalStart : Address, scattered : BOOLEAN]
              /\ Accessible'
    PROVE  Inv'
<1>1. TypeOK'
  BY DEF Inv, TypeOK
<1>2. CacheCoherent'
  BY DEF CacheCoherent
<1> QED BY <1>1, <1>2 DEF Inv

\* A general range that needs no loop is decided by its first entry.
LEMMA GeneralAtOnceSound ==
    ASSUME table \in [Page -> Entry], NEW r \in Request,
           ~NeedsWalk(r, table[PageOf(r.start)])
    PROVE  SoundWord(r, GeneralWordAtOnce(r, table[PageOf(r.start)]))
<1>1. CASE ~Covered(r)
  <2>1. r.length = 0 \/ Last(r) < r.start
    BY <1>1, LastOf
  <2> QED BY <1>1, <2>1, ZeroWordSound DEF GeneralWordAtOnce
<1>2. CASE Covered(r)
  <2>1. r.length # 0 /\ ~(Last(r) < r.start)
    BY <1>2, LastOf
  <2>2. \/ PageOf(r.start) = PageOf(Last(r))
        \/ EntryDenies(table[PageOf(r.start)], r.intent)
    BY <2>1 DEF NeedsWalk
  <2> QED BY <1>2, <2>1, <2>2, SinglePageSound, FirstEntryDenied
          DEF GeneralWordAtOnce
<1> QED BY <1>1, <1>2

\* Before the loop only the first page is known.
LEMMA FirstWalkHolds ==
    ASSUME table \in [Page -> Entry], NEW r \in Request, r.form = "general",
           NeedsWalk(r, table[PageOf(r.start)]),
           request' = r, walk' = FirstWalk(r, table[PageOf(r.start)]),
           UNCHANGED table
    PROVE  /\ Walked'
           /\ walk' \in [page : Page, first : Entry, expected : Page,
                         scattered : BOOLEAN]
<1>1. Covered(r)
  BY LastOf DEF NeedsWalk
<1>2. PICK lo \in Nat, hi \in Nat :
         /\ lo = PageOf(r.start) /\ hi = PageOf(Last(r))
         /\ lo < hi /\ lo \in Page /\ hi \in Page
  BY <1>1, RangePages, Sizes DEF NeedsWalk, Page
<1>3. PICK e \in Entry, f \in Page : e = table[lo] /\ f = e.frame /\ f \in Nat
  BY <1>2, Frames
<1>4. FirstPage' = lo /\ LastPage' = hi
  BY <1>2 DEF FirstPage, LastPage
<1>5. walk' = [page |-> lo + 1, first |-> e, expected |-> FrameAfter(f),
               scattered |-> FrameWraps(f)]
  BY <1>2, <1>3 DEF FirstWalk
<1>6. lo + 1 \in Page /\ lo + 1 \in lo + 1 .. hi /\ (lo + 1) - 1 = lo
  BY <1>2, Sizes DEF Page
<1>7. FrameAfter(f) \in Page /\ FrameWraps(f) \in BOOLEAN
  BY FrameStep DEF FrameWraps
<1>8. \A p \in lo .. lo : ~EntryDenies(table[p], r.intent)
  BY <1>2 DEF NeedsWalk
<1>9. \A p \in lo .. lo : table[p].frame = table[lo].frame + (p - lo)
  BY <1>2, <1>3
<1>10. FrameWraps(f) =>
         \E p \in lo .. (lo + 1) - 1 : table[p + 1].frame # table[p].frame + 1
  <2>1. table[lo + 1].frame \in Page /\ table[lo + 1].frame < PageCount
    BY <1>6, Frames, Sizes DEF Page
  <2>2. FrameWraps(f) => table[lo + 1].frame # f + 1
    BY <2>1, FrameStep, Sizes
  <2> QED BY <2>2, <1>2, <1>3
<1>11. Walked'
  BY <1>1, <1>2, <1>3, <1>4, <1>5, <1>6, <1>8, <1>9, <1>10
     DEF Walked, Permitted, Sequential, Broken, Covered
<1> QED BY <1>3, <1>5, <1>6, <1>7, <1>11

\* A resolution that does not walk is one abstract step.
LEMMA ResolveStep ==
    ASSUME Inv, NEW r \in Request, Resolve(r)
    PROVE  Inv' /\ Step
<1> DEFINE first == table[PageOf(r.start)]
<1>1. /\ TypeOK /\ CacheCoherent /\ phase = "idle" /\ phase # "granted"
      /\ table \in [Page -> Entry] /\ UNCHANGED table
  BY DEF Resolve, Inv, TypeOK
<1>2. PageOf(r.start) \in Page /\ PageOf(r.start) # NoPage /\ first \in Entry
  <2>1. PageOf(r.start) \in Page
    BY RequestParts, AddressPages
  <2> QED BY <2>1, <1>1, Sizes DEF Page, NoPage
<1>3. CachedEntry(PageOf(r.start)) = first
  BY <1>1, <1>2 DEF CachedEntry, CacheCoherent
<1>4. cachedPage' = PageOf(r.start) /\ cachedEntry' = first
  BY <1>3 DEF Resolve
<1>5. /\ cachedPage' \in Page \cup {NoPage} /\ cachedEntry' \in Entry
      /\ cachedPage' # NoPage => cachedEntry' = table[cachedPage']
  BY <1>2, <1>4
<1>6. ASSUME NEW w, SoundWord(r, w), Decode(r, w)
      PROVE  Inv' /\ Step
  BY <1>1, <1>5, <1>6, DecodeSound, AnswerInv DEF Step
<1>7. CASE r.form = "static" /\ StaysOnPage(r) /\ Decode(r, WordOf(first))
  BY <1>1, <1>6, <1>7, StaysOnOnePage, SinglePageSound
<1>8. CASE r.form = "static" /\ Decode(r, StaticWord(r, first))
  BY <1>1, <1>6, <1>8, StaticWordSound
<1>9. CASE r.form = "static" /\ DecodeDirectStatic(r, first)
  BY <1>1, <1>5, <1>9, DecodeDirectStaticSound, AnswerInv DEF Step
<1>10. CASE r.form = "general" /\ ~NeedsWalk(r, first)
            /\ Decode(r, GeneralWordAtOnce(r, first))
  BY <1>1, <1>6, <1>10, GeneralAtOnceSound
<1>11. CASE /\ r.form = "general" /\ NeedsWalk(r, first)
            /\ phase' = "walking" /\ request' = r
            /\ walk' = FirstWalk(r, first) /\ outcome' = NoOutcome
  <2>1. /\ Walked'
        /\ walk' \in [page : Page, first : Entry, expected : Page,
                      scattered : BOOLEAN]
    BY <1>1, <1>11, FirstWalkHolds
  <2>2. Inv'
    BY <1>1, <1>5, <1>11, <2>1 DEF Inv, TypeOK, CacheCoherent
  <2>3. Memory!Release
    BY <1>1, <1>11 DEF Memory!Release, GrantedRange, Memory!NoGrant, NoOutcome,
                       Memory!NoOutcome
  <2> QED BY <2>2, <2>3 DEF Step, Memory!Next
<1>12. \/ r.form = "static" /\ StaysOnPage(r) /\ Decode(r, WordOf(first))
       \/ r.form = "static" /\ DecodeDirectStatic(r, first)
       \/ r.form = "static" /\ Decode(r, StaticWord(r, first))
       \/ /\ r.form = "general" /\ ~NeedsWalk(r, first)
          /\ Decode(r, GeneralWordAtOnce(r, first))
       \/ /\ r.form = "general" /\ NeedsWalk(r, first)
          /\ phase' = "walking" /\ request' = r
          /\ walk' = FirstWalk(r, first) /\ outcome' = NoOutcome
  BY <1>3 DEF Resolve
<1> QED BY <1>7, <1>8, <1>9, <1>10, <1>11, <1>12

\* One more permitted page extends what the loop knows.
LEMMA WalkFrames ==
    ASSUME Inv, phase = "walking",
           ~EntryDenies(table[walk.page], request.intent),
           NEW scattered,
           scattered = (walk.scattered \/ table[walk.page].frame # walk.expected)
    PROVE  /\ Permitted(request, FirstPage, walk.page)
           /\ ~scattered => Sequential(FirstPage, walk.page)
           /\ scattered => Broken(FirstPage, walk.page)
<1>1. Walked /\ request \in Request /\ table \in [Page -> Entry]
  BY DEF Inv, TypeOK
<1>2. PICK lo \in Nat, hi \in Nat, p \in Nat :
         /\ lo = FirstPage /\ hi = LastPage /\ p = walk.page
         /\ lo < p /\ p <= hi /\ lo \in Page /\ hi \in Page
  BY <1>1, RangePages, Sizes DEF Walked, FirstPage, LastPage, Page
<1>3. p \in Page /\ p - 1 \in Page /\ p - 1 \in Nat
  BY <1>2, Sizes DEF Page
<1>4. PICK f \in Page, g \in Page :
         /\ f = table[p - 1].frame /\ g = table[p].frame
         /\ f \in Nat /\ g \in Nat
  BY <1>1, <1>3, Frames
<1>5. Permitted(request, FirstPage, walk.page)
  BY <1>1, <1>2 DEF Walked, Permitted
<1>6. ASSUME ~scattered PROVE Sequential(lo, p)
  <2>1. ~walk.scattered /\ g = walk.expected /\ walk.expected = FrameAfter(f)
    BY <1>1, <1>2, <1>4, <1>6 DEF Walked
  <2>2. Sequential(lo, p - 1) /\ ~FrameWraps(f)
    BY <2>1, <1>1, <1>2, <1>4 DEF Walked
  <2>3. g = f + 1
    BY <2>1, <2>2, FrameStep
  <2>4. PICK b \in Nat : b = table[lo].frame
    BY <1>1, <1>2, Frames
  <2>5. f = b + ((p - 1) - lo)
    BY <2>2, <2>4, <1>2, <1>4 DEF Sequential
  <2>6. ASSUME NEW x \in lo .. p
        PROVE  table[x].frame = table[lo].frame + (x - lo)
    <3>1. CASE x = p
      BY <3>1, <2>3, <2>4, <2>5, <1>2, <1>4
    <3>2. CASE x # p
      <4>1. x \in lo .. p - 1
        BY <3>2, <1>2
      <4> QED BY <4>1, <2>2 DEF Sequential
    <3> QED BY <3>1, <3>2
  <2> QED BY <2>6 DEF Sequential
<1>7. ASSUME scattered PROVE Broken(lo, p)
  <2>1. CASE walk.scattered
    BY <2>1, <1>1, <1>2 DEF Walked
  <2>2. CASE ~walk.scattered
    <3>1. g # walk.expected /\ walk.expected = FrameAfter(f) /\ ~FrameWraps(f)
      BY <2>2, <1>1, <1>2, <1>4, <1>7 DEF Walked
    <3>2. g # f + 1
      BY <3>1, FrameStep
    <3>3. p - 1 \in lo .. p - 1 /\ (p - 1) + 1 = p
      BY <1>2
    <3> QED BY <3>2, <3>3, <1>4 DEF Broken
  <2> QED BY <2>1, <2>2
<1> QED BY <1>2, <1>5, <1>6, <1>7

\* An iteration of the loop is a stutter or the one abstract step.
LEMMA WalkPageStep ==
    ASSUME Inv, WalkPage
    PROVE  Inv' /\ Step
<1>1. /\ TypeOK /\ CacheCoherent /\ Walked /\ phase = "walking"
      /\ phase # "granted" /\ request \in Request
      /\ table \in [Page -> Entry] /\ UNCHANGED table
      /\ UNCHANGED <<cachedPage, cachedEntry>>
      /\ walk \in [page : Page, first : Entry, expected : Page,
                   scattered : BOOLEAN]
  BY DEF WalkPage, Inv, TypeOK
<1>2. /\ cachedPage' \in Page \cup {NoPage} /\ cachedEntry' \in Entry
      /\ cachedPage' # NoPage => cachedEntry' = table[cachedPage']
  BY <1>1 DEF TypeOK, CacheCoherent
<1>3. ASSUME NEW w, SoundWord(request, w), Decode(request, w)
      PROVE  Inv' /\ Step
  BY <1>1, <1>2, <1>3, DecodeSound, AnswerInv DEF Step
<1>4. PICK lo \in Nat, hi \in Nat, p \in Nat :
         /\ lo = FirstPage /\ hi = LastPage /\ p = walk.page
         /\ lo < p /\ p <= hi /\ lo \in Page /\ hi \in Page
  BY <1>1, RangePages, Sizes DEF Walked, FirstPage, LastPage, Page
<1>5. CASE /\ EntryDenies(table[p], request.intent)
           /\ Decode(request, LaterDenialWord(p, table[p]))
  <2>1. /\ Covered(request)
        /\ p \in PageOf(request.start) + 1 .. PageOf(Last(request))
        /\ Permitted(request, PageOf(request.start), p - 1)
    BY <1>1, <1>4 DEF Walked, FirstPage, LastPage
  <2> QED BY <2>1, <1>1, <1>3, <1>5, LaterDenialSound
<1>6. ASSUME NEW scattered \in BOOLEAN,
             scattered = (walk.scattered \/ table[p].frame # walk.expected),
             ~EntryDenies(table[p], request.intent)
      PROVE  /\ Permitted(request, lo, p)
             /\ ~scattered => Sequential(lo, p)
             /\ scattered => Broken(lo, p)
  BY <1>1, <1>4, <1>6, WalkFrames
<1>7. ASSUME NEW scattered \in BOOLEAN,
             scattered = (walk.scattered \/ table[p].frame # walk.expected),
             ~EntryDenies(table[p], request.intent),
             p = hi,
             Decode(request, SuccessWord(walk.first, scattered))
      PROVE  Inv' /\ Step
  <2>1. Granted(request, table[PageOf(request.start)].frame, scattered)
    BY <1>1, <1>4, <1>6, <1>7 DEF Granted, Walked, FirstPage, LastPage
  <2>2. walk.first = table[PageOf(request.start)]
    BY <1>1 DEF Walked, FirstPage
  <2> QED BY <2>1, <2>2, <1>1, <1>3, <1>7, SuccessSound
<1>8. ASSUME NEW scattered \in BOOLEAN,
             scattered = (walk.scattered \/ table[p].frame # walk.expected),
             ~EntryDenies(table[p], request.intent),
             p # hi,
             walk' = [walk EXCEPT
                        !.page = p + 1,
                        !.expected = FrameAfter(table[p].frame),
                        !.scattered = scattered \/ FrameWraps(table[p].frame)],
             UNCHANGED <<phase, request, access, outcome>>
      PROVE  Inv' /\ Step
  <2>1. p \in Page /\ p + 1 \in Page /\ p + 1 \in lo + 1 .. hi /\ (p + 1) - 1 = p
    BY <1>4, <1>8, Sizes DEF Page
  <2>2. PICK g \in Page : g = table[p].frame /\ g \in Nat
    BY <1>1, <2>1, Frames
  <2>3. PICK h \in Nat : h = table[p + 1].frame /\ h < PageCount
    BY <1>1, <2>1, Frames, Sizes DEF Page
  <2>4. /\ walk'.page = p + 1
        /\ walk'.first = walk.first
        /\ walk'.expected = FrameAfter(g)
        /\ walk'.scattered = (scattered \/ FrameWraps(g))
        /\ walk' \in [page : Page, first : Entry, expected : Page,
                      scattered : BOOLEAN]
    BY <1>1, <1>8, <2>1, <2>2, FrameStep DEF FrameWraps
  <2>5. FrameWraps(g) => h # g + 1
    BY <2>2, <2>3, FrameStep, Sizes
  <2>6. scattered \/ FrameWraps(g) => Broken(lo, p + 1)
    <3>1. ASSUME Broken(lo, p) PROVE Broken(lo, p + 1)
      <4>1. lo .. p - 1 \subseteq lo .. (p + 1) - 1
        BY <1>4
      <4> QED BY <3>1, <4>1 DEF Broken
    <3>2. ASSUME h # g + 1 PROVE Broken(lo, p + 1)
      <4>1. p \in lo .. (p + 1) - 1
        BY <1>4
      <4> QED BY <3>2, <4>1, <2>2, <2>3 DEF Broken
    <3> QED BY <3>1, <3>2, <2>5, <1>6, <1>8
  <2>7. Permitted(request, lo, p) /\ (~scattered => Sequential(lo, p))
    BY <1>6, <1>8
  <2>8. /\ UNCHANGED <<table, request, phase>>
        /\ FirstPage' = lo /\ LastPage' = hi
    BY <1>1, <1>4, <1>8 DEF FirstPage, LastPage, Last
  <2>9. Walked'
    BY <1>1, <1>4, <2>1, <2>2, <2>4, <2>6, <2>7, <2>8
       DEF Walked, Covered, Permitted, Sequential, Broken
  <2>10. Inv'
    BY <1>1, <1>2, <1>8, <2>4, <2>9 DEF Inv, TypeOK, CacheCoherent
  <2>11. UNCHANGED <<table, GrantedRange, outcome>>
    BY <1>1, <1>8 DEF GrantedRange
  <2> QED BY <2>10, <2>11 DEF Step
<1>9. PICK scattered \in BOOLEAN :
         scattered = (walk.scattered \/ table[p].frame # walk.expected)
  OBVIOUS
<1>10. \/ /\ EntryDenies(table[p], request.intent)
          /\ Decode(request, LaterDenialWord(p, table[p]))
       \/ /\ ~EntryDenies(table[p], request.intent)
          /\ p = hi
          /\ Decode(request, SuccessWord(walk.first, scattered))
       \/ /\ ~EntryDenies(table[p], request.intent)
          /\ p # hi
          /\ walk' = [walk EXCEPT
                        !.page = p + 1,
                        !.expected = FrameAfter(table[p].frame),
                        !.scattered = scattered \/ FrameWraps(table[p].frame)]
          /\ UNCHANGED <<phase, request, access, outcome>>
  BY <1>4, <1>9 DEF WalkPage, LastPage
<1> QED BY <1>5, <1>7, <1>8, <1>9, <1>10

\* Every step keeps the invariant and is an abstract step or a stutter.
LEMMA NextStep == Inv /\ [Next]_vars => Inv' /\ Step
<1> SUFFICES ASSUME Inv, [Next]_vars PROVE Inv' /\ Step
  OBVIOUS
<1>1. CASE UNCHANGED vars
  BY <1>1 DEF vars, invocation, Inv, TypeOK, CacheCoherent, Walked, Accessible,
              Granted, Covered, Permitted, Sequential, Broken, FirstPage,
              LastPage, Last, Step, GrantedRange
<1>2. CASE Invoke \/ Release \/ Return
  BY <1>2, QuietSteps
<1>3. CASE WalkPage
  BY <1>3, WalkPageStep
<1>4. CASE \/ \E mapped \in 0 .. PageCount : InitializeIdentity(mapped)
           \/ \E p \in Page, e \in HostEntry : Remap(p, e)
  BY <1>4, HostSteps
<1>5. CASE \E a \in Address, intent \in Intent \ {"write"} :
             ReadVirtualByte(a, intent)
  BY <1>5, ReadVirtualByteStep
<1>6. CASE \E r \in Request : Resolve(r)
  BY <1>6, ResolveStep
<1>7. CASE \E offset \in 0 .. AddressCount, width \in {1, 2, 4} :
             Transfer(offset, width)
  BY <1>7, TransferStep
<1> QED BY <1>1, <1>2, <1>3, <1>4, <1>5, <1>6, <1>7 DEF Next

-----------------------------------------------------------------------------
(***************************************************************************)
(* Within an invocation the one-entry page cache never differs from the    *)
(* page table, and the walk over later pages stays inside a range whose    *)
(* earlier pages permit the access: the state of page-cache.ts and of the  *)
(* loop in resolution-functions.ts, for every page table and every range.  *)
(***************************************************************************)
THEOREM ResolutionState ==
    Spec => [](TypeOK /\ CacheCoherent /\ WalkInsideRange)
<1>1. Inv => TypeOK /\ CacheCoherent /\ WalkInsideRange
  BY DEF Inv, Walked, Covered, Permitted, WalkInsideRange, FirstPage, LastPage
<1> QED BY <1>1, InitInv, NextStep, PTL DEF Spec

(***************************************************************************)
(* The loop in resolution-functions.ts reads each later page of the range  *)
(* once, in order, never past its end and only after every page before it  *)
(* has permitted the access.                                               *)
(***************************************************************************)
THEOREM WalksStayInRange == Spec => []WalkInsideRange
  BY ResolutionState, PTL

(***************************************************************************)
(* The page walk, the static and direct helpers, the cache and the         *)
(* scattered transfer together behave as if every access were decided and  *)
(* performed byte by byte against the page table: they refuse exactly the  *)
(* ranges with a denied byte, name the first such byte, decline direct use *)
(* of exactly the ranges that are not contiguous, and touch exactly the    *)
(* translated bytes, for every page size, table and range.                 *)
(***************************************************************************)
THEOREM ResolutionIsBytewise == Spec => BytewiseAccess
<1>1. Init => Memory!Init
  BY InitInv
<1>2. Inv /\ [Next]_vars => [Memory!Next]_<<table, GrantedRange, outcome>>
  BY NextStep DEF Step
<1>3. Init => Inv
  BY InitInv
<1>4. Inv /\ [Next]_vars => Inv'
  BY NextStep
<1> QED BY <1>1, <1>2, <1>3, <1>4, PTL DEF Spec, BytewiseAccess, Memory!Spec
=============================================================================
