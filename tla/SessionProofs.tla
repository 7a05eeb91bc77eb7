---------------------------- MODULE SessionProofs ----------------------------
(***************************************************************************)
(* Proofs about Session, for every set of addresses, allocators, slots and *)
(* counts.                                                                 *)
(*                                                                         *)
(* The invariant gives every block of the heap one owner: a handle of the  *)
(* caller, the call under way, or another block that points to it.  Blocks *)
(* are only ever added in front of owned ones or released with all they    *)
(* own, and three lemmas about a heap say that this keeps it sound.        *)
(***************************************************************************)
EXTENDS Session, WellFoundedInduction, TLAPS

-----------------------------------------------------------------------------
(* What the blocks of a sound heap are.  A block that remembers an         *)
(* allocator came from it.                                                 *)

Address == Blocks \cup {NULL}

IoBlock == [what : {"io"}, by : Allocators, allocator : Allocators, file : Address]
RomBlock ==
    [what : {"rom"}, by : Allocators, allocator : Allocators, io : Blocks,
     dmadata : Address, count : Counts \cup {0}]
TableBlock == [what : {"table"}, by : Allocators]
EntriesBlock == [what : {"entries"}, by : Allocators, rom : Blocks, count : Counts]
LayoutBlock ==
    [what : {"layout"}, by : Allocators, allocator : Allocators, entries : Blocks,
     count : Counts]

Block ==
    {Free, Stream} \cup TableBlock \cup EntriesBlock
    \cup {b \in IoBlock \cup RomBlock \cup LayoutBlock : b.by = b.allocator}

(* The blocks that a block points to and that are released with it: the    *)
(* entries of a layout do not own the ROM they name.                       *)
Owned(b) ==
    IF b.what = "io" THEN {b.file} \ {NULL}
    ELSE IF b.what = "rom" THEN {b.io, b.dmadata} \ {NULL}
    ELSE IF b.what = "layout" THEN {b.entries}
    ELSE {}

(* They are what the block takes them for, from its own allocator. *)
Fits(h, b) ==
    /\ b.what = "io" /\ b.file # NULL => h[b.file] = Stream
    /\ b.what = "rom" =>
          /\ h[b.io].what = "io"
          /\ b.dmadata # NULL => h[b.dmadata].what = "table" /\ h[b.dmadata].by = b.allocator
    /\ b.what = "layout" =>
          /\ h[b.entries].what = "entries"
          /\ h[b.entries].by = b.allocator
          /\ h[b.entries].count = b.count

(* Every block that is taken is one of the roots or has one owner. *)
Forest(h, roots) ==
    /\ h \in [Blocks -> Block]
    /\ roots \subseteq Taken(h)
    /\ \A p \in Blocks : Fits(h, h[p])
    /\ \A p, q \in Blocks : p # q => Owned(h[p]) \cap Owned(h[q]) = {}
    /\ \A p \in Blocks : Owned(h[p]) \cap roots = {}
    /\ \A q \in Taken(h) \ roots : \E p \in Blocks : q \in Owned(h[p])

-----------------------------------------------------------------------------
(* The roots: the handles of the caller and what the call under way holds. *)

CallHolds ==
    IF pc \in {"rom", "table"} THEN {local.io}
    ELSE IF pc \in {"dmadata", "cic"} THEN {local.rom}
    ELSE IF pc = "layout" THEN {local.entries}
    ELSE IF pc = "write" THEN {local.io, local.table}
    ELSE {}

HandleRoots == ({roms[r] : r \in RomSlots} \cup {layouts[l].at : l \in LayoutSlots}) \ {NULL}

Roots == HandleRoots \cup CallHolds

(* No two handles are the same; a layout knows the ROM it was made from.   *)
HandlesAreGood ==
    /\ roms \in [RomSlots -> Address]
    /\ \A r \in RomSlots : roms[r] # NULL =>
          heap[roms[r]].what = "rom" /\ heap[roms[r]].count \in Counts
    /\ \A r, s \in RomSlots : roms[r] = roms[s] /\ roms[r] # NULL => r = s
    /\ layouts \in [LayoutSlots -> [at : Address, of : RomSlots \cup {"none", Gone}]]
    /\ \A l \in LayoutSlots : layouts[l].at = NULL <=> layouts[l].of = "none"
    /\ \A l \in LayoutSlots : layouts[l].at # NULL => heap[layouts[l].at].what = "layout"
    /\ \A l, k \in LayoutSlots :
          layouts[l].at = layouts[k].at /\ layouts[l].at # NULL => l = k
    /\ \A l \in LayoutSlots : layouts[l].of \in RomSlots =>
          /\ roms[layouts[l].of] # NULL
          /\ heap[heap[layouts[l].at].entries].rom = roms[layouts[l].of]

(* What each call under way has in hand. *)
OpensRom ==
    /\ local = [call |-> <<"open", local.slot>>, slot |-> local.slot, io |-> local.io,
                a |-> local.a, rom |-> local.rom]
    /\ local.slot \in RomSlots /\ roms[local.slot] = NULL
    /\ local.a \in Allocators

MakesLayout ==
    /\ local = [call |-> <<"layout", local.of, local.slot>>, slot |-> local.slot,
                of |-> local.of, rom |-> local.rom, a |-> local.a, entries |-> local.entries]
    /\ local.slot \in LayoutSlots /\ layouts[local.slot] = Nowhere
    /\ local.of \in RomSlots /\ roms[local.of] # NULL
    /\ local.a \in Allocators

WritesLayout ==
    /\ local = [call |-> local.call, layout |-> local.layout, io |-> local.io,
                table |-> local.table]
    /\ \E l \in LayoutSlots :
          /\ local.call = <<"write", l>>
          /\ local.layout = layouts[l].at /\ local.layout # NULL
          /\ layouts[l].of \in RomSlots
    /\ local.io \in Blocks /\ heap[local.io].what = "io"

CallIsGood ==
    /\ pc \in {"idle", "rom", "dmadata", "cic", "layout", "table", "write"}
    /\ pc = "rom" => OpensRom /\ local.io \in Blocks /\ heap[local.io].what = "io"
    /\ pc \in {"dmadata", "cic"} =>
          /\ OpensRom
          /\ local.rom \in Blocks /\ heap[local.rom].what = "rom"
          /\ local.rom \notin HandleRoots
    /\ pc = "dmadata" => heap[local.rom].dmadata = NULL
    /\ pc = "cic" => heap[local.rom].count \in Counts
    /\ pc = "layout" =>
          /\ MakesLayout
          /\ local.entries \in Blocks
          /\ heap[local.entries].what = "entries"
          /\ heap[local.entries].by = local.a
          /\ heap[local.entries].rom = roms[local.of]
          /\ heap[local.entries].count = heap[roms[local.of]].count
    /\ pc \in {"table", "write"} => WritesLayout
    /\ pc = "write" =>
          /\ local.table \in Blocks
          /\ heap[local.table].what = "table"
          /\ heap[local.table].by = heap[local.layout].allocator
    /\ said.error \in Errors \cup {"OK"}

IInv == Forest(heap, Roots) /\ HandlesAreGood /\ CallIsGood

-----------------------------------------------------------------------------
(* Lemmas about a heap. *)

(* There is a first address among the free ones. *)
LEMMA NextFreeIsFree ==
    ASSUME NEW h, Room(h)
    PROVE  NextFree(h) \in Blocks /\ h[NextFree(h)] = Free
<1> DEFINE free == Blocks \ Taken(h)
           less == {ss \in Nat \X Nat : ss[1] < ss[2]}
<1>1. free # {}
    BY DEF Room, NextFree
<1>0. IsWellFoundedOn(less, Nat)
    BY NatLessThanWellFounded DEF OpToRel
<1>2. free \subseteq Nat
    BY SessionAssumption
<1> HIDE DEF less
<1>3. PICK p \in free : \A q \in free : ~(<<q, p>> \in less)
    BY <1>0, <1>1, <1>2, WFMin
<1>4. ASSUME NEW q \in free PROVE p <= q
  <2>1. p \in Nat /\ q \in Nat
      BY <1>2
  <2>2. q < p => <<q, p>> \in less
      BY <2>1, SMT DEF less
  <2>3. QED
      BY <1>3, <2>1, <2>2
<1>5. NextFree(h) = CHOOSE x \in free : \A q \in free : x <= q
    BY <1>1 DEF NextFree
<1>6. NextFree(h) \in free
    BY <1>4, <1>5
<1>7. QED
    BY <1>6 DEF Taken

(* A block is given back to the allocator it came from. *)
LEMMA FreeTakes ==
    ASSUME NEW h \in [Blocks -> Block], NEW p \in Blocks, h[p] # Free, NEW a,
           a = h[p].by
    PROVE  zelda64_free(h, a, p) = [h EXCEPT ![p] = Free]
<1>1. p # NULL
    BY SessionAssumption
<1>2. h[p] # Corrupt
    BY DEF Block, Free, Stream, Corrupt, TableBlock, EntriesBlock, IoBlock, RomBlock, LayoutBlock
<1>3. QED
    BY <1>1, <1>2 DEF zelda64_free

(* An allocation that is undone leaves no trace. *)
LEMMA FreeUndoesPut ==
    ASSUME NEW h, h \in [Blocks -> Block], Room(h), NEW b \in Block, b # Free, NEW a, a = b.by
    PROVE  zelda64_free(Put(h, b), a, NextFree(h)) = h
<1> DEFINE p == NextFree(h)
           g == Put(h, b)
<1>1. p \in Blocks /\ h[p] = Free
    BY NextFreeIsFree
<1> HIDE DEF p
<1>2. g = [h EXCEPT ![p] = b]
    BY DEF Put, p
<1>3. g \in [Blocks -> Block] /\ g[p] = b
    BY <1>1, <1>2
<1>4. zelda64_free(g, a, p) = [g EXCEPT ![p] = Free]
    BY <1>1, <1>3, FreeTakes
<1>5. [g EXCEPT ![p] = Free] = h
    BY <1>1, <1>2
<1>6. QED
    BY <1>4, <1>5 DEF p

(* What a block owns are blocks. *)
LEMMA OwnedAreBlocks ==
    ASSUME NEW b \in Block
    PROVE  Owned(b) \subseteq Blocks
BY SessionAssumption
   DEF Block, Owned, Free, Stream, TableBlock, EntriesBlock, IoBlock, RomBlock, LayoutBlock, Address

(* And they are taken. *)
LEMMA OwnedAreTaken ==
    ASSUME NEW h, NEW R, Forest(h, R), NEW p \in Blocks, NEW q \in Owned(h[p])
    PROVE  q \in Taken(h)
<1>1. h[p] \in Block /\ Fits(h, h[p])
    BY DEF Forest
<1>2. q \in Blocks
    BY <1>1, OwnedAreBlocks
<1>3. h[q].what # "free"
    BY <1>1 DEF Owned, Fits, Stream
<1>4. QED
    BY <1>2, <1>3 DEF Taken, Free

(* Whatever a block owns is where it was, so the block still fits. *)
LEMMA FitsStays ==
    ASSUME NEW h, NEW g, NEW b \in Block, Fits(h, b), \A q \in Owned(b) : g[q] = h[q]
    PROVE  Fits(g, b)
<1>1. CASE b.what = "io"
  <2>1. b.file # NULL => b.file \in Owned(b)
      BY <1>1 DEF Owned
  <2>2. QED
      BY <1>1, <2>1 DEF Fits
<1>2. CASE b.what = "rom"
  <2>1. b.io \in Blocks
      BY <1>2 DEF Block, Free, Stream, TableBlock, EntriesBlock, IoBlock, RomBlock, LayoutBlock
  <2>2. b.io \in Owned(b) /\ (b.dmadata # NULL => b.dmadata \in Owned(b))
      BY <1>2, <2>1, SessionAssumption DEF Owned
  <2>3. QED
      BY <1>2, <2>2 DEF Fits
<1>3. CASE b.what = "layout"
  <2>1. b.entries \in Owned(b)
      BY <1>3 DEF Owned
  <2>2. QED
      BY <1>3, <2>1 DEF Fits
<1>4. CASE b.what \notin {"io", "rom", "layout"}
    BY <1>4 DEF Fits
<1>5. QED
    BY <1>1, <1>2, <1>3, <1>4

(* A block that takes over some of the roots is put into the heap. *)
LEMMA PutKeeps ==
    ASSUME NEW h, NEW R, Forest(h, R), Room(h),
           NEW b \in Block, b # Free, Owned(b) \subseteq R, Fits(h, b)
    PROVE  /\ Forest(Put(h, b), (R \ Owned(b)) \cup {NextFree(h)})
           /\ NextFree(h) \in Blocks \ Taken(h)
           /\ Put(h, b) = [h EXCEPT ![NextFree(h)] = b]
           /\ Put(h, b)[NextFree(h)] = b
<1> DEFINE p == NextFree(h)
           g == Put(h, b)
           S == (R \ Owned(b)) \cup {p}
<1>1. p \in Blocks /\ h[p] = Free
    BY NextFreeIsFree
<1>2. g = [h EXCEPT ![p] = b]
    BY DEF Put
<1> HIDE DEF p, g
<1>3. h \in [Blocks -> Block]
    BY DEF Forest
<1>4. g \in [Blocks -> Block] /\ g[p] = b /\ \A q \in Blocks \ {p} : g[q] = h[q]
    BY <1>1, <1>2, <1>3
<1>5. p \notin Taken(h) /\ Taken(g) = Taken(h) \cup {p}
    BY <1>1, <1>4 DEF Taken
<1>6. Owned(h[p]) = {}
    BY <1>1 DEF Owned, Free
<1>7. R \subseteq Taken(h)
    BY DEF Forest
<1>8. \A q \in Blocks : p \notin Owned(h[q])
    BY <1>5, OwnedAreTaken
<1>9. \A q \in Blocks : Fits(g, g[q])
  <2>1. Fits(g, b)
    <3>1. \A q \in Owned(b) : q \in Blocks /\ q # p
        BY <1>5, <1>7, OwnedAreBlocks
    <3>2. QED
        BY <1>4, <3>1, FitsStays
  <2>2. ASSUME NEW q \in Blocks, q # p PROVE Fits(g, g[q])
    <3>1. h[q] \in Block /\ Fits(h, h[q])
        BY <1>3 DEF Forest
    <3>2. \A x \in Owned(h[q]) : x \in Blocks /\ x # p
        BY <1>8, <3>1, OwnedAreBlocks
    <3>3. Fits(g, h[q])
        BY <1>4, <3>1, <3>2, FitsStays
    <3>4. QED
        BY <1>4, <2>2, <3>3
  <2>3. QED
      BY <1>4, <2>1, <2>2
<1>10. \A x, y \in Blocks : x # y => Owned(g[x]) \cap Owned(g[y]) = {}
  <2>1. \A x, y \in Blocks : x # y => Owned(h[x]) \cap Owned(h[y]) = {}
      BY DEF Forest
  <2>2. \A x \in Blocks : Owned(h[x]) \cap Owned(b) = {}
      BY DEF Forest
  <2>3. QED
      BY <1>4, <2>1, <2>2
<1>11. \A x \in Blocks : Owned(g[x]) \cap S = {}
  <2>1. \A x \in Blocks \ {p} : Owned(g[x]) \cap R = {} /\ p \notin Owned(g[x])
      BY <1>4, <1>8 DEF Forest
  <2>2. p \notin Owned(b)
      BY <1>5, <1>7
  <2>3. QED
      BY <1>4, <2>1, <2>2
<1>12. \A q \in Taken(g) \ S : \E x \in Blocks : q \in Owned(g[x])
  <2> SUFFICES ASSUME NEW q \in Taken(g) \ S PROVE \E x \in Blocks : q \in Owned(g[x])
      OBVIOUS
  <2>1. CASE q \in Owned(b)
      BY <1>1, <1>4, <2>1
  <2>2. CASE q \notin Owned(b)
    <3>1. q \in Taken(h) \ R
        BY <1>5, <2>2
    <3>2. PICK x \in Blocks : q \in Owned(h[x])
        BY <3>1 DEF Forest
    <3>3. x # p
        BY <1>6, <3>2
    <3>4. QED
        BY <1>4, <3>2, <3>3
  <2>3. QED
      BY <2>1, <2>2
<1>13. S \subseteq Taken(g)
    BY <1>5, <1>7
<1>14. Forest(g, S)
    BY <1>4, <1>9, <1>10, <1>11, <1>12, <1>13 DEF Forest
<1>15. QED
    BY <1>1, <1>2, <1>4, <1>5, <1>14 DEF p, g

(* A root takes over a block that is put into the heap. *)
LEMMA GrowKeeps ==
    ASSUME NEW h, NEW R, Forest(h, R), Room(h), NEW p \in R,
           NEW c \in Block, c.what \in {"FILE", "table"},
           NEW b \in Block, b # Free, Owned(b) = Owned(h[p]) \cup {NextFree(h)},
           NEW g, g = [Put(h, c) EXCEPT ![p] = b], Fits(g, b)
    PROVE  /\ Forest(g, R)
           /\ NextFree(h) \in Blocks \ Taken(h)
           /\ g[p] = b
           /\ \A q \in Taken(h) \ {p} : g[q] = h[q]
<1> DEFINE t == NextFree(h)
<1>1. t \in Blocks /\ h[t] = Free
    BY NextFreeIsFree
<1>2. g = [[h EXCEPT ![t] = c] EXCEPT ![p] = b]
    BY DEF Put
<1> HIDE DEF t
<1>3. h \in [Blocks -> Block] /\ R \subseteq Taken(h)
    BY DEF Forest
<1>4. p \in Blocks /\ h[p] # Free /\ p # t /\ c # Free
    BY <1>1, <1>3 DEF Taken, Free
<1>5. /\ g \in [Blocks -> Block]
      /\ g[p] = b /\ g[t] = c
      /\ \A q \in Blocks \ {p, t} : g[q] = h[q]
    BY <1>1, <1>2, <1>3, <1>4
<1>6. t \notin Taken(h) /\ Taken(g) = Taken(h) \cup {t}
    BY <1>1, <1>4, <1>5 DEF Taken
<1>7. \A q \in Blocks : t \notin Owned(h[q]) /\ p \notin Owned(h[q])
    BY <1>6, OwnedAreTaken DEF Forest
<1>8. \A q \in Blocks : Fits(g, g[q])
  <2>1. Fits(g, c)
      BY DEF Fits
  <2>2. ASSUME NEW q \in Blocks, q \notin {p, t} PROVE Fits(g, g[q])
    <3>1. h[q] \in Block /\ Fits(h, h[q])
        BY <1>3 DEF Forest
    <3>2. \A x \in Owned(h[q]) : x \in Blocks /\ x \notin {p, t}
        BY <1>7, <3>1, OwnedAreBlocks
    <3>3. Fits(g, h[q])
        BY <1>5, <3>1, <3>2, FitsStays
    <3>4. QED
        BY <1>5, <2>2, <3>3
  <2>3. QED
      BY <1>5, <2>1, <2>2
<1> DEFINE before(q) == Owned(h[q])
           after(q) == Owned(g[q])
<1>9. /\ after(p) = before(p) \cup {t} /\ after(t) = {} /\ before(t) = {}
      /\ \A q \in Blocks \ {p, t} : after(q) = before(q)
  <2>1. Owned(h[t]) = {} /\ Owned(c) = {}
      BY <1>1 DEF Owned, Free
  <2>2. QED
      BY <1>5, <2>1 DEF t
<1>10. \A x, y \in Blocks : x # y => before(x) \cap before(y) = {}
    BY DEF Forest
<1>11. \A x \in Blocks : before(x) \cap R = {} /\ t \notin before(x)
    BY <1>7 DEF Forest
<1>12. \A q \in Taken(h) \ R : \E x \in Blocks : q \in before(x)
    BY DEF Forest
<1>13. t \notin R
    BY <1>3, <1>6
<1>14. /\ \A x, y \in Blocks : x # y => after(x) \cap after(y) = {}
       /\ \A x \in Blocks : after(x) \cap R = {}
       /\ \A q \in Taken(g) \ R : \E x \in Blocks : q \in after(x)
  <2> HIDE DEF before, after
  <2>1. \A x \in Blocks : after(x) = IF x = p THEN before(p) \cup {t} ELSE before(x)
      BY <1>9
  <2>2. ASSUME NEW x \in Blocks, NEW y \in Blocks, x # y PROVE after(x) \cap after(y) = {}
    <3>1. before(x) \cap before(y) = {} /\ t \notin before(x) /\ t \notin before(y)
        BY <1>10, <1>11, <2>2
    <3>2. CASE x = p
        BY <2>1, <2>2, <3>1, <3>2
    <3>3. CASE x # p
        BY <2>1, <2>2, <3>1, <3>3
    <3>4. QED
        BY <3>2, <3>3
  <2>3. \A x \in Blocks : after(x) \cap R = {}
      BY <1>11, <1>13, <2>1
  <2>4. ASSUME NEW q \in Taken(g) \ R PROVE \E x \in Blocks : q \in after(x)
    <3>1. CASE q = t
        BY <1>4, <2>1, <3>1
    <3>2. CASE q # t
      <4>1. q \in Taken(h) \ R
          BY <1>6, <2>4, <3>2
      <4>2. PICK x \in Blocks : q \in before(x)
          BY <1>12, <4>1
      <4>3. q \in after(x)
          BY <2>1, <4>2
      <4>4. QED
          BY <4>3
    <3>3. QED
        BY <3>1, <3>2
  <2>5. QED
      BY <2>2, <2>3, <2>4
<1>15. R \subseteq Taken(g)
    BY <1>3, <1>6
<1>16. Forest(g, R)
    BY <1>5, <1>8, <1>14, <1>15 DEF Forest
<1>17. \A q \in Taken(h) \ {p} : g[q] = h[q]
    BY <1>5, <1>6 DEF Taken
<1>18. QED
    BY <1>1, <1>5, <1>6, <1>16, <1>17 DEF t

(* A root is released with all that it leads to. *)
Release(h, S) == [q \in Blocks |-> IF q \in S THEN Free ELSE h[q]]

LEMMA ReleaseKeeps ==
    ASSUME NEW h, NEW R, Forest(h, R), NEW p \in R, NEW S, p \in S,
           \A x \in S : Owned(h[x]) \subseteq S,
           \A q \in S \ {p} : \E x \in S : q \in Owned(h[x]), S \subseteq Blocks
    PROVE  /\ Forest(Release(h, S), R \ {p})
           /\ S \cap R = {p}
           /\ \A x \in Blocks \ S : Owned(h[x]) \cap S = {}
<1> DEFINE g == Release(h, S)
<1>1. h \in [Blocks -> Block] /\ R \subseteq Taken(h)
    BY DEF Forest
<1>2. \A x \in Blocks : g[x] = IF x \in S THEN Free ELSE h[x]
    BY DEF Release
<1>3. Free \in Block
    BY DEF Block
<1>4. g \in [Blocks -> Block]
    BY <1>1, <1>3 DEF Release
<1> DEFINE before(q) == Owned(h[q])
           after(q) == Owned(g[q])
<1>5. Owned(Free) = {} /\ Fits(g, Free)
    BY DEF Owned, Free, Fits
<1> HIDE DEF g
<1>6. \A x \in Blocks : after(x) = IF x \in S THEN {} ELSE before(x)
    BY <1>2, <1>5
<1>7. \A x, y \in Blocks : x # y => before(x) \cap before(y) = {}
    BY DEF Forest
<1>8. \A x \in Blocks : before(x) \cap R = {}
    BY DEF Forest
<1>9. \A q \in Taken(h) \ R : \E x \in Blocks : q \in before(x)
    BY DEF Forest
<1>10. Taken(g) = Taken(h) \ S
    BY <1>2 DEF Taken
<1>11. S \cap R = {p}
    BY <1>8
<1>12. \A x \in Blocks \ S : before(x) \cap S = {}
  <2> SUFFICES ASSUME NEW x \in Blocks \ S, NEW q \in S, q \in before(x) PROVE FALSE
      OBVIOUS
  <2>1. q # p
      BY <1>8
  <2>2. PICK y \in S : q \in before(y)
      BY <2>1
  <2>3. QED
      BY <1>7, <2>2
<1>13. \A q \in Blocks : Fits(g, g[q])
  <2> SUFFICES ASSUME NEW q \in Blocks PROVE Fits(g, g[q])
      OBVIOUS
  <2>1. CASE q \in S
      BY <1>2, <1>5, <2>1
  <2>2. CASE q \notin S
    <3>1. h[q] \in Block /\ Fits(h, h[q])
        BY <1>1 DEF Forest
    <3>2. \A x \in Owned(h[q]) : x \in Blocks \ S
        BY <1>12, <2>2, <3>1, OwnedAreBlocks
    <3>3. Fits(g, h[q])
        BY <1>2, <3>1, <3>2, FitsStays
    <3>4. QED
        BY <1>2, <2>2, <3>3
  <2>3. QED
      BY <2>1, <2>2
<1>14. R \ {p} \subseteq Taken(g)
    BY <1>1, <1>10, <1>11
<1>15. /\ \A x, y \in Blocks : x # y => after(x) \cap after(y) = {}
       /\ \A x \in Blocks : after(x) \cap (R \ {p}) = {}
       /\ \A q \in Taken(g) \ (R \ {p}) : \E x \in Blocks : q \in after(x)
  <2> HIDE DEF before, after
  <2>1. \A x, y \in Blocks : x # y => after(x) \cap after(y) = {}
      BY <1>6, <1>7
  <2>2. \A x \in Blocks : after(x) \cap (R \ {p}) = {}
      BY <1>6, <1>8
  <2>3. ASSUME NEW q \in Taken(g) \ (R \ {p}) PROVE \E x \in Blocks : q \in after(x)
    <3>1. q \in Taken(h) \ R /\ q \notin S
        BY <1>10, <2>3
    <3>2. PICK x \in Blocks : q \in before(x)
        BY <1>9, <3>1
    <3>3. x \notin S
        BY <3>1, <3>2 DEF before
    <3>4. QED
        BY <1>6, <3>2, <3>3
  <2>4. QED
      BY <2>1, <2>2, <2>3
<1>16. Forest(g, R \ {p})
    BY <1>4, <1>13, <1>14, <1>15 DEF Forest
<1>17. QED
    BY <1>11, <1>12, <1>16 DEF g

(* One more block is given back to the allocator it came from. *)
LEMMA FreeReleases ==
    ASSUME NEW h \in [Blocks -> Block], NEW S, NEW p \in Blocks \ S, h[p] # Free,
           NEW a, a = h[p].by
    PROVE  zelda64_free(Release(h, S), a, p) = Release(h, S \cup {p})
<1> DEFINE g == Release(h, S)
<1>1. Free \in Block
    BY DEF Block
<1>2. g \in [Blocks -> Block] /\ g[p] = h[p]
    BY <1>1 DEF Release
<1> HIDE DEF g
<1>3. zelda64_free(g, a, p) = [g EXCEPT ![p] = Free]
    BY <1>2, FreeTakes
<1>4. [g EXCEPT ![p] = Free] = Release(h, S \cup {p})
    BY DEF Release, g
<1>5. QED
    BY <1>3, <1>4 DEF g

LEMMA ReleaseNothing ==
    ASSUME NEW h \in [Blocks -> Block]
    PROVE  Release(h, {}) = h
BY DEF Release

IoParts(h, io) == {io} \cup Owned(h[io])
RomParts(h, p) == {p} \cup Owned(h[p]) \cup Owned(h[h[p].io])
LayoutParts(h, p) == {p, h[p].entries}

(* The fields of a block by its kind. *)
LEMMA IoFields ==
    ASSUME NEW b \in Block, b.what = "io"
    PROVE  /\ b = [what |-> "io", by |-> b.by, allocator |-> b.allocator, file |-> b.file]
           /\ b.by = b.allocator /\ b.by \in Allocators /\ b.file \in Address
           /\ b # Free
           /\ Owned(b) = {b.file} \ {NULL}
BY DEF Block, Free, Stream, TableBlock, EntriesBlock, IoBlock, RomBlock, LayoutBlock, Owned

LEMMA RomFields ==
    ASSUME NEW b \in Block, b.what = "rom"
    PROVE  /\ b = [what |-> "rom", by |-> b.by, allocator |-> b.allocator, io |-> b.io,
                   dmadata |-> b.dmadata, count |-> b.count]
           /\ b.by = b.allocator /\ b.by \in Allocators /\ b.io \in Blocks
           /\ b.dmadata \in Address
           /\ b # Free
           /\ Owned(b) = {b.io, b.dmadata} \ {NULL}
BY DEF Block, Free, Stream, TableBlock, EntriesBlock, IoBlock, RomBlock, LayoutBlock, Owned

LEMMA LayoutFields ==
    ASSUME NEW b \in Block, b.what = "layout"
    PROVE  /\ b.by = b.allocator /\ b.by \in Allocators /\ b.entries \in Blocks
           /\ b.count \in Counts
           /\ b # Free
           /\ Owned(b) = {b.entries}
BY DEF Block, Free, Stream, TableBlock, EntriesBlock, IoBlock, RomBlock, LayoutBlock, Owned

LEMMA EntriesFields ==
    ASSUME NEW b \in Block, b.what = "entries"
    PROVE  b.by \in Allocators /\ b.rom \in Blocks /\ b.count \in Counts /\ b # Free
BY DEF Block, Free, Stream, TableBlock, EntriesBlock, IoBlock, RomBlock, LayoutBlock

(* Closing an I/O object gives back its FILE and its state. *)
LEMMA IoCloseReleases ==
    ASSUME NEW h \in [Blocks -> Block], NEW S \in SUBSET Blocks, NEW io \in Blocks \ S,
           h[io].what = "io", Fits(h, h[io]), Owned(h[io]) \cap S = {}
    PROVE  zelda64_io_close(Release(h, S), io) = Release(h, S \cup IoParts(h, io))
<1> DEFINE b == h[io]
           g == Release(h, S)
<1>1. /\ b.by = b.allocator /\ b.file \in Address /\ b # Free /\ Owned(b) = {b.file} \ {NULL}
    BY IoFields
<1>2. g[io] = b
    BY DEF Release
<1> DEFINE F == {b.file} \ {NULL}
<1> HIDE DEF g
<1>3. zelda64_free(g, "stdio", b.file) = Release(h, S \cup F)
  <2>1. CASE b.file = NULL
    <3>1. F = {}
        BY <2>1
    <3>2. QED
        BY <2>1, <3>1 DEF zelda64_free, g
  <2>2. CASE b.file # NULL
    <3>1. h[b.file] = Stream
        BY <2>2 DEF Fits
    <3>2. h[b.file] # Free /\ h[b.file].by = "stdio"
        BY <3>1 DEF Stream, Free
    <3>3. b.file \in Blocks \ S
        BY <1>1, <2>2 DEF Address
    <3>4. zelda64_free(Release(h, S), "stdio", b.file) = Release(h, S \cup {b.file})
        BY <3>2, <3>3, FreeReleases
    <3>5. F = {b.file}
        BY <2>2
    <3>6. QED
        BY <3>4, <3>5 DEF g
  <2>3. QED
      BY <2>1, <2>2
<1>4. io \notin S \cup F
  <2>1. b.file = io => h[io] = Stream \/ io = NULL
      BY DEF Fits
  <2>2. io # NULL
      BY SessionAssumption
  <2>3. QED
      BY <2>1, <2>2 DEF Stream
<1>5. zelda64_free(Release(h, S \cup F), b.allocator, io) = Release(h, S \cup F \cup {io})
  <2> DEFINE T == S \cup F
  <2>1. io \in Blocks \ T /\ h[io] # Free /\ b.allocator = h[io].by
      BY <1>1, <1>4
  <2> HIDE DEF T, b
  <2>2. zelda64_free(Release(h, T), b.allocator, io) = Release(h, T \cup {io})
      BY <2>1, FreeReleases
  <2>3. QED
      BY <2>2 DEF T
<1>6. S \cup F \cup {io} = S \cup IoParts(h, io)
    BY <1>1 DEF IoParts
<1>7. QED
    BY <1>2, <1>3, <1>5, <1>6 DEF zelda64_io_close, g

LEMMA IoCloses ==
    ASSUME NEW h, NEW R, Forest(h, R), NEW io \in Blocks, h[io].what = "io"
    PROVE  zelda64_io_close(h, io) = Release(h, IoParts(h, io))
<1>1. h \in [Blocks -> Block] /\ Fits(h, h[io])
    BY DEF Forest
<1>2. zelda64_io_close(Release(h, {}), io) = Release(h, {} \cup IoParts(h, io))
    BY <1>1, IoCloseReleases
<1>3. QED
    BY <1>1, <1>2, ReleaseNothing

(* Closing a ROM gives back its table, its I/O object and itself. *)
LEMMA RomCloses ==
    ASSUME NEW h, NEW R, Forest(h, R), NEW p \in Blocks, h[p].what = "rom"
    PROVE  zelda64_close(h, p) = Release(h, RomParts(h, p))
<1>1. h \in [Blocks -> Block] /\ Fits(h, h[p])
    BY DEF Forest
<1> DEFINE a == h[p].allocator
           io == h[p].io
           t == h[p].dmadata
           T == {t} \ {NULL}
<1>2. /\ h[p].by = a /\ io \in Blocks /\ t \in Address
      /\ h[p] # Free /\ Owned(h[p]) = {io, t} \ {NULL}
    BY <1>1, RomFields
<1>3. h[io].what = "io" /\ (t # NULL => h[t].what = "table" /\ h[t].by = a)
    BY <1>1 DEF Fits
<1> HIDE DEF a, io, t
<1>4. zelda64_free(h, a, t) = Release(h, T)
  <2>1. CASE t = NULL
    <3>1. T = {}
        BY <2>1
    <3>2. QED
        BY <1>1, <2>1, <3>1, ReleaseNothing DEF zelda64_free
  <2>2. CASE t # NULL
    <3>1. t \in Blocks \ {} /\ h[t] # Free /\ a = h[t].by
        BY <1>2, <1>3, <2>2 DEF Address, Free
    <3>2. zelda64_free(h, a, t) = [h EXCEPT ![t] = Free]
        BY <1>1, <3>1, FreeTakes
    <3>3. T = {t}
        BY <2>2
    <3>4. QED
        BY <1>1, <3>2, <3>3 DEF Release
  <2>3. QED
      BY <2>1, <2>2
<1>5. T \in SUBSET Blocks /\ io \in Blocks \ T
    BY <1>2, <1>3 DEF Address
<1>6. Fits(h, h[io]) /\ h[io] \in Block
    BY <1>2 DEF Forest
<1>7. Owned(h[io]) \cap T = {}
  <2>1. \A q \in Owned(h[io]) : h[q] = Stream
      BY <1>3, <1>6 DEF Fits, Owned
  <2>2. QED
      BY <1>3, <2>1 DEF Stream
<1>8. zelda64_io_close(Release(h, T), io) = Release(h, T \cup IoParts(h, io))
    BY <1>1, <1>3, <1>5, <1>6, <1>7, IoCloseReleases
<1> DEFINE S == T \cup IoParts(h, io)
<1>9. p \notin S
  <2>1. \A q \in Owned(h[io]) : h[q] = Stream
      BY <1>3, <1>6 DEF Fits, Owned
  <2>2. QED
      BY <1>3, <2>1 DEF Stream, IoParts
<1>10. zelda64_free(Release(h, S), a, p) = Release(h, S \cup {p})
  <2>1. p \in Blocks \ S
      BY <1>9
  <2> HIDE DEF S
  <2>2. QED
      BY <1>1, <1>2, <2>1, FreeReleases
<1>11. S \cup {p} = RomParts(h, p)
    BY <1>2, SessionAssumption DEF RomParts, IoParts, io
<1>12. zelda64_close(h, p) = zelda64_free(zelda64_io_close(zelda64_free(h, a, t), io), a, p)
  <2>1. p \notin T
      BY <1>9
  <2>2. Release(h, T)[p] = h[p]
      BY <2>1 DEF Release
  <2>3. Release(h, S)[p] = h[p]
      BY <1>9 DEF Release
  <2> HIDE DEF S, T
  <2>4. QED
      BY <1>4, <1>8, <2>2, <2>3 DEF zelda64_close, a, io, t, S
<1>13. QED
    BY <1>4, <1>8, <1>10, <1>11, <1>12

(* The three ways in which roots are released with what they lead to.      *)
LEMMA IoIsReleased ==
    ASSUME NEW h, NEW R, Forest(h, R), NEW io \in R, h[io].what = "io"
    PROVE  /\ Forest(Release(h, IoParts(h, io)), R \ {io})
           /\ IoParts(h, io) \cap R = {io}
           /\ \A x \in Blocks \ IoParts(h, io) : Owned(h[x]) \cap IoParts(h, io) = {}
<1> DEFINE S == IoParts(h, io)
<1>1. h \in [Blocks -> Block] /\ io \in Blocks /\ Fits(h, h[io])
    BY DEF Forest, Taken
<1>2. \A q \in Owned(h[io]) : q \in Blocks /\ h[q] = Stream
    BY <1>1, OwnedAreBlocks DEF Fits, Owned
<1>3. \A q \in Owned(h[io]) : Owned(h[q]) = {}
    BY <1>2 DEF Owned, Stream
<1>4. /\ io \in S /\ S \subseteq Blocks
      /\ \A x \in S : Owned(h[x]) \subseteq S
      /\ \A q \in S \ {io} : \E x \in S : q \in Owned(h[x])
    BY <1>1, <1>2, <1>3 DEF IoParts
<1> HIDE DEF S
<1>5. QED
    BY <1>4, ReleaseKeeps DEF S

LEMMA RomIsReleased ==
    ASSUME NEW h, NEW R, Forest(h, R), NEW p \in R, h[p].what = "rom"
    PROVE  /\ Forest(Release(h, RomParts(h, p)), R \ {p})
           /\ RomParts(h, p) \cap R = {p}
           /\ \A x \in Blocks \ RomParts(h, p) : Owned(h[x]) \cap RomParts(h, p) = {}
<1> DEFINE S == RomParts(h, p)
           io == h[p].io
<1>1. h \in [Blocks -> Block] /\ p \in Blocks /\ Fits(h, h[p])
    BY DEF Forest, Taken
<1>2. /\ io \in Blocks /\ Owned(h[p]) = {io, h[p].dmadata} \ {NULL}
      /\ io \in Owned(h[p])
    BY <1>1, RomFields, SessionAssumption
<1>3. Fits(h, h[io]) /\ h[io].what = "io"
    BY <1>1, <1>2 DEF Forest, Fits
<1>4. \A q \in Owned(h[io]) : q \in Blocks /\ h[q] = Stream
    BY <1>1, <1>2, <1>3, OwnedAreBlocks DEF Fits, Owned
<1>5. \A q \in Owned(h[io]) : Owned(h[q]) = {}
    BY <1>4 DEF Owned, Stream
<1>6. \A q \in Owned(h[p]) : q # io => Owned(h[q]) = {}
  <2>1. \A q \in Owned(h[p]) : q # io => h[q].what = "table"
      BY <1>1, <1>2 DEF Fits
  <2>2. QED
      BY <2>1 DEF Owned
<1>7. Owned(h[p]) \subseteq Blocks
    BY <1>1, OwnedAreBlocks
<1>8. S = {p} \cup Owned(h[p]) \cup Owned(h[io])
    BY DEF RomParts
<1> HIDE DEF S, io
<1>9. /\ p \in S /\ S \subseteq Blocks
      /\ \A x \in S : Owned(h[x]) \subseteq S
      /\ \A q \in S \ {p} : \E x \in S : q \in Owned(h[x])
  <2>1. \A x \in S : Owned(h[x]) \subseteq S
      BY <1>5, <1>6, <1>8
  <2>2. \A q \in S \ {p} : \E x \in S : q \in Owned(h[x])
      BY <1>2, <1>8
  <2>3. QED
      BY <1>1, <1>4, <1>7, <1>8, <2>1, <2>2
<1>10. QED
    BY <1>9, ReleaseKeeps DEF S

LEMMA LayoutIsReleased ==
    ASSUME NEW h, NEW R, Forest(h, R), NEW p \in R, h[p].what = "layout"
    PROVE  /\ Forest(Release(h, LayoutParts(h, p)), R \ {p})
           /\ LayoutParts(h, p) \cap R = {p}
           /\ \A x \in Blocks \ LayoutParts(h, p) : Owned(h[x]) \cap LayoutParts(h, p) = {}
<1> DEFINE S == LayoutParts(h, p)
<1>1. h \in [Blocks -> Block] /\ p \in Blocks /\ Fits(h, h[p])
    BY DEF Forest, Taken
<1>2. h[p].entries \in Blocks /\ Owned(h[p]) = {h[p].entries}
    BY <1>1, LayoutFields
<1>3. Owned(h[h[p].entries]) = {}
    BY <1>1 DEF Fits, Owned
<1>4. /\ p \in S /\ S \subseteq Blocks
      /\ \A x \in S : Owned(h[x]) \subseteq S
      /\ \A q \in S \ {p} : \E x \in S : q \in Owned(h[x])
    BY <1>1, <1>2, <1>3 DEF LayoutParts
<1> HIDE DEF S
<1>5. QED
    BY <1>4, ReleaseKeeps DEF S

(* So is a block that owns nothing. *)
LEMMA LeafIsReleased ==
    ASSUME NEW h, NEW R, Forest(h, R), NEW p \in R, Owned(h[p]) = {}
    PROVE  /\ Forest(Release(h, {p}), R \ {p})
           /\ \A x \in Blocks \ {p} : Owned(h[x]) \cap {p} = {}
<1> DEFINE S == {p}
<1>1. /\ p \in S /\ S \subseteq Blocks
      /\ \A x \in S : Owned(h[x]) \subseteq S
      /\ \A q \in S \ {p} : \E x \in S : q \in Owned(h[x])
    BY DEF Forest, Taken
<1> HIDE DEF S
<1>2. QED
    BY <1>1, ReleaseKeeps DEF S

-----------------------------------------------------------------------------
(* The handles of the caller while the heap changes at the addresses D.    *)

Away(D) ==
    /\ \A p \in HandleRoots : p \notin D
    /\ \A l \in LayoutSlots : layouts[l].at # NULL => heap[layouts[l].at].entries \notin D

Elsewhere(D) == \A q \in Blocks \ D : heap'[q] = heap[q]

(* What every action that neither gives nor takes a handle does.           *)
StaysPut ==
    /\ UNCHANGED held
    /\ \A q \in HandleRoots : heap'[q] = heap[q]

LEMMA HandlesAreTaken ==
    ASSUME IInv
    PROVE  /\ heap \in [Blocks -> Block]
           /\ \A r \in RomSlots : roms[r] # NULL => roms[r] \in Taken(heap)
           /\ \A l \in LayoutSlots : layouts[l].at # NULL =>
                 /\ layouts[l].at \in Taken(heap)
                 /\ heap[layouts[l].at].entries \in Taken(heap)
                 /\ heap[layouts[l].at].entries \in Owned(heap[layouts[l].at])
           /\ HandleRoots \subseteq Taken(heap) /\ Taken(heap) \subseteq Blocks
<1>1. Forest(heap, Roots) /\ HandlesAreGood
    BY DEF IInv
<1>2. heap \in [Blocks -> Block] /\ Roots \subseteq Taken(heap)
    BY <1>1 DEF Forest
<1>3. HandleRoots \subseteq Taken(heap) /\ Taken(heap) \subseteq Blocks
    BY <1>2 DEF Roots, Taken
<1>4. \A r \in RomSlots : roms[r] # NULL => roms[r] \in Taken(heap)
    BY <1>3 DEF HandleRoots
<1>5. ASSUME NEW l \in LayoutSlots, layouts[l].at # NULL
      PROVE  /\ layouts[l].at \in Taken(heap)
             /\ heap[layouts[l].at].entries \in Taken(heap)
             /\ heap[layouts[l].at].entries \in Owned(heap[layouts[l].at])
  <2> DEFINE p == layouts[l].at
  <2>1. p \in Taken(heap) /\ p \in Blocks
      BY <1>3, <1>5 DEF HandleRoots
  <2>2. heap[p].what = "layout" /\ heap[p] \in Block
      BY <1>1, <1>2, <1>5, <2>1 DEF HandlesAreGood
  <2>3. heap[p].entries \in Owned(heap[p])
      BY <2>2, LayoutFields
  <2>4. QED
      BY <1>1, <2>1, <2>3, OwnedAreTaken
<1>6. QED
    BY <1>2, <1>3, <1>4, <1>5

LEMMA HandlesStay ==
    ASSUME IInv, NEW D, Away(D), Elsewhere(D), UNCHANGED held
    PROVE  HandlesAreGood' /\ StaysPut /\ HandleRoots' = HandleRoots
<1>1. HandlesAreGood
    BY DEF IInv
<1>2. \A q \in HandleRoots : heap'[q] = heap[q]
    BY HandlesAreTaken DEF Away, Elsewhere
<1>3. \A r \in RomSlots : roms[r] # NULL => heap'[roms[r]] = heap[roms[r]]
    BY <1>2 DEF HandleRoots
<1>4. \A l \in LayoutSlots : layouts[l].at # NULL =>
         /\ heap'[layouts[l].at] = heap[layouts[l].at]
         /\ heap'[heap[layouts[l].at].entries] = heap[heap[layouts[l].at].entries]
  <2>1. \A l \in LayoutSlots : layouts[l].at # NULL => layouts[l].at \in HandleRoots
      BY DEF HandleRoots
  <2>2. QED
      BY <1>2, <2>1, HandlesAreTaken DEF Away, Elsewhere
<1>5. roms' = roms /\ layouts' = layouts
    BY DEF held
<1>6. \A l \in LayoutSlots : layouts[l].of \in RomSlots => layouts[l].at # NULL
    BY <1>1, SessionAssumption DEF HandlesAreGood, Nowhere
<1>7. HandlesAreGood'
    BY <1>1, <1>3, <1>4, <1>5, <1>6 DEF HandlesAreGood
<1>8. QED
    BY <1>2, <1>5, <1>7 DEF StaysPut, HandleRoots, held

(* A call returns, and the handles are all there is. *)
LEMMA ReturnsIdle ==
    ASSUME IInv, Forest(heap', HandleRoots), NEW D, Away(D), Elsewhere(D), UNCHANGED held,
           pc' = "idle", said'.error \in Errors \cup {"OK"}
    PROVE  IInv' /\ StaysPut
<1>1. HandlesAreGood' /\ StaysPut /\ HandleRoots' = HandleRoots
    BY HandlesStay
<1>2. Roots' = HandleRoots
    BY <1>1 DEF Roots, CallHolds
<1>3. CallIsGood'
    BY DEF CallIsGood
<1>4. QED
    BY <1>1, <1>2, <1>3 DEF IInv

(* A new block is nowhere near a handle. *)
LEMMA NewIsAway ==
    ASSUME IInv, NEW p, p \notin Taken(heap)
    PROVE  Away({p})
BY HandlesAreTaken DEF Away

(* Nor is what the call under way gives up. *)
LEMMA ReleasedIsAway ==
    ASSUME IInv, NEW S, \A p \in HandleRoots : p \notin S,
           \A x \in Blocks \ S : Owned(heap[x]) \cap S = {}
    PROVE  Away(S)
<1> SUFFICES ASSUME NEW l \in LayoutSlots, layouts[l].at # NULL
             PROVE  heap[layouts[l].at].entries \notin S
    BY DEF Away
<1>1. layouts[l].at \in Blocks \ S
    BY HandlesAreTaken DEF HandleRoots
<1>2. QED
    BY <1>1, HandlesAreTaken

LEMMA IdleRoots ==
    ASSUME IInv, pc = "idle"
    PROVE  Roots = HandleRoots
BY DEF Roots, CallHolds

(* What the call holds is no handle. *)
LEMMA CallHoldsNoHandle ==
    ASSUME IInv
    PROVE  CallHolds \cap HandleRoots = {}
<1>1. \A p \in HandleRoots : heap[p].what \in {"rom", "layout"}
    BY DEF IInv, HandlesAreGood, HandleRoots
<1>2. CASE pc \in {"dmadata", "cic"}
    BY <1>2 DEF IInv, CallIsGood, CallHolds
<1>3. CASE pc \notin {"dmadata", "cic"}
  <2>1. \A p \in CallHolds : heap[p].what \in {"io", "entries", "table"}
      BY <1>3 DEF IInv, CallIsGood, CallHolds, WritesLayout
  <2>2. QED
      BY <1>1, <2>1
<1>4. QED
    BY <1>2, <1>3

-----------------------------------------------------------------------------
(* The blocks the library makes. *)

LEMMA IoStateIsBlock ==
    ASSUME NEW a \in Allocators, NEW f \in Address
    PROVE  /\ IoState(a, f) \in Block /\ IoState(a, f) # Free
           /\ IoState(a, f).what = "io" /\ IoState(a, f).by = a
           /\ Owned(IoState(a, f)) = {f} \ {NULL}
BY DEF IoState, Block, IoBlock, Free, Owned

LEMMA OtherBlocks ==
    ASSUME NEW a \in Allocators
    PROVE  /\ Stream \in Block /\ Stream # Free /\ Stream.what = "FILE" /\ Owned(Stream) = {}
           /\ Table(a) \in Block /\ Table(a) # Free /\ Table(a).what = "table"
           /\ Table(a).by = a /\ Owned(Table(a)) = {}
BY DEF Block, Stream, Table, TableBlock, Free, Owned

(* An I/O object without a FILE can be put anywhere. *)
LEMMA EmptyFits ==
    ASSUME NEW h, NEW a \in Allocators, NEW n \in Counts, NEW p \in Blocks
    PROVE  /\ Fits(h, IoState(a, NULL)) /\ Fits(h, Table(a))
           /\ Fits(h, Entries(a, p, n))
           /\ Entries(a, p, n) \in Block /\ Entries(a, p, n) # Free
           /\ Owned(Entries(a, p, n)) = {}
BY DEF Fits, IoState, Table, Entries, Block, EntriesBlock, Free, Owned

(* Opening an I/O object fails without a trace, or adds one root. *)
LEMMA OpenIoKeeps ==
    ASSUME IInv, pc = "idle", NEW a \in Allocators, NEW kind, NEW step, NEW l,
           OpenIo(a, kind, step, l)
    PROVE  \/ /\ IInv' /\ StaysPut
              /\ \E e \in Errors : said' = [call |-> l.call, error |-> e]
           \/ /\ HandlesAreGood' /\ StaysPut /\ HandleRoots' = HandleRoots
              /\ pc' = step /\ said' = said
              /\ \E io \in Blocks :
                    /\ local' = [l EXCEPT !.io = io]
                    /\ Forest(heap', HandleRoots \cup {io})
                    /\ heap'[io].what = "io"
<1> DEFINE R == HandleRoots
           io == NextFree(heap)
           s == IoState(a, NULL)
           h1 == Put(heap, s)
           file == NextFree(h1)
           h2 == [Put(h1, Stream) EXCEPT ![io].file = file]
<1>1. Forest(heap, R) /\ heap \in [Blocks -> Block]
    BY IdleRoots, HandlesAreTaken DEF IInv
<1>2. s \in Block /\ s # Free /\ s.what = "io" /\ s.by = a /\ Owned(s) = {}
    BY IoStateIsBlock DEF Address
<1>3. Fits(heap, s)
    BY DEF Fits, IoState
<1> HIDE DEF R, s
<1>4. ASSUME Room(heap)
      PROVE  /\ Forest(h1, R \cup {io})
             /\ io \in Blocks \ Taken(heap)
             /\ h1 = [heap EXCEPT ![io] = s] /\ h1[io] = s
  <2>1. Forest(h1, (R \ {}) \cup {io})
      BY <1>1, <1>2, <1>3, <1>4, PutKeeps
  <2>2. QED
      BY <1>1, <1>2, <1>3, <1>4, <2>1, PutKeeps
<1>5. "MEMORY_ERROR" \in Errors /\ "ERRNO" \in Errors
    BY DEF Errors
<1>6. ASSUME NEW e \in Errors, Return(heap, l.call, e), UNCHANGED held
      PROVE  IInv' /\ StaysPut /\ \E x \in Errors : said' = [call |-> l.call, error |-> x]
  <2>1. Forest(heap', HandleRoots) /\ Elsewhere({}) /\ pc' = "idle"
      BY <1>1, <1>6 DEF Return, Elsewhere, R
  <2>2. Away({})
      BY DEF Away
  <2>3. said' = [call |-> l.call, error |-> e]
      BY <1>6 DEF Return
  <2>4. IInv' /\ StaysPut
      BY <1>6, <2>1, <2>2, <2>3, ReturnsIdle
  <2>5. QED
      BY <2>3, <2>4
<1>7. ASSUME NEW h, Room(heap), NEW D, D \cap Taken(heap) = {},
             Forest(h, R \cup {io}), \A q \in Blocks \ D : h[q] = heap[q], h[io].what = "io",
             Continue(h, step, [l EXCEPT !.io = io])
      PROVE  /\ HandlesAreGood' /\ StaysPut /\ HandleRoots' = HandleRoots
             /\ pc' = step /\ said' = said
             /\ \E x \in Blocks :
                   /\ local' = [l EXCEPT !.io = x]
                   /\ Forest(heap', HandleRoots \cup {x})
                   /\ heap'[x].what = "io"
  <2>1. /\ heap' = h /\ pc' = step /\ local' = [l EXCEPT !.io = io]
        /\ UNCHANGED held /\ said' = said
      BY <1>7 DEF Continue
  <2>2. Elsewhere(D)
      BY <1>7, <2>1 DEF Elsewhere
  <2>3. Away(D)
      BY <1>7, HandlesAreTaken DEF Away
  <2>4. HandlesAreGood' /\ StaysPut /\ HandleRoots' = HandleRoots
      BY <2>1, <2>2, <2>3, HandlesStay
  <2>5. io \in Blocks
      BY <1>4, <1>7
  <2>6. QED
      BY <1>7, <2>1, <2>4, <2>5 DEF R
<1>8. CASE Return(heap, l.call, "MEMORY_ERROR") /\ UNCHANGED held
    BY <1>5, <1>6, <1>8
<1>9. CASE Room(heap) /\ Return(zelda64_free(h1, a, io), l.call, "ERRNO") /\ UNCHANGED held
  <2>1. zelda64_free(h1, a, io) = heap
      BY <1>1, <1>2, <1>9, FreeUndoesPut
  <2> HIDE DEF h1, io
  <2>2. QED
      BY <1>5, <1>6, <1>9, <2>1
<1>10. CASE Room(heap) /\ Room(h1) /\ Continue(h2, step, [l EXCEPT !.io = io])
  <2> DEFINE b == IoState(a, file)
  <2>1. Forest(h1, R \cup {io}) /\ h1[io] = s /\ io \in Blocks \ Taken(heap)
      BY <1>4, <1>10
  <2>2. file \in Blocks /\ h1[file] = Free
      BY <1>10, NextFreeIsFree
  <2>3. b \in Block /\ b # Free /\ b.what = "io" /\ Owned(b) = {file} \ {NULL} /\ file # NULL
      BY <2>2, IoStateIsBlock, SessionAssumption DEF Address
  <2>4. Owned(b) = Owned(h1[io]) \cup {file}
      BY <1>2, <2>1, <2>3
  <2>5. h1 \in [Blocks -> Block]
      BY <2>1 DEF Forest
  <2>6. io # file
      BY <1>2, <2>1, <2>2
  <2>7. Put(h1, Stream)[io] = s
      BY <2>1, <2>2, <2>5, <2>6 DEF Put
  <2>8. h2 = [Put(h1, Stream) EXCEPT ![io] = b]
    <3>1. [s EXCEPT !.file = file] = b
        BY DEF s, IoState
    <3> HIDE DEF h1, io, file, b
    <3>2. QED
        BY <2>7, <3>1 DEF h2
  <2>9. h2[file] = Stream /\ h2[io] = b /\ \A q \in Blocks \ {io, file} : h2[q] = h1[q]
    <3> HIDE DEF h2, b, io
    <3>1. QED
        BY <2>1, <2>2, <2>5, <2>6, <2>8 DEF Put
  <2>10. Fits(h2, b)
    <3> HIDE DEF h2
    <3>1. b.file = file /\ b.what = "io"
        BY DEF IoState
    <3>2. QED
        BY <2>9, <3>1 DEF Fits
  <2>11. Forest(h2, R \cup {io})
    <3> DEFINE Q == R \cup {io}
    <3> HIDE DEF h2, h1, b, io
    <3>1. Stream.what \in {"FILE", "table"}
        BY DEF Stream
    <3>2. Stream \in Block
        BY DEF Block
    <3>3. io \in Q /\ Forest(h1, Q) /\ Room(h1)
        BY <1>10, <2>1
    <3>4. Stream # Free /\ b \in Block /\ b # Free
        BY <2>3 DEF Stream, Free
    <3> HIDE DEF Q
    <3>5. Forest(h2, Q)
        BY <2>4, <2>8, <2>10, <3>1, <3>2, <3>3, <3>4, GrowKeeps
    <3>6. QED
        BY <3>5 DEF Q
  <2>12. {io, file} \cap Taken(heap) = {}
    <3>1. heap[file] = Free
        BY <1>1, <1>4, <1>10, <2>2, <2>6
    <3>2. QED
        BY <2>1, <3>1 DEF Taken
  <2>13. \A q \in Blocks \ {io, file} : h2[q] = heap[q]
    <3>1. \A q \in Blocks \ {io, file} : h1[q] = heap[q]
        BY <1>1, <1>4, <1>10
    <3>2. QED
        BY <2>9, <3>1
  <2> HIDE DEF h2, h1, io, file, b
  <2>14. QED
      BY <1>7, <1>10, <2>3, <2>9, <2>11, <2>12, <2>13
<1>11. CASE Room(heap) /\ Continue(h1, step, [l EXCEPT !.io = io])
  <2>1. /\ Forest(h1, R \cup {io}) /\ io \in Blocks \ Taken(heap)
        /\ h1 = [heap EXCEPT ![io] = s] /\ h1[io] = s
      BY <1>4, <1>11
  <2>2. \A q \in Blocks \ {io} : h1[q] = heap[q]
      BY <1>1, <2>1
  <2>3. {io} \cap Taken(heap) = {}
      BY <2>1
  <2> HIDE DEF h1, io
  <2>4. QED
      BY <1>2, <1>7, <1>11, <2>1, <2>2, <2>3
<1>12. QED
    BY <1>8, <1>9, <1>10, <1>11 DEF OpenIo, s

-----------------------------------------------------------------------------
(* One lemma per action: it keeps the invariant, and what it does to the   *)
(* handles.                                                                *)

LEMMA OpenKeeps ==
    ASSUME IInv, NEW r \in RomSlots, NEW a \in Allocators, NEW kind, zelda64_open(r, a, kind)
    PROVE  /\ IInv' /\ StaysPut
           /\ said' = said \/ \E e \in Errors : said' = [call |-> <<"open", r>>, error |-> e]
<1> DEFINE l == [call |-> <<"open", r>>, slot |-> r, io |-> NULL, a |-> a, rom |-> NULL]
<1>1. pc = "idle" /\ roms[r] = NULL /\ OpenIo(a, kind, "rom", l)
    BY DEF zelda64_open
<1>2. l.call = <<"open", r>>
    OBVIOUS
<1> HIDE DEF l
<1>3. CASE /\ IInv' /\ StaysPut
           /\ \E e \in Errors : said' = [call |-> l.call, error |-> e]
    BY <1>2, <1>3
<1>4. CASE /\ HandlesAreGood' /\ StaysPut /\ HandleRoots' = HandleRoots
           /\ pc' = "rom" /\ said' = said
           /\ \E io \in Blocks :
                 /\ local' = [l EXCEPT !.io = io]
                 /\ Forest(heap', HandleRoots \cup {io})
                 /\ heap'[io].what = "io"
  <2>1. PICK io \in Blocks :
           /\ local' = [l EXCEPT !.io = io]
           /\ Forest(heap', HandleRoots \cup {io})
           /\ heap'[io].what = "io"
      BY <1>4
  <2>2. local' = [call |-> <<"open", r>>, slot |-> r, io |-> io, a |-> a, rom |-> NULL]
      BY <2>1 DEF l
  <2>3. roms' = roms
      BY <1>4 DEF StaysPut, held
  <2>4. Roots' = HandleRoots \cup {io}
      BY <1>4, <2>2 DEF Roots, CallHolds
  <2>5. OpensRom'
      BY <1>1, <2>2, <2>3 DEF OpensRom
  <2>6. CallIsGood'
      BY <1>4, <2>1, <2>2, <2>5 DEF CallIsGood, IInv
  <2>7. QED
      BY <1>4, <2>1, <2>4, <2>6 DEF IInv
<1>5. QED
    BY <1>1, <1>3, <1>4, OpenIoKeeps

(* A call that fails has only its own root to give back. *)
LEMMA FailsIdle ==
    ASSUME IInv, NEW S, Forest(Release(heap, S), HandleRoots),
           \A p \in HandleRoots : p \notin S,
           \A x \in Blocks \ S : Owned(heap[x]) \cap S = {},
           NEW e \in Errors \cup {"OK"}, Fail(Release(heap, S), e)
    PROVE  IInv' /\ StaysPut /\ said' = [call |-> local.call, error |-> e]
<1>1. /\ heap' = Release(heap, S) /\ pc' = "idle" /\ UNCHANGED held
      /\ said' = [call |-> local.call, error |-> e]
    BY DEF Fail, Return
<1>2. Elsewhere(S)
    BY <1>1 DEF Elsewhere, Release
<1>3. Away(S)
    BY ReleasedIsAway
<1>4. said'.error \in Errors \cup {"OK"}
    BY <1>1
<1>5. IInv' /\ StaysPut
    BY <1>1, <1>2, <1>3, <1>4, ReturnsIdle
<1>6. QED
    BY <1>1, <1>5

(* The I/O object in hand is closed on the way out, *)
LEMMA FailClosesIo ==
    ASSUME IInv, pc \in {"rom", "table"}, NEW e \in Errors \cup {"OK"},
           Fail(zelda64_io_close(heap, local.io), e)
    PROVE  IInv' /\ StaysPut /\ said' = [call |-> local.call, error |-> e]
<1> DEFINE S == IoParts(heap, local.io)
<1>1. /\ Forest(heap, Roots) /\ Roots = HandleRoots \cup {local.io}
      /\ local.io \in Roots /\ local.io \notin HandleRoots
    BY CallHoldsNoHandle DEF IInv, Roots, CallHolds
<1>2. local.io \in Blocks /\ heap[local.io].what = "io"
    BY DEF IInv, CallIsGood, WritesLayout
<1>3. zelda64_io_close(heap, local.io) = Release(heap, S)
    BY <1>1, <1>2, IoCloses
<1>4. /\ Forest(Release(heap, S), Roots \ {local.io})
      /\ S \cap Roots = {local.io}
      /\ \A x \in Blocks \ S : Owned(heap[x]) \cap S = {}
    BY <1>1, <1>2, IoIsReleased
<1> HIDE DEF S
<1>5. Roots \ {local.io} = HandleRoots /\ \A p \in HandleRoots : p \notin S
    BY <1>1, <1>4
<1>6. QED
    BY <1>3, <1>4, <1>5, FailsIdle

(* and so is the ROM in hand. *)
LEMMA FailClosesRom ==
    ASSUME IInv, pc \in {"dmadata", "cic"}, NEW e \in Errors \cup {"OK"},
           Fail(zelda64_close(heap, local.rom), e)
    PROVE  IInv' /\ StaysPut /\ said' = [call |-> local.call, error |-> e]
<1> DEFINE S == RomParts(heap, local.rom)
<1>1. /\ Forest(heap, Roots) /\ Roots = HandleRoots \cup {local.rom}
      /\ local.rom \in Roots /\ local.rom \notin HandleRoots
    BY CallHoldsNoHandle DEF IInv, Roots, CallHolds
<1>2. local.rom \in Blocks /\ heap[local.rom].what = "rom"
    BY DEF IInv, CallIsGood
<1>3. zelda64_close(heap, local.rom) = Release(heap, S)
    BY <1>1, <1>2, RomCloses
<1>4. /\ Forest(Release(heap, S), Roots \ {local.rom})
      /\ S \cap Roots = {local.rom}
      /\ \A x \in Blocks \ S : Owned(heap[x]) \cap S = {}
    BY <1>1, <1>2, RomIsReleased
<1> HIDE DEF S
<1>5. Roots \ {local.rom} = HandleRoots /\ \A p \in HandleRoots : p \notin S
    BY <1>1, <1>4
<1>6. QED
    BY <1>3, <1>4, <1>5, FailsIdle

LEMMA OpenRomKeeps ==
    ASSUME IInv, OpenRom
    PROVE  /\ IInv' /\ StaysPut
           /\ said' = said \/ \E e \in Errors : said' = [call |-> local.call, error |-> e]
<1>1. /\ pc = "rom" /\ OpensRom /\ local.io \in Blocks /\ heap[local.io].what = "io"
      /\ Forest(heap, Roots) /\ heap \in [Blocks -> Block]
    BY HandlesAreTaken DEF OpenRom, IInv, CallIsGood
<1>2. CASE Fail(zelda64_io_close(heap, local.io), "MEMORY_ERROR")
    BY <1>1, <1>2, FailClosesIo DEF Errors
<1>3. CASE /\ Room(heap)
           /\ Continue(Put(heap, Rom(local.a, local.io)), "dmadata",
                       [local EXCEPT !.rom = NextFree(heap)])
  <2> DEFINE b == Rom(local.a, local.io)
             p == NextFree(heap)
             l == [local EXCEPT !.rom = p]
  <2>1. local.a \in Allocators
      BY <1>1 DEF OpensRom
  <2>2. /\ b \in Block /\ b # Free /\ b.what = "rom" /\ b.dmadata = NULL
        /\ Owned(b) = {local.io}
      BY <1>1, <2>1, SessionAssumption DEF Rom, Block, RomBlock, Free, Owned, Address
  <2>3. Fits(heap, b)
      BY <1>1 DEF Fits, Rom
  <2>4. /\ Roots = HandleRoots \cup {local.io} /\ local.io \notin HandleRoots
      BY <1>1, CallHoldsNoHandle DEF Roots, CallHolds
  <2>5. /\ heap' = Put(heap, b) /\ pc' = "dmadata" /\ local' = l
        /\ UNCHANGED held /\ said' = said
      BY <1>3 DEF Continue
  <2> HIDE DEF b
  <2>6. /\ Forest(Put(heap, b), (Roots \ Owned(b)) \cup {p})
        /\ p \in Blocks \ Taken(heap)
        /\ Put(heap, b) = [heap EXCEPT ![p] = b]
        /\ Put(heap, b)[p] = b
      BY <1>1, <1>3, <2>2, <2>3, <2>4, PutKeeps
  <2> HIDE DEF p
  <2>7. (Roots \ Owned(b)) \cup {p} = HandleRoots \cup {p}
      BY <2>2, <2>4
  <2>8. Elsewhere({p}) /\ Away({p})
      BY <1>1, <2>5, <2>6, NewIsAway DEF Elsewhere
  <2>9. HandlesAreGood' /\ StaysPut /\ HandleRoots' = HandleRoots
      BY <2>5, <2>8, HandlesStay
  <2>10. l = [call |-> <<"open", local.slot>>, slot |-> local.slot, io |-> local.io,
              a |-> local.a, rom |-> p]
      BY <1>1 DEF OpensRom
  <2>11. OpensRom' /\ local'.rom = p
      BY <1>1, <2>5, <2>10 DEF OpensRom, held
  <2>12. Roots' = HandleRoots \cup {p}
      BY <2>5, <2>9, <2>11 DEF Roots, CallHolds
  <2>13. p \notin HandleRoots
      BY <2>6, HandlesAreTaken
  <2>14. CallIsGood'
      BY <2>2, <2>5, <2>6, <2>9, <2>11, <2>13 DEF CallIsGood, IInv
  <2>15. QED
      BY <2>5, <2>6, <2>7, <2>9, <2>12, <2>14 DEF IInv
<1>4. QED
    BY <1>2, <1>3 DEF OpenRom

(* Two fields of one block are set at once. *)
LEMMA TableIsSet ==
    ASSUME NEW h \in [Blocks -> Block], NEW p \in Blocks, NEW t, NEW n
    PROVE  [h EXCEPT ![p].dmadata = t, ![p].count = n]
           = [h EXCEPT ![p] = [[h[p] EXCEPT !.dmadata = t] EXCEPT !.count = n]]
BY Zenon

LEMMA RomIsSet ==
    ASSUME NEW b, NEW w, NEW v, NEW a, NEW io, NEW d, NEW c,
           b = [what |-> w, by |-> v, allocator |-> a, io |-> io, dmadata |-> d, count |-> c],
           NEW t
    PROVE  /\ [b EXCEPT !.dmadata = t]
              = [what |-> w, by |-> v, allocator |-> a, io |-> io, dmadata |-> t, count |-> c]
           /\ [b EXCEPT !.count = t]
              = [what |-> w, by |-> v, allocator |-> a, io |-> io, dmadata |-> d, count |-> t]
<1>1. [b EXCEPT !.dmadata = t]
      = [what |-> w, by |-> v, allocator |-> a, io |-> io, dmadata |-> t, count |-> c]
    OBVIOUS
<1>2. [b EXCEPT !.count = t]
      = [what |-> w, by |-> v, allocator |-> a, io |-> io, dmadata |-> d, count |-> t]
    OBVIOUS
<1>3. QED
    BY <1>1, <1>2

LEMMA ReadDmadataKeeps ==
    ASSUME IInv, ReadDmadata
    PROVE  /\ IInv' /\ StaysPut
           /\ said' = said \/ \E e \in Errors : said' = [call |-> local.call, error |-> e]
<1> DEFINE p == local.rom
           t == NextFree(heap)
           a == heap[p].allocator
           c == Table(a)
           h1 == Put(heap, c)
<1>1. /\ pc = "dmadata" /\ OpensRom /\ p \in Blocks /\ heap[p].what = "rom"
      /\ heap[p].dmadata = NULL
      /\ Forest(heap, Roots) /\ heap \in [Blocks -> Block]
    BY HandlesAreTaken DEF ReadDmadata, IInv, CallIsGood
<1>2. /\ heap[p] = [what |-> "rom", by |-> heap[p].by, allocator |-> a, io |-> heap[p].io,
                    dmadata |-> heap[p].dmadata, count |-> heap[p].count]
      /\ heap[p].by = a /\ a \in Allocators /\ heap[p].io \in Blocks
      /\ Owned(heap[p]) = {heap[p].io, heap[p].dmadata} \ {NULL}
    BY <1>1, RomFields
<1> HIDE DEF a
<1>3. /\ c \in Block /\ c # Free /\ c.what = "table" /\ c.by = a /\ Owned(c) = {}
    BY <1>2, OtherBlocks
<1>4. Fits(heap, c)
    BY <1>3 DEF Fits
<1>5. CASE \E e \in TableErrors \cup {"MEMORY_ERROR"} : Fail(zelda64_close(heap, p), e)
    BY <1>1, <1>5, FailClosesRom DEF Errors
<1> HIDE DEF c
<1>6. CASE /\ Room(heap)
           /\ \E e \in TableErrors : Fail(zelda64_close(LoadBreaksOff(h1, p, t), p), e)
  <2>1. p \in Taken(heap) /\ t \in Blocks \ Taken(heap)
      BY <1>1, <1>6, NextFreeIsFree DEF Forest, Roots, CallHolds, Taken
  <2>2. h1[p] = heap[p]
      BY <1>1, <2>1 DEF Put
  <2>3. zelda64_free(h1, a, t) = heap
      BY <1>1, <1>3, <1>6, FreeUndoesPut
  <2> HIDE DEF h1, t
  <2>4. LoadBreaksOff(h1, p, t) = heap
      BY <2>2, <2>3 DEF LoadBreaksOff, a
  <2>5. QED
      BY <1>1, <1>6, <2>4, FailClosesRom DEF Errors
<1>7. ASSUME Room(heap), NEW n \in Counts,
             Continue([h1 EXCEPT ![p].dmadata = t, ![p].count = n], "cic", local)
      PROVE  IInv' /\ StaysPut /\ said' = said
  <2> DEFINE g == [h1 EXCEPT ![p].dmadata = t, ![p].count = n]
             b == [what |-> "rom", by |-> heap[p].by, allocator |-> a, io |-> heap[p].io,
                   dmadata |-> t, count |-> n]
  <2>1. /\ p \in Taken(heap) /\ t \in Blocks \ Taken(heap)
        /\ h1 = [heap EXCEPT ![t] = c]
      BY <1>1, <1>7, NextFreeIsFree DEF Forest, Roots, CallHolds, Taken, Put
  <2>2. h1[p] = heap[p] /\ h1 \in [Blocks -> Block]
      BY <1>1, <1>3, <2>1
  <2>3. [[heap[p] EXCEPT !.dmadata = t] EXCEPT !.count = n] = b
    <3> DEFINE m == [heap[p] EXCEPT !.dmadata = t]
    <3> HIDE DEF p, t
    <3>1. m = [what |-> "rom", by |-> heap[p].by, allocator |-> a, io |-> heap[p].io,
               dmadata |-> t, count |-> heap[p].count]
        BY <1>2, RomIsSet
    <3> HIDE DEF m
    <3>2. [m EXCEPT !.count = n] = b
        BY <3>1, RomIsSet DEF b
    <3>3. QED
        BY <3>2 DEF m
  <2>4. g = [h1 EXCEPT ![p] = b]
    <3> HIDE DEF h1, t, p
    <3>1. g = [h1 EXCEPT ![p] = [[h1[p] EXCEPT !.dmadata = t] EXCEPT !.count = n]]
        BY <1>1, <2>2, TableIsSet
    <3>2. QED
        BY <2>2, <2>3, <3>1
  <2>5. /\ b \in Block /\ b # Free /\ b.what = "rom"
        /\ Owned(b) = {heap[p].io, t} \ {NULL}
    <3>1. t \in Address
        BY <2>1 DEF Address
    <3> HIDE DEF t, p
    <3>2. QED
        BY <1>2, <1>7, <3>1 DEF Block, RomBlock, Free, Owned
  <2>6. Owned(b) = Owned(heap[p]) \cup {t}
      BY <1>1, <1>2, <2>1, <2>5, SessionAssumption
  <2> HIDE DEF g, b, h1
  <2>7. t # p
      BY <2>1
  <2>8. /\ g[t] = c /\ g[p] = b /\ \A q \in Blocks \ {t, p} : g[q] = heap[q]
      BY <1>1, <2>1, <2>2, <2>4, <2>7
  <2>9. heap[heap[p].io].what = "io" /\ heap[p].io # p /\ heap[p].io # t
    <3>1. Fits(heap, heap[p])
        BY <1>1 DEF Forest
    <3>2. heap[heap[p].io].what = "io"
        BY <1>1, <3>1 DEF Fits
    <3>3. heap[t].what = "free"
        BY <2>1 DEF Taken, Free
    <3> HIDE DEF t, p
    <3>4. QED
        BY <1>1, <3>2, <3>3
  <2>10. Fits(g, b)
    <3>1. g[t].what = "table" /\ g[t].by = a /\ g[heap[p].io].what = "io"
        BY <1>2, <1>3, <2>8, <2>9
    <3> HIDE DEF p, t
    <3>2. /\ b.what = "rom" /\ b.io = heap[p].io /\ b.dmadata = t /\ b.allocator = a
        BY DEF b
    <3>3. QED
        BY <3>1, <3>2 DEF Fits
  <2>11. Roots = HandleRoots \cup {p} /\ p \notin HandleRoots
      BY <1>1, CallHoldsNoHandle DEF Roots, CallHolds
  <2>12. Forest(g, Roots)
    <3>1. p \in Roots /\ g = [Put(heap, c) EXCEPT ![p] = b]
        BY <2>4, <2>11 DEF h1
    <3> HIDE DEF t, p
    <3>2. QED
        BY <1>1, <1>3, <1>7, <2>5, <2>6, <2>10, <3>1, GrowKeeps DEF t
  <2>13. heap' = g /\ pc' = "cic" /\ local' = local /\ UNCHANGED held /\ said' = said
      BY <1>7 DEF Continue, g
  <2>14. Elsewhere({t, p})
      BY <2>8, <2>13 DEF Elsewhere
  <2>15. Away({t, p})
    <3>1. p \notin HandleRoots /\ t \notin HandleRoots
        BY <2>1, <2>11, HandlesAreTaken
    <3>2. \A x \in Blocks : p \notin Owned(heap[x]) /\ t \notin Owned(heap[x])
      <4>1. \A x \in Blocks : p \notin Owned(heap[x])
          BY <1>1, <2>11 DEF Forest
      <4>2. \A x \in Blocks : t \notin Owned(heap[x])
          BY <1>1, <2>1, OwnedAreTaken
      <4>3. QED
          BY <4>1, <4>2
    <3> HIDE DEF t, p
    <3>3. QED
        BY <3>1, <3>2, HandlesAreTaken DEF Away
  <2>16. HandlesAreGood' /\ StaysPut /\ HandleRoots' = HandleRoots
      BY <2>13, <2>14, <2>15, HandlesStay
  <2>17. Roots' = Roots
      BY <1>1, <2>13, <2>16 DEF Roots, CallHolds
  <2>18. OpensRom'
      BY <1>1, <2>13 DEF OpensRom, held
  <2>19. g[p].what = "rom" /\ g[p].count = n
    <3> HIDE DEF p, t
    <3>1. QED
        BY <2>8 DEF b
  <2>20. CallIsGood'
      BY <1>1, <1>7, <2>11, <2>13, <2>16, <2>18, <2>19 DEF CallIsGood, IInv
  <2>21. QED
      BY <2>12, <2>13, <2>16, <2>17, <2>20 DEF IInv
<1>8. QED
    BY <1>5, <1>6, <1>7 DEF ReadDmadata, c, a

LEMMA DetectCicKeeps ==
    ASSUME IInv, DetectCic
    PROVE  /\ IInv'
           /\ \/ StaysPut /\ \E e \in Errors : said' = [call |-> local.call, error |-> e]
              \/ /\ heap' = heap /\ layouts' = layouts
                 /\ roms' = [roms EXCEPT ![local.slot] = local.rom]
                 /\ local.slot \in RomSlots /\ roms[local.slot] = NULL
                 /\ local.rom \in Blocks /\ heap[local.rom].count \in Counts
                 /\ said' = [call |-> <<"open", local.slot>>, error |-> "OK"]
<1>1. /\ pc = "cic" /\ OpensRom /\ local.rom \in Blocks /\ heap[local.rom].what = "rom"
      /\ heap[local.rom].count \in Counts
      /\ Forest(heap, Roots) /\ HandlesAreGood
    BY DEF DetectCic, IInv, CallIsGood
<1>2. CASE \E e \in CicErrors : Fail(zelda64_close(heap, local.rom), e)
    BY <1>1, <1>2, FailClosesRom DEF Errors
<1>3. CASE /\ Return(heap, local.call, "OK")
           /\ roms' = [roms EXCEPT ![local.slot] = local.rom]
           /\ UNCHANGED layouts
  <2> DEFINE p == local.rom
             r == local.slot
  <2>1. /\ heap' = heap /\ pc' = "idle" /\ layouts' = layouts
        /\ said' = [call |-> <<"open", r>>, error |-> "OK"]
      BY <1>1, <1>3 DEF Return, OpensRom
  <2>2. /\ r \in RomSlots /\ roms[r] = NULL /\ p \notin HandleRoots
        /\ Roots = HandleRoots \cup {p}
      BY <1>1, CallHoldsNoHandle DEF OpensRom, Roots, CallHolds
  <2> HIDE DEF p, r
  <2>3. /\ roms \in [RomSlots -> Address] /\ roms' = [roms EXCEPT ![r] = p]
        /\ p \in Blocks /\ p # NULL
      BY <1>1, <1>3, SessionAssumption DEF HandlesAreGood, p, r
  <2>4. roms'[r] = p /\ \A s \in RomSlots \ {r} : roms'[s] = roms[s]
      BY <2>2, <2>3
  <2>5. HandleRoots' = HandleRoots \cup {p}
    <3>1. {roms'[s] : s \in RomSlots} \ {NULL} = ({roms[s] : s \in RomSlots} \ {NULL}) \cup {p}
        BY <2>2, <2>3, <2>4
    <3>2. QED
        BY <2>1, <2>3, <3>1 DEF HandleRoots
  <2>6. Roots' = Roots
      BY <2>1, <2>2, <2>5 DEF Roots, CallHolds
  <2>7. \A s \in RomSlots : roms[s] # p
      BY <2>2, <2>3 DEF HandleRoots
  <2>8. HandlesAreGood'
    <3>1. roms' \in [RomSlots -> Address]
        BY <2>3 DEF Address
    <3>2. \A s \in RomSlots : roms'[s] # NULL =>
             heap'[roms'[s]].what = "rom" /\ heap'[roms'[s]].count \in Counts
        BY <1>1, <2>1, <2>4 DEF HandlesAreGood, p
    <3>3. \A s, u \in RomSlots : roms'[s] = roms'[u] /\ roms'[s] # NULL => s = u
        BY <1>1, <2>4, <2>7 DEF HandlesAreGood
    <3>4. \A l \in LayoutSlots : layouts'[l].of \in RomSlots =>
             /\ roms'[layouts'[l].of] # NULL
             /\ heap'[heap'[layouts'[l].at].entries].rom = roms'[layouts'[l].of]
        BY <1>1, <2>1, <2>2, <2>4 DEF HandlesAreGood
    <3>5. /\ layouts' \in [LayoutSlots -> [at : Address, of : RomSlots \cup {"none", Gone}]]
          /\ \A l \in LayoutSlots : layouts'[l].at = NULL <=> layouts'[l].of = "none"
          /\ \A l \in LayoutSlots : layouts'[l].at # NULL =>
                heap'[layouts'[l].at].what = "layout"
          /\ \A l, k \in LayoutSlots :
                layouts'[l].at = layouts'[k].at /\ layouts'[l].at # NULL => l = k
        BY <1>1, <2>1 DEF HandlesAreGood
    <3>6. QED
        BY <3>1, <3>2, <3>3, <3>4, <3>5 DEF HandlesAreGood
  <2>9. CallIsGood'
      BY <2>1 DEF CallIsGood
  <2>10. QED
      BY <1>1, <1>3, <2>1, <2>2, <2>6, <2>8, <2>9 DEF IInv, p, r
<1>4. QED
    BY <1>2, <1>3 DEF DetectCic

LEMMA CloseRomKeeps ==
    ASSUME IInv, NEW r \in RomSlots, CloseRom(r)
    PROVE  /\ IInv'
           /\ \A q \in HandleRoots \ {roms[r]} : heap'[q] = heap[q]
<1> DEFINE p == roms[r]
           S == RomParts(heap, p)
<1>1. /\ pc = "idle" /\ p # NULL
      /\ roms' = [roms EXCEPT ![r] = NULL]
      /\ layouts' = [l \in LayoutSlots |->
                       IF layouts[l].of = r THEN [layouts[l] EXCEPT !.of = Gone]
                       ELSE layouts[l]]
      /\ heap' = zelda64_close(heap, p) /\ pc' = "idle" /\ said'.error = "OK"
    BY DEF CloseRom, Return
<1>2. /\ Forest(heap, HandleRoots) /\ HandlesAreGood /\ heap \in [Blocks -> Block]
    BY <1>1, IdleRoots, HandlesAreTaken DEF IInv
<1>3. p \in HandleRoots /\ p \in Blocks /\ heap[p].what = "rom"
    BY <1>1, <1>2, HandlesAreTaken DEF HandleRoots, HandlesAreGood
<1>4. heap' = Release(heap, S)
    BY <1>1, <1>2, <1>3, RomCloses
<1>5. /\ Forest(heap', HandleRoots \ {p})
      /\ S \cap HandleRoots = {p}
      /\ \A x \in Blocks \ S : Owned(heap[x]) \cap S = {}
    BY <1>2, <1>3, <1>4, RomIsReleased
<1> HIDE DEF S
<1>6. \A q \in Blocks \ S : heap'[q] = heap[q]
    BY <1>4 DEF Release
<1>7. \A q \in HandleRoots \ {p} : q \in Blocks \ S /\ heap'[q] = heap[q]
    BY <1>5, <1>6, HandlesAreTaken
<1>8. /\ roms \in [RomSlots -> Address]
      /\ roms'[r] = NULL /\ \A s \in RomSlots \ {r} : roms'[s] = roms[s]
    BY <1>1, <1>2 DEF HandlesAreGood
<1>9. ASSUME NEW l \in LayoutSlots
      PROVE  /\ layouts'[l] \in [at : Address, of : RomSlots \cup {"none", Gone}]
             /\ layouts'[l].at = layouts[l].at
             /\ layouts'[l].of = IF layouts[l].of = r THEN Gone ELSE layouts[l].of
  <2>1. layouts[l] \in [at : Address, of : RomSlots \cup {"none", Gone}]
      BY <1>2 DEF HandlesAreGood
  <2>2. layouts'[l] = IF layouts[l].of = r THEN [layouts[l] EXCEPT !.of = Gone]
                      ELSE layouts[l]
      BY <1>1
  <2>3. QED
      BY <2>1, <2>2
<1>10. HandleRoots' = HandleRoots \ {p}
  <2>1. \A s \in RomSlots \ {r} : roms[s] # p
      BY <1>1, <1>2 DEF HandlesAreGood
  <2>2. \A l \in LayoutSlots : layouts[l].at # p
      BY <1>1, <1>2, <1>3 DEF HandlesAreGood
  <2>3. {roms'[s] : s \in RomSlots} \ {NULL} = {roms[s] : s \in RomSlots} \ {NULL, p}
      BY <1>8, <2>1
  <2>4. {layouts'[l].at : l \in LayoutSlots} = {layouts[l].at : l \in LayoutSlots}
      BY <1>9
  <2>5. QED
      BY <2>2, <2>3, <2>4 DEF HandleRoots
<1>11. \A l \in LayoutSlots : layouts[l].at # NULL =>
          /\ heap'[layouts[l].at] = heap[layouts[l].at]
          /\ heap'[heap[layouts[l].at].entries] = heap[heap[layouts[l].at].entries]
  <2> SUFFICES ASSUME NEW l \in LayoutSlots, layouts[l].at # NULL
               PROVE  /\ heap'[layouts[l].at] = heap[layouts[l].at]
                      /\ heap'[heap[layouts[l].at].entries] = heap[heap[layouts[l].at].entries]
      OBVIOUS
  <2>1. layouts[l].at \in HandleRoots \ {p}
      BY <1>2, <1>3 DEF HandleRoots, HandlesAreGood
  <2>2. heap[layouts[l].at].entries \in Blocks \ S
      BY <1>5, <1>7, <2>1, HandlesAreTaken
  <2>3. QED
      BY <1>6, <1>7, <2>1, <2>2
<1>12. HandlesAreGood'
  <2>1. roms' \in [RomSlots -> Address]
      BY <1>1, <1>8 DEF Address
  <2>2. ASSUME NEW s \in RomSlots, roms'[s] # NULL
        PROVE  heap'[roms'[s]].what = "rom" /\ heap'[roms'[s]].count \in Counts
    <3>1. s # r /\ roms'[s] = roms[s]
        BY <1>8, <2>2
    <3>2. roms[s] \in HandleRoots \ {p}
        BY <1>1, <1>2, <2>2, <3>1 DEF HandleRoots, HandlesAreGood
    <3>3. QED
        BY <1>2, <1>7, <2>2, <3>1, <3>2 DEF HandlesAreGood
  <2>3. \A s, u \in RomSlots : roms'[s] = roms'[u] /\ roms'[s] # NULL => s = u
      BY <1>2, <1>8 DEF HandlesAreGood
  <2>4. layouts' \in [LayoutSlots -> [at : Address, of : RomSlots \cup {"none", Gone}]]
    <3>1. layouts' = [l \in LayoutSlots |-> layouts'[l]]
        BY <1>1
    <3>2. QED
        BY <1>9, <3>1
  <2>5. \A l \in LayoutSlots : layouts'[l].at = NULL <=> layouts'[l].of = "none"
      BY <1>2, <1>9, SessionAssumption DEF HandlesAreGood, Gone, Nowhere
  <2>6. \A l \in LayoutSlots : layouts'[l].at # NULL => heap'[layouts'[l].at].what = "layout"
      BY <1>2, <1>9, <1>11 DEF HandlesAreGood
  <2>7. \A l, k \in LayoutSlots : layouts'[l].at = layouts'[k].at /\ layouts'[l].at # NULL => l = k
      BY <1>2, <1>9 DEF HandlesAreGood
  <2>8. ASSUME NEW l \in LayoutSlots, layouts'[l].of \in RomSlots
        PROVE  /\ roms'[layouts'[l].of] # NULL
               /\ heap'[heap'[layouts'[l].at].entries].rom = roms'[layouts'[l].of]
    <3>1. layouts'[l].of = layouts[l].of /\ layouts[l].of # r
        BY <1>9, <2>8, SessionAssumption
    <3>2. layouts[l].at # NULL
        BY <1>2, <2>8, <3>1, SessionAssumption DEF HandlesAreGood, Nowhere
    <3>3. QED
        BY <1>2, <1>8, <1>9, <1>11, <2>8, <3>1, <3>2 DEF HandlesAreGood
  <2>9. QED
      BY <2>1, <2>2, <2>3, <2>4, <2>5, <2>6, <2>7, <2>8 DEF HandlesAreGood
<1>13. CallIsGood' /\ Roots' = HandleRoots \ {p}
    BY <1>1, <1>10 DEF CallIsGood, Roots, CallHolds
<1>14. QED
    BY <1>5, <1>7, <1>12, <1>13 DEF IInv

(* A call that only looks returns. *)
LEMMA LooksIdle ==
    ASSUME IInv, pc = "idle", NEW c, NEW e \in Errors \cup {"OK"}, Return(heap, c, e),
           UNCHANGED held
    PROVE  IInv' /\ StaysPut /\ said' = [call |-> c, error |-> e]
<1>1. /\ Forest(heap', HandleRoots) /\ Elsewhere({}) /\ Away({}) /\ pc' = "idle"
      /\ said' = [call |-> c, error |-> e]
    BY IdleRoots DEF IInv, Return, Elsewhere, Away
<1>2. said'.error \in Errors \cup {"OK"}
    BY <1>1
<1>3. IInv' /\ StaysPut
    BY <1>1, <1>2, ReturnsIdle
<1>4. QED
    BY <1>1, <1>3

LEMMA EntryKeeps ==
    ASSUME IInv, NEW r \in RomSlots, NEW i \in Indexes, zelda64_dmadata_entry(r, i)
    PROVE  /\ IInv' /\ StaysPut
           /\ said' = [call |-> <<"entry", r, i>>,
                       error |-> IF i >= heap[roms[r]].count THEN "OUT_OF_RANGE" ELSE "OK"]
<1> DEFINE e == IF i >= heap[roms[r]].count THEN "OUT_OF_RANGE" ELSE "OK"
<1>1. e \in Errors \cup {"OK"}
    BY DEF Errors
<1>2. pc = "idle" /\ Return(heap, <<"entry", r, i>>, e) /\ UNCHANGED held
    BY DEF zelda64_dmadata_entry
<1> HIDE DEF e
<1>3. IInv' /\ StaysPut /\ said' = [call |-> <<"entry", r, i>>, error |-> e]
    BY <1>1, <1>2, LooksIdle
<1>4. QED
    BY <1>3 DEF e

(* The caller never names the entry behind the last one, the one index that *)
(* zelda64_layout_set_operation takes and should refuse.                    *)
CallerStaysInside == LayoutIndexes \cap Counts = {}

LEMMA SetOperationKeeps ==
    ASSUME IInv, CallerStaysInside, NEW l \in LayoutSlots, NEW i \in LayoutIndexes,
           zelda64_layout_set_operation(l, i)
    PROVE  /\ IInv' /\ StaysPut /\ layouts[l].at # NULL
           /\ said' = [call |-> <<"set", l, i>>,
                       error |-> IF i < heap[layouts[l].at].count THEN "OK" ELSE "OUT_OF_RANGE"]
<1> DEFINE p == layouts[l].at
           n == heap[p].count
           c == <<"set", l, i>>
<1>1. pc = "idle" /\ p # NULL /\ UNCHANGED held
    BY DEF zelda64_layout_set_operation
<1>2. heap[p] \in Block /\ heap[p].what = "layout" /\ Fits(heap, heap[p])
    BY <1>1, HandlesAreTaken DEF IInv, HandlesAreGood, Forest
<1>3. n \in Counts /\ heap[heap[p].entries].count = n
    BY <1>2, LayoutFields DEF Fits
<1> HIDE DEF n
<1>4. n \in Nat /\ i \in Nat /\ i # n
    BY <1>3, SessionAssumption DEF CallerStaysInside
<1>5. CASE i < n
  <2>1. Return(heap, c, "OK")
      BY <1>3, <1>4, <1>5 DEF zelda64_layout_set_operation, n
  <2>2. IInv' /\ StaysPut /\ said' = [call |-> c, error |-> "OK"]
      BY <1>1, <2>1, LooksIdle
  <2>3. QED
      BY <1>1, <1>5, <2>2 DEF n
<1>6. CASE ~(i < n)
  <2>1. i > n
      BY <1>4, <1>6
  <2>2. Return(heap, c, "OUT_OF_RANGE")
      BY <2>1 DEF zelda64_layout_set_operation, n
  <2>3. IInv' /\ StaysPut /\ said' = [call |-> c, error |-> "OUT_OF_RANGE"]
      BY <1>1, <2>2, LooksIdle DEF Errors
  <2>4. QED
      BY <1>1, <1>6, <2>3 DEF n
<1>7. QED
    BY <1>5, <1>6

LEMMA AllocEntriesKeeps ==
    ASSUME IInv, NEW r \in RomSlots, NEW l \in LayoutSlots, NEW a \in Allocators,
           AllocEntries(r, l, a)
    PROVE  /\ IInv' /\ StaysPut
           /\ said' = said
              \/ \E e \in Errors : said' = [call |-> <<"layout", r, l>>, error |-> e]
           /\ roms[r] # NULL /\ layouts[l] = Nowhere
<1> DEFINE p == roms[r]
           c == <<"layout", r, l>>
           n == heap[p].count
           b == Entries(a, p, n)
           t == NextFree(heap)
<1>1. pc = "idle" /\ p # NULL /\ layouts[l] = Nowhere
    BY DEF AllocEntries
<1>2. /\ Forest(heap, HandleRoots) /\ HandlesAreGood /\ heap \in [Blocks -> Block]
    BY <1>1, IdleRoots, HandlesAreTaken DEF IInv
<1>3. p \in Blocks /\ n \in Counts
    BY <1>1, <1>2, HandlesAreTaken DEF HandlesAreGood
<1>4. CASE Return(heap, c, "MEMORY_ERROR") /\ UNCHANGED held
  <2>1. IInv' /\ StaysPut /\ said' = [call |-> c, error |-> "MEMORY_ERROR"]
      BY <1>1, <1>4, LooksIdle DEF Errors
  <2>2. QED
      BY <1>1, <2>1 DEF Errors
<1>5. CASE /\ Room(heap)
           /\ Continue(Put(heap, b), "layout",
                       [call |-> c, slot |-> l, of |-> r, rom |-> p, a |-> a, entries |-> t])
  <2> DEFINE m == [call |-> c, slot |-> l, of |-> r, rom |-> p, a |-> a, entries |-> t]
  <2>1. b \in Block /\ b # Free /\ Owned(b) = {} /\ Fits(heap, b)
      BY <1>3, EmptyFits
  <2>2. b.what = "entries" /\ b.by = a /\ b.rom = p /\ b.count = n
      BY DEF Entries
  <2> HIDE DEF b
  <2>3. /\ Forest(Put(heap, b), (HandleRoots \ Owned(b)) \cup {t})
        /\ t \in Blocks \ Taken(heap)
        /\ Put(heap, b) = [heap EXCEPT ![t] = b] /\ Put(heap, b)[t] = b
      BY <1>2, <1>5, <2>1, PutKeeps
  <2> HIDE DEF t
  <2>4. (HandleRoots \ Owned(b)) \cup {t} = HandleRoots \cup {t}
      BY <2>1
  <2>5. /\ heap' = Put(heap, b) /\ pc' = "layout" /\ local' = m
        /\ UNCHANGED held /\ said' = said
      BY <1>5 DEF Continue
  <2>6. Elsewhere({t}) /\ Away({t})
      BY <1>2, <2>3, <2>5, NewIsAway DEF Elsewhere
  <2>7. HandlesAreGood' /\ StaysPut /\ HandleRoots' = HandleRoots
      BY <2>5, <2>6, HandlesStay
  <2>8. Roots' = HandleRoots \cup {t}
      BY <2>5, <2>7 DEF Roots, CallHolds
  <2>9. roms' = roms /\ layouts' = layouts
      BY <2>5 DEF held
  <2>10. MakesLayout'
      BY <1>1, <2>5, <2>9 DEF MakesLayout
  <2>11. heap'[p] = heap[p]
      BY <1>1, <2>7 DEF StaysPut, HandleRoots
  <2>12. CallIsGood'
      BY <2>2, <2>3, <2>5, <2>9, <2>10, <2>11 DEF CallIsGood, IInv
  <2>13. QED
      BY <1>1, <2>3, <2>4, <2>5, <2>7, <2>8, <2>12 DEF IInv
<1>6. QED
    BY <1>4, <1>5 DEF AllocEntries

LEMMA AllocLayoutKeeps ==
    ASSUME IInv, AllocLayout
    PROVE  /\ IInv'
           /\ MakesLayout
           /\ \/ StaysPut /\ \E e \in Errors : said' = [call |-> local.call, error |-> e]
              \/ \E p \in Blocks :
                    /\ roms' = roms
                    /\ layouts' = [layouts EXCEPT ![local.slot] = [at |-> p, of |-> local.of]]
                    /\ \A q \in HandleRoots : heap'[q] = heap[q]
                    /\ heap'[p].count = heap[roms[local.of]].count
                    /\ said' = [call |-> local.call, error |-> "OK"]
<1> DEFINE e == local.entries
           b == Layout(local.a, e)
           p == NextFree(heap)
           k == local.slot
           v == [at |-> p, of |-> local.of]
<1>1. /\ pc = "layout" /\ MakesLayout /\ e \in Blocks
      /\ heap[e].what = "entries" /\ heap[e].by = local.a
      /\ heap[e].rom = roms[local.of] /\ heap[e].count = heap[roms[local.of]].count
      /\ Forest(heap, Roots) /\ HandlesAreGood /\ heap \in [Blocks -> Block]
    BY HandlesAreTaken DEF AllocLayout, IInv, CallIsGood
<1>2. Roots = HandleRoots \cup {e} /\ e \notin HandleRoots
    BY <1>1, CallHoldsNoHandle DEF Roots, CallHolds
<1>3. local.a \in Allocators /\ heap[e].count \in Counts
    BY <1>1, EntriesFields
<1>4. CASE Fail(zelda64_free(heap, local.a, e), "MEMORY_ERROR")
  <2>1. zelda64_free(heap, local.a, e) = Release(heap, {e})
    <3>1. heap[e] # Free
        BY <1>1 DEF Free
    <3>2. zelda64_free(heap, local.a, e) = [heap EXCEPT ![e] = Free]
        BY <1>1, <3>1, FreeTakes
    <3>3. QED
        BY <1>1, <3>2 DEF Release
  <2>2. Owned(heap[e]) = {}
      BY <1>1 DEF Owned
  <2>3. /\ Forest(Release(heap, {e}), Roots \ {e})
        /\ \A x \in Blocks \ {e} : Owned(heap[x]) \cap {e} = {}
      BY <1>1, <1>2, <2>2, LeafIsReleased
  <2> DEFINE S == {e}
  <2>4. Roots \ {e} = HandleRoots /\ \A q \in HandleRoots : q \notin S
      BY <1>2
  <2>5. Fail(Release(heap, S), "MEMORY_ERROR") /\ "MEMORY_ERROR" \in Errors
      BY <1>4, <2>1 DEF Errors
  <2>6. /\ Forest(Release(heap, S), HandleRoots)
        /\ \A x \in Blocks \ S : Owned(heap[x]) \cap S = {}
      BY <2>3, <2>4
  <2> HIDE DEF S, e
  <2>7. IInv' /\ StaysPut /\ said' = [call |-> local.call, error |-> "MEMORY_ERROR"]
      BY <2>4, <2>5, <2>6, FailsIdle
  <2>8. QED
      BY <1>1, <2>5, <2>7
<1>5. CASE /\ Room(heap)
           /\ Return(Put(heap, b), local.call, "OK")
           /\ layouts' = [layouts EXCEPT ![k] = v]
           /\ UNCHANGED roms
  <2>1. /\ b.what = "layout" /\ b.allocator = local.a /\ b.entries = e
        /\ b.count = heap[e].count
        /\ Owned(b) = {e}
      BY DEF Layout, Owned
  <2>2. b \in Block /\ b # Free
      BY <1>1, <1>3 DEF Layout, Block, LayoutBlock, Free
  <2>3. Fits(heap, b)
      BY <1>1, <2>1 DEF Fits
  <2> HIDE DEF b
  <2>4. /\ Forest(Put(heap, b), (Roots \ Owned(b)) \cup {p})
        /\ p \in Blocks \ Taken(heap)
        /\ Put(heap, b) = [heap EXCEPT ![p] = b] /\ Put(heap, b)[p] = b
    <3>1. Owned(b) \subseteq Roots /\ Room(heap)
        BY <1>2, <1>5, <2>1
    <3>2. QED
        BY <1>1, <2>2, <2>3, <3>1, PutKeeps
  <2> HIDE DEF p
  <2>5. (Roots \ Owned(b)) \cup {p} = HandleRoots \cup {p}
      BY <1>2, <2>1
  <2>6. /\ heap' = Put(heap, b) /\ pc' = "idle"
        /\ said' = [call |-> local.call, error |-> "OK"]
      BY <1>5 DEF Return
  <2>7. /\ heap'[p] = b /\ \A q \in Blocks \ {p} : heap'[q] = heap[q]
      BY <1>1, <2>4, <2>6
  <2>8. /\ p # NULL /\ p \notin HandleRoots /\ p # e
        /\ \A q \in HandleRoots : heap'[q] = heap[q]
    <3>1. e \in Taken(heap)
        BY <1>1, <1>2 DEF Forest
    <3>2. QED
        BY <2>4, <2>7, <3>1, HandlesAreTaken, SessionAssumption
  <2>9. /\ k \in LayoutSlots /\ layouts[k] = Nowhere
        /\ local.of \in RomSlots /\ roms[local.of] # NULL
      BY <1>1 DEF MakesLayout
  <2>10. /\ layouts' \in [LayoutSlots -> [at : Address, of : RomSlots \cup {"none", Gone}]]
         /\ layouts'[k] = v /\ \A l \in LayoutSlots \ {k} : layouts'[l] = layouts[l]
    <3>1. v \in [at : Address, of : RomSlots \cup {"none", Gone}]
        BY <2>4, <2>9 DEF Address
    <3> HIDE DEF v, k
    <3>2. QED
        BY <1>1, <1>5, <2>9, <3>1 DEF HandlesAreGood
  <2>11. v.at = p /\ v.of = local.of
      OBVIOUS
  <2> HIDE DEF v, k, e
  <2>12. HandleRoots' = HandleRoots \cup {p}
    <3>1. {layouts'[l].at : l \in LayoutSlots} \ {NULL}
          = ({layouts[l].at : l \in LayoutSlots} \ {NULL}) \cup {p}
      <4>1. layouts[k].at = NULL
          BY <2>9 DEF Nowhere
      <4>2. QED
          BY <2>8, <2>9, <2>10, <2>11, <4>1
    <3>2. QED
        BY <1>5, <2>8, <3>1 DEF HandleRoots
  <2>13. \A l \in LayoutSlots \ {k} : layouts[l].at # NULL =>
            /\ layouts[l].at # p
            /\ heap'[layouts[l].at] = heap[layouts[l].at]
            /\ heap'[heap[layouts[l].at].entries] = heap[heap[layouts[l].at].entries]
    <3> SUFFICES ASSUME NEW l \in LayoutSlots \ {k}, layouts[l].at # NULL
                 PROVE  /\ layouts[l].at # p
                        /\ heap'[layouts[l].at] = heap[layouts[l].at]
                        /\ heap'[heap[layouts[l].at].entries] = heap[heap[layouts[l].at].entries]
        OBVIOUS
    <3>1. layouts[l].at \in Taken(heap) /\ heap[layouts[l].at].entries \in Taken(heap)
        BY HandlesAreTaken
    <3>2. QED
        BY <2>4, <2>7, <3>1, HandlesAreTaken
  <2>14. HandlesAreGood'
    <3>1. \A r \in RomSlots : roms[r] # NULL => roms[r] \in HandleRoots
        BY DEF HandleRoots
    <3>2. \A r \in RomSlots : roms'[r] # NULL =>
             heap'[roms'[r]].what = "rom" /\ heap'[roms'[r]].count \in Counts
        BY <1>1, <1>5, <2>8, <3>1 DEF HandlesAreGood
    <3>3. \A l \in LayoutSlots : layouts'[l].at = NULL <=> layouts'[l].of = "none"
      <4>1. local.of # "none"
          BY <2>9, SessionAssumption DEF Nowhere
      <4>2. QED
          BY <1>1, <2>8, <2>10, <2>11, <4>1 DEF HandlesAreGood
    <3>4. \A l \in LayoutSlots : layouts'[l].at # NULL => heap'[layouts'[l].at].what = "layout"
        BY <1>1, <2>1, <2>7, <2>10, <2>11, <2>13 DEF HandlesAreGood
    <3>5. \A l, m \in LayoutSlots :
             layouts'[l].at = layouts'[m].at /\ layouts'[l].at # NULL => l = m
        BY <1>1, <2>10, <2>11, <2>13 DEF HandlesAreGood
    <3>6. ASSUME NEW l \in LayoutSlots, layouts'[l].of \in RomSlots
          PROVE  /\ roms'[layouts'[l].of] # NULL
                 /\ heap'[heap'[layouts'[l].at].entries].rom = roms'[layouts'[l].of]
      <4>1. CASE l = k
        <5>1. heap'[e] = heap[e]
            BY <1>1, <2>7, <2>8
        <5>2. QED
            BY <1>1, <1>5, <2>1, <2>7, <2>9, <2>10, <2>11, <4>1, <5>1
      <4>2. CASE l # k
        <5>1. layouts'[l] = layouts[l] /\ layouts[l].at # NULL
            BY <1>1, <2>10, <3>6, <4>2, SessionAssumption DEF HandlesAreGood, Nowhere
        <5>2. QED
            BY <1>1, <1>5, <2>13, <3>6, <4>2, <5>1 DEF HandlesAreGood
      <4>3. QED
          BY <4>1, <4>2
    <3>7. /\ roms' \in [RomSlots -> Address]
          /\ \A r, s \in RomSlots : roms'[r] = roms'[s] /\ roms'[r] # NULL => r = s
        BY <1>1, <1>5 DEF HandlesAreGood
    <3>8. QED
        BY <2>10, <3>2, <3>3, <3>4, <3>5, <3>6, <3>7 DEF HandlesAreGood
  <2>15. CallIsGood' /\ Roots' = HandleRoots \cup {p}
      BY <2>6, <2>12 DEF CallIsGood, Roots, CallHolds
  <2>16. IInv'
      BY <2>4, <2>5, <2>6, <2>14, <2>15 DEF IInv
  <2>17. heap'[p].count = heap[roms[local.of]].count
      BY <1>1, <2>1, <2>7 DEF e
  <2>18. QED
      BY <1>1, <1>5, <2>4, <2>6, <2>8, <2>16, <2>17 DEF v, k
<1>6. QED
    BY <1>4, <1>5 DEF AllocLayout

LEMMA FreeLayoutKeeps ==
    ASSUME IInv, NEW l \in LayoutSlots, zelda64_free_layout(l)
    PROVE  /\ IInv'
           /\ roms' = roms /\ layouts' = [layouts EXCEPT ![l] = Nowhere]
           /\ layouts[l].at # NULL
           /\ \A q \in HandleRoots \ {layouts[l].at} : heap'[q] = heap[q]
           /\ said' = [call |-> <<"free", l>>, error |-> "OK"]
<1> DEFINE p == layouts[l].at
           e == heap[p].entries
           S == LayoutParts(heap, p)
<1>1. /\ pc = "idle" /\ p # NULL
      /\ roms' = roms /\ layouts' = [layouts EXCEPT ![l] = Nowhere]
      /\ heap' = zelda64_free(zelda64_free(heap, heap[p].allocator, e), heap[p].allocator, p)
      /\ pc' = "idle" /\ said' = [call |-> <<"free", l>>, error |-> "OK"]
    BY DEF zelda64_free_layout, Return
<1>2. /\ Forest(heap, HandleRoots) /\ HandlesAreGood /\ heap \in [Blocks -> Block]
    BY <1>1, IdleRoots, HandlesAreTaken DEF IInv
<1>3. p \in HandleRoots /\ p \in Blocks /\ heap[p].what = "layout" /\ Fits(heap, heap[p])
    BY <1>1, <1>2, HandlesAreTaken DEF HandleRoots, HandlesAreGood, Forest
<1>4. /\ heap[p].by = heap[p].allocator /\ heap[p] # Free /\ e \in Blocks
      /\ heap[e].what = "entries" /\ heap[e].by = heap[p].allocator
    BY <1>2, <1>3, LayoutFields DEF Fits
<1>5. heap' = Release(heap, S)
  <2>1. heap[e] # Free /\ e # p
      BY <1>3, <1>4 DEF Free
  <2>2. zelda64_free(heap, heap[p].allocator, e) = Release(heap, {e})
    <3>1. zelda64_free(heap, heap[p].allocator, e) = [heap EXCEPT ![e] = Free]
        BY <1>2, <1>4, <2>1, FreeTakes
    <3>2. QED
        BY <1>2, <1>4, <3>1 DEF Release
  <2> DEFINE E == {e}
  <2>3. p \in Blocks \ E
      BY <1>3, <2>1
  <2> HIDE DEF p, e, E
  <2>4. zelda64_free(Release(heap, E), heap[p].allocator, p) = Release(heap, E \cup {p})
      BY <1>2, <1>4, <2>3, FreeReleases
  <2>5. E \cup {p} = S
      BY DEF LayoutParts, E, e
  <2>6. QED
      BY <1>1, <2>2, <2>4, <2>5 DEF E
<1>6. /\ Forest(heap', HandleRoots \ {p})
      /\ S \cap HandleRoots = {p}
      /\ \A x \in Blocks \ S : Owned(heap[x]) \cap S = {}
    BY <1>2, <1>3, <1>5, LayoutIsReleased
<1> HIDE DEF S
<1>7. \A q \in Blocks \ S : heap'[q] = heap[q]
    BY <1>5 DEF Release
<1>8. \A q \in HandleRoots \ {p} : q \in Blocks \ S /\ heap'[q] = heap[q]
    BY <1>6, <1>7, HandlesAreTaken
<1>9. /\ layouts' \in [LayoutSlots -> [at : Address, of : RomSlots \cup {"none", Gone}]]
      /\ layouts'[l] = Nowhere /\ \A k \in LayoutSlots \ {l} : layouts'[k] = layouts[k]
  <2>1. Nowhere \in [at : Address, of : RomSlots \cup {"none", Gone}]
      BY DEF Nowhere, Address
  <2>2. QED
      BY <1>1, <1>2, <2>1 DEF HandlesAreGood
<1>10. Nowhere.at = NULL /\ Nowhere.of = "none" /\ "none" \notin RomSlots
    BY SessionAssumption DEF Nowhere
<1>11. HandleRoots' = HandleRoots \ {p}
  <2>1. \A r \in RomSlots : roms[r] # p
      BY <1>1, <1>2, <1>3 DEF HandlesAreGood
  <2>2. \A k \in LayoutSlots \ {l} : layouts[k].at # p
      BY <1>1, <1>2 DEF HandlesAreGood
  <2>3. {layouts'[k].at : k \in LayoutSlots} \ {NULL}
        = {layouts[k].at : k \in LayoutSlots} \ {NULL, p}
      BY <1>9, <1>10, <2>2
  <2>4. QED
      BY <1>1, <2>1, <2>3 DEF HandleRoots
<1>12. \A k \in LayoutSlots \ {l} : layouts[k].at # NULL =>
          /\ heap'[layouts[k].at] = heap[layouts[k].at]
          /\ heap'[heap[layouts[k].at].entries] = heap[heap[layouts[k].at].entries]
  <2> SUFFICES ASSUME NEW k \in LayoutSlots \ {l}, layouts[k].at # NULL
               PROVE  /\ heap'[layouts[k].at] = heap[layouts[k].at]
                      /\ heap'[heap[layouts[k].at].entries] = heap[heap[layouts[k].at].entries]
      OBVIOUS
  <2>1. layouts[k].at \in HandleRoots \ {p}
      BY <1>2, <1>3 DEF HandleRoots, HandlesAreGood
  <2>2. heap[layouts[k].at].entries \in Blocks \ S
      BY <1>6, <1>8, <2>1, HandlesAreTaken
  <2>3. QED
      BY <1>7, <1>8, <2>1, <2>2
<1>13. HandlesAreGood'
  <2>1. \A r \in RomSlots : roms[r] # NULL => roms[r] \in HandleRoots \ {p}
      BY <1>1, <1>2, <1>3 DEF HandleRoots, HandlesAreGood
  <2>2. ASSUME NEW r \in RomSlots, roms'[r] # NULL
        PROVE  heap'[roms'[r]].what = "rom" /\ heap'[roms'[r]].count \in Counts
    <3>1. roms'[r] = roms[r] /\ heap'[roms[r]] = heap[roms[r]]
        BY <1>1, <1>8, <2>1, <2>2
    <3>2. QED
        BY <1>2, <2>2, <3>1 DEF HandlesAreGood
  <2>3. \A k \in LayoutSlots : layouts'[k].at = NULL <=> layouts'[k].of = "none"
      BY <1>2, <1>9, <1>10 DEF HandlesAreGood
  <2>4. \A k \in LayoutSlots : layouts'[k].at # NULL => heap'[layouts'[k].at].what = "layout"
      BY <1>2, <1>9, <1>10, <1>12 DEF HandlesAreGood
  <2>5. \A k, m \in LayoutSlots :
           layouts'[k].at = layouts'[m].at /\ layouts'[k].at # NULL => k = m
      BY <1>2, <1>9, <1>10 DEF HandlesAreGood
  <2>6. ASSUME NEW k \in LayoutSlots, layouts'[k].of \in RomSlots
        PROVE  /\ roms'[layouts'[k].of] # NULL
               /\ heap'[heap'[layouts'[k].at].entries].rom = roms'[layouts'[k].of]
    <3>1. k # l /\ layouts'[k] = layouts[k]
        BY <1>9, <1>10, <2>6
    <3>2. layouts[k].at # NULL
        BY <1>2, <1>10, <2>6, <3>1 DEF HandlesAreGood
    <3>3. /\ roms[layouts[k].of] # NULL
          /\ heap[heap[layouts[k].at].entries].rom = roms[layouts[k].of]
        BY <1>2, <2>6, <3>1 DEF HandlesAreGood
    <3>4. heap'[heap'[layouts[k].at].entries] = heap[heap[layouts[k].at].entries]
        BY <1>12, <3>1, <3>2
    <3>5. QED
        BY <1>1, <3>1, <3>3, <3>4
  <2>7. /\ roms' \in [RomSlots -> Address]
        /\ \A r, s \in RomSlots : roms'[r] = roms'[s] /\ roms'[r] # NULL => r = s
      BY <1>1, <1>2 DEF HandlesAreGood
  <2>8. QED
      BY <1>9, <2>2, <2>3, <2>4, <2>5, <2>6, <2>7 DEF HandlesAreGood
<1>14. CallIsGood' /\ Roots' = HandleRoots \ {p}
    BY <1>1, <1>11 DEF CallIsGood, Roots, CallHolds
<1>15. QED
    BY <1>1, <1>6, <1>8, <1>13, <1>14 DEF IInv

LEMMA OpenOutputKeeps ==
    ASSUME IInv, NEW l \in LayoutSlots, NEW kind, OpenOutput(l, kind)
    PROVE  /\ IInv' /\ StaysPut
           /\ said' = said \/ \E e \in Errors : said' = [call |-> <<"write", l>>, error |-> e]
           /\ layouts[l].at # NULL /\ layouts[l].of \in RomSlots
<1> DEFINE p == layouts[l].at
           a == heap[p].allocator
           m == [call |-> <<"write", l>>, layout |-> p, io |-> NULL, table |-> NULL]
<1>1. /\ pc = "idle" /\ p # NULL /\ layouts[l].of \in RomSlots
      /\ OpenIo(a, kind, "table", m)
    BY DEF OpenOutput
<1>2. a \in Allocators
  <2>1. heap[p] \in Block /\ heap[p].what = "layout"
      BY <1>1, HandlesAreTaken DEF IInv, HandlesAreGood
  <2>2. QED
      BY <2>1, LayoutFields
<1>3. m.call = <<"write", l>>
    OBVIOUS
<1> HIDE DEF m
<1>4. CASE /\ IInv' /\ StaysPut
           /\ \E e \in Errors : said' = [call |-> m.call, error |-> e]
    BY <1>1, <1>3, <1>4
<1>5. CASE /\ HandlesAreGood' /\ StaysPut /\ HandleRoots' = HandleRoots
           /\ pc' = "table" /\ said' = said
           /\ \E io \in Blocks :
                 /\ local' = [m EXCEPT !.io = io]
                 /\ Forest(heap', HandleRoots \cup {io})
                 /\ heap'[io].what = "io"
  <2>1. PICK io \in Blocks :
           /\ local' = [m EXCEPT !.io = io]
           /\ Forest(heap', HandleRoots \cup {io})
           /\ heap'[io].what = "io"
      BY <1>5
  <2>2. local' = [call |-> <<"write", l>>, layout |-> p, io |-> io, table |-> NULL]
      BY <2>1 DEF m
  <2>3. layouts' = layouts
      BY <1>5 DEF StaysPut, held
  <2>4. Roots' = HandleRoots \cup {io}
      BY <1>5, <2>2 DEF Roots, CallHolds
  <2>5. WritesLayout'
    <3>1. /\ local'.call = <<"write", l>> /\ local'.layout = p /\ local'.io = io
          /\ local' = [call |-> local'.call, layout |-> local'.layout, io |-> local'.io,
                       table |-> local'.table]
        BY <2>2
    <3>2. /\ local'.call = <<"write", l>>
          /\ local'.layout = layouts'[l].at /\ local'.layout # NULL
          /\ layouts'[l].of \in RomSlots
        BY <1>1, <2>3, <3>1
    <3>3. QED
        BY <2>1, <3>1, <3>2 DEF WritesLayout
  <2>6. CallIsGood'
      BY <1>5, <2>5 DEF CallIsGood, IInv
  <2>7. Forest(heap', Roots')
      BY <2>1, <2>4
  <2>8. QED
      BY <1>1, <1>5, <2>6, <2>7 DEF IInv
<1>6. QED
    BY <1>1, <1>2, <1>4, <1>5, OpenIoKeeps

LEMMA AllocTableKeeps ==
    ASSUME IInv, AllocTable
    PROVE  /\ IInv' /\ StaysPut /\ WritesLayout
           /\ said' = said \/ \E e \in Errors : said' = [call |-> local.call, error |-> e]
<1> DEFINE a == heap[local.layout].allocator
           b == Table(a)
           t == NextFree(heap)
           m == [local EXCEPT !.table = t]
<1>1. /\ pc = "table" /\ WritesLayout /\ local.io \in Blocks /\ heap[local.io].what = "io"
      /\ Forest(heap, Roots) /\ HandlesAreGood /\ heap \in [Blocks -> Block]
    BY HandlesAreTaken DEF AllocTable, IInv, CallIsGood, WritesLayout
<1>2. CASE Fail(zelda64_io_close(heap, local.io), "MEMORY_ERROR")
    BY <1>1, <1>2, FailClosesIo DEF Errors
<1>3. CASE Room(heap) /\ Continue(Put(heap, b), "write", m)
  <2>1. local.layout \in HandleRoots /\ heap[local.layout].what = "layout"
      BY <1>1 DEF WritesLayout, HandleRoots, HandlesAreGood
  <2>2. a \in Allocators
    <3>1. heap[local.layout] \in Block
        BY <1>1, <2>1, HandlesAreTaken
    <3>2. QED
        BY <2>1, <3>1, LayoutFields
  <2>3. b \in Block /\ b # Free /\ b.what = "table" /\ b.by = a /\ Owned(b) = {}
      BY <2>2, OtherBlocks
  <2> HIDE DEF b
  <2>4. Fits(heap, b)
      BY <2>3 DEF Fits
  <2>5. /\ Forest(Put(heap, b), (Roots \ Owned(b)) \cup {t})
        /\ t \in Blocks \ Taken(heap)
        /\ Put(heap, b) = [heap EXCEPT ![t] = b] /\ Put(heap, b)[t] = b
    <3>1. Owned(b) \subseteq Roots /\ Room(heap)
        BY <1>3, <2>3
    <3>2. QED
        BY <1>1, <2>3, <2>4, <3>1, PutKeeps
  <2> HIDE DEF t
  <2>6. (Roots \ Owned(b)) \cup {t} = HandleRoots \cup {local.io, t}
      BY <1>1, <2>3 DEF Roots, CallHolds
  <2>7. /\ heap' = Put(heap, b) /\ pc' = "write" /\ local' = m
        /\ UNCHANGED held /\ said' = said
      BY <1>3 DEF Continue
  <2>8. Elsewhere({t}) /\ Away({t})
      BY <1>1, <2>5, <2>7, NewIsAway DEF Elsewhere
  <2>9. HandlesAreGood' /\ StaysPut /\ HandleRoots' = HandleRoots
      BY <2>7, <2>8, HandlesStay
  <2>10. local' = [call |-> local.call, layout |-> local.layout, io |-> local.io, table |-> t]
      BY <1>1, <2>7 DEF WritesLayout
  <2>11. Roots' = HandleRoots \cup {local.io, t}
      BY <2>7, <2>9, <2>10 DEF Roots, CallHolds
  <2>12. heap'[local.io] = heap[local.io] /\ heap'[local.layout] = heap[local.layout]
    <3>1. local.io \in Taken(heap)
        BY <1>1 DEF Forest, Roots, CallHolds
    <3>2. local.io # t
        BY <2>5, <3>1
    <3>3. QED
        BY <1>1, <2>1, <2>5, <2>7, <2>9, <3>2 DEF StaysPut
  <2>13. WritesLayout'
      BY <1>1, <2>7, <2>10, <2>12 DEF WritesLayout, held
  <2>14. CallIsGood'
      BY <2>3, <2>5, <2>7, <2>10, <2>12, <2>13 DEF CallIsGood, IInv
  <2>15. QED
      BY <1>1, <2>5, <2>6, <2>7, <2>9, <2>11, <2>14 DEF IInv
<1>4. QED
    BY <1>2, <1>3 DEF AllocTable

LEMMA WriteRomKeeps ==
    ASSUME IInv, WriteRom
    PROVE  /\ IInv' /\ StaysPut /\ WritesLayout
           /\ \E e \in Errors \cup {"OK"} : said' = [call |-> local.call, error |-> e]
<1> DEFINE t == local.table
           io == local.io
           h1 == Release(heap, {t})
           D == {t} \cup IoParts(h1, io)
<1>1. /\ pc = "write" /\ WritesLayout /\ io \in Blocks /\ heap[io].what = "io"
      /\ t \in Blocks /\ heap[t].what = "table"
      /\ heap[t].by = heap[local.layout].allocator
      /\ Forest(heap, Roots) /\ heap \in [Blocks -> Block]
    BY HandlesAreTaken DEF WriteRom, IInv, CallIsGood, WritesLayout
<1>2. Roots = HandleRoots \cup {io, t} /\ {io, t} \cap HandleRoots = {} /\ io # t
    BY <1>1, CallHoldsNoHandle DEF Roots, CallHolds
<1>3. heap[t] # Free /\ Owned(heap[t]) = {}
    BY <1>1 DEF Free, Owned
<1>4. PICK e \in WriteErrors \cup {"OK"} :
         Fail(zelda64_io_close(zelda64_free(heap, heap[local.layout].allocator, t), io), e)
    BY DEF WriteRom
<1> HIDE DEF t, io
<1>5. zelda64_free(heap, heap[local.layout].allocator, t) = h1
  <2>1. zelda64_free(heap, heap[local.layout].allocator, t) = [heap EXCEPT ![t] = Free]
      BY <1>1, <1>3, FreeTakes
  <2>2. QED
      BY <1>1, <2>1 DEF Release
<1>6. /\ Forest(h1, Roots \ {t})
      /\ \A x \in Blocks \ {t} : Owned(heap[x]) \cap {t} = {}
    BY <1>1, <1>2, <1>3, LeafIsReleased
<1>7. \A q \in Blocks \ {t} : h1[q] = heap[q]
    BY DEF Release
<1> HIDE DEF h1
<1>8. h1[io].what = "io"
    BY <1>1, <1>2, <1>7
<1>9. zelda64_io_close(h1, io) = Release(h1, IoParts(h1, io))
    BY <1>1, <1>6, <1>8, IoCloses
<1> DEFINE S == IoParts(h1, io)
<1>10. /\ Forest(Release(h1, S), (Roots \ {t}) \ {io})
       /\ S \cap (Roots \ {t}) = {io}
       /\ \A x \in Blocks \ S : Owned(h1[x]) \cap S = {}
  <2>1. io \in Roots \ {t}
      BY <1>2
  <2>2. QED
      BY <1>6, <1>8, <2>1, IoIsReleased
<1> HIDE DEF S
<1>11. (Roots \ {t}) \ {io} = HandleRoots
    BY <1>2
<1>12. /\ heap' = Release(h1, S) /\ pc' = "idle" /\ UNCHANGED held
       /\ said' = [call |-> local.call, error |-> e]
    BY <1>4, <1>5, <1>9 DEF Fail, Return, S
<1>13. Elsewhere({t} \cup S)
    BY <1>7, <1>12 DEF Elsewhere, Release
<1>14. \A p \in HandleRoots : p \in Blocks /\ p # t /\ p \notin S
    BY <1>2, <1>10, HandlesAreTaken
<1>15. Away({t} \cup S)
  <2> SUFFICES ASSUME NEW l \in LayoutSlots, layouts[l].at # NULL
               PROVE  heap[layouts[l].at].entries \notin {t} \cup S
      BY <1>14 DEF Away
  <2> DEFINE p == layouts[l].at
  <2>1. p \in Blocks /\ p # t /\ p \notin S
      BY <1>14 DEF HandleRoots
  <2>2. heap[p].entries \in Owned(heap[p]) /\ h1[p] = heap[p]
      BY <1>7, <2>1, HandlesAreTaken
  <2>3. QED
      BY <1>6, <1>10, <2>1, <2>2
<1> DEFINE E == {t} \cup S
<1>16. /\ Elsewhere(E) /\ Away(E)
       /\ said'.error \in Errors \cup {"OK"} /\ e \in Errors \cup {"OK"}
    BY <1>12, <1>13, <1>15 DEF Errors
<1> HIDE DEF E
<1>17. IInv' /\ StaysPut
    BY <1>10, <1>11, <1>12, <1>16, ReturnsIdle
<1>18. QED
    BY <1>1, <1>12, <1>16, <1>17

-----------------------------------------------------------------------------
(* Every step keeps the invariant. *)

LEMMA InitIsGood == Init => IInv
<1> SUFFICES ASSUME Init PROVE IInv
    OBVIOUS
<1>1. \A l \in LayoutSlots : layouts[l].at = NULL /\ layouts[l].of = "none"
    BY DEF Init, Nowhere
<1>2. Roots = {}
    BY <1>1 DEF Init, Roots, HandleRoots, CallHolds
<1>3. Forest(heap, Roots)
    BY <1>2 DEF Init, Forest, Taken, Block, Owned, Fits, Free
<1>4. HandlesAreGood
  <2>1. Nowhere \in [at : Address, of : RomSlots \cup {"none", Gone}]
      BY DEF Nowhere, Address
  <2>2. layouts \in [LayoutSlots -> [at : Address, of : RomSlots \cup {"none", Gone}]]
      BY <2>1 DEF Init
  <2>3. "none" \notin RomSlots
      BY SessionAssumption DEF Nowhere
  <2>4. roms \in [RomSlots -> Address]
      BY DEF Init, Address
  <2>5. QED
      BY <1>1, <2>2, <2>3, <2>4 DEF Init, HandlesAreGood
<1>5. CallIsGood
    BY DEF Init, CallIsGood
<1>6. QED
    BY <1>3, <1>4, <1>5 DEF IInv

LEMMA StepKeeps == IInv /\ CallerStaysInside /\ [Next]_vars => IInv'
<1> SUFFICES ASSUME IInv, CallerStaysInside, [Next]_vars PROVE IInv'
    OBVIOUS
<1>1. ASSUME NEW r \in RomSlots, NEW a \in Allocators, NEW kind \in {"file", "buffer"},
             zelda64_open(r, a, kind)
      PROVE  IInv'
    BY <1>1, OpenKeeps
<1>2. ASSUME NEW r \in RomSlots, CloseRom(r) PROVE IInv'
    BY <1>2, CloseRomKeeps
<1>3. ASSUME NEW r \in RomSlots, NEW i \in Indexes, zelda64_dmadata_entry(r, i) PROVE IInv'
    BY <1>3, EntryKeeps
<1>4. CASE OpenRom
    BY <1>4, OpenRomKeeps
<1>5. CASE ReadDmadata
    BY <1>5, ReadDmadataKeeps
<1>6. CASE DetectCic
    BY <1>6, DetectCicKeeps
<1>7. ASSUME NEW l \in LayoutSlots, NEW r \in RomSlots, NEW a \in Allocators, AllocEntries(r, l, a)
      PROVE  IInv'
    BY <1>7, AllocEntriesKeeps
<1>8. ASSUME NEW l \in LayoutSlots, zelda64_free_layout(l) PROVE IInv'
    BY <1>8, FreeLayoutKeeps
<1>9. ASSUME NEW l \in LayoutSlots, NEW i \in LayoutIndexes, zelda64_layout_set_operation(l, i)
      PROVE  IInv'
    BY <1>9, SetOperationKeeps
<1>10. ASSUME NEW l \in LayoutSlots, NEW kind \in {"file", "buffer"}, OpenOutput(l, kind)
       PROVE  IInv'
    BY <1>10, OpenOutputKeeps
<1>11. CASE AllocLayout
    BY <1>11, AllocLayoutKeeps
<1>12. CASE AllocTable
    BY <1>12, AllocTableKeeps
<1>13. CASE WriteRom
    BY <1>13, WriteRomKeeps
<1>14. CASE UNCHANGED vars
  <2>1. /\ heap' = heap /\ roms' = roms /\ layouts' = layouts /\ pc' = pc /\ local' = local
        /\ said' = said
      BY <1>14 DEF vars
  <2>2. HandleRoots' = HandleRoots /\ Roots' = Roots
      BY <2>1 DEF Roots, HandleRoots, CallHolds
  <2>3. HandlesAreGood' /\ CallIsGood'
      BY <2>1, <2>2 DEF IInv, HandlesAreGood, CallIsGood, OpensRom, MakesLayout, WritesLayout
  <2>4. QED
      BY <2>1, <2>2, <2>3 DEF IInv
<1>15. QED
    BY <1>1, <1>2, <1>3, <1>4, <1>5, <1>6, <1>7, <1>8, <1>9, <1>10, <1>11, <1>12, <1>13, <1>14
       DEF Next, Roms, Layouts

(* Every block has one owner in every state. *)
THEOREM Ownership ==
    ASSUME CallerStaysInside
    PROVE  Spec => []IInv
<1>1. Init => IInv
    BY InitIsGood
<1>2. IInv /\ [Next]_vars => IInv'
    BY StepKeeps
<1>3. QED
    BY <1>1, <1>2, PTL DEF Spec

(* Every variable keeps its type: a handle is the address of a ROM or of a *)
(* layout, and the error record holds one of the library's errors.         *)
THEOREM SessionTypes ==
    ASSUME CallerStaysInside
    PROVE  Spec => []TypeOK
<1>1. IInv => TypeOK
  <2> SUFFICES ASSUME IInv PROVE TypeOK
      OBVIOUS
  <2>1. ASSUME NEW p \in Blocks
        PROVE  heap[p].what \in
                  {"free", "corrupt", "FILE", "io", "rom", "table", "entries", "layout"}
    <3>1. heap[p] \in Block
        BY HandlesAreTaken
    <3>2. QED
        BY <3>1 DEF Block, Free, Stream, TableBlock, EntriesBlock, IoBlock, RomBlock, LayoutBlock
  <2>2. QED
      BY <2>1 DEF IInv, HandlesAreGood, CallIsGood, TypeOK
<1>2. QED
    BY <1>1, Ownership, PTL

(* No call gives a block back twice, gives it to an allocator it is not    *)
(* from, or writes behind one, whatever fails and whichever allocators the *)
(* ROMs and the layouts have.                                              *)
THEOREM Soundness ==
    ASSUME CallerStaysInside
    PROVE  Spec => []HeapIsSound
<1>1. IInv => HeapIsSound
  <2> SUFFICES ASSUME IInv, NEW p \in Blocks PROVE heap[p] # Corrupt
      BY DEF HeapIsSound
  <2>1. heap[p] \in Block
      BY HandlesAreTaken
  <2>2. QED
      BY <2>1
         DEF Block, Free, Stream, Corrupt, TableBlock, EntriesBlock, IoBlock, RomBlock, LayoutBlock
<1>2. QED
    BY <1>1, Ownership, PTL

(* A ROM leads to what it owns and to what its I/O object owns. *)
LEMMA OfRomIsOwned ==
    ASSUME IInv, NEW p \in Blocks, heap[p].what = "rom"
    PROVE  OfRom(p) = {p} \cup Owned(heap[p]) \cup Owned(heap[heap[p].io])
<1>1. /\ heap[p] \in Block /\ Fits(heap, heap[p]) /\ p # NULL
    BY HandlesAreTaken, SessionAssumption DEF IInv, Forest
<1>2. heap[p].io \in Blocks /\ Owned(heap[p]) = {heap[p].io, heap[p].dmadata} \ {NULL}
    BY <1>1, RomFields
<1>3. heap[heap[p].io].what = "io"
    BY <1>1 DEF Fits
<1>4. Owned(heap[heap[p].io]) = {heap[heap[p].io].file} \ {NULL}
    BY <1>3 DEF Owned
<1>5. QED
    BY <1>1, <1>2, <1>4 DEF OfRom

LEMMA RomPartsAreTaken ==
    ASSUME IInv, NEW r \in RomSlots, roms[r] # NULL
    PROVE  OfRom(roms[r]) \subseteq Taken(heap)
<1> DEFINE p == roms[r]
<1>1. /\ Forest(heap, Roots) /\ p \in Taken(heap) /\ p \in Blocks /\ heap[p].what = "rom"
      /\ heap[p] \in Block
    BY HandlesAreTaken DEF IInv, HandlesAreGood
<1> HIDE DEF p
<1>2. Owned(heap[p]) \subseteq Taken(heap)
    BY <1>1, OwnedAreTaken
<1>3. heap[p].io \in Blocks
    BY <1>1, RomFields
<1>4. Owned(heap[heap[p].io]) \subseteq Taken(heap)
    BY <1>1, <1>3, OwnedAreTaken
<1>5. QED
    BY <1>1, <1>2, <1>4, OfRomIsOwned DEF p

(* Between calls exactly what the handles of the caller lead to is taken:  *)
(* every call that breaks off has released what it took.                   *)
THEOREM NoLeaks ==
    ASSUME CallerStaysInside
    PROVE  Spec => []NothingLeaks
<1>1. IInv => NothingLeaks
  <2> SUFFICES ASSUME IInv, pc = "idle" PROVE Taken(heap) = Reachable
      BY DEF NothingLeaks
  <2>1. Forest(heap, HandleRoots) /\ HandlesAreGood /\ heap \in [Blocks -> Block]
      BY IdleRoots, HandlesAreTaken DEF IInv
  <2>2. ASSUME NEW q \in Reachable PROVE q \in Taken(heap)
    <3>1. ASSUME NEW r \in RomSlots, roms[r] # NULL, q \in OfRom(roms[r])
          PROVE  q \in Taken(heap)
        BY <3>1, RomPartsAreTaken
    <3>2. ASSUME NEW l \in LayoutSlots, layouts[l].at # NULL, q \in OfLayout(layouts[l])
          PROVE  q \in Taken(heap)
      <4> DEFINE p == layouts[l].at
      <4>1. p \in Taken(heap) /\ heap[p].entries \in Taken(heap)
          BY <3>2, HandlesAreTaken
      <4>2. CASE q \in {p, heap[p].entries}
          BY <4>1, <4>2
      <4>3. CASE q \notin {p, heap[p].entries}
        <5>1. layouts[l].of # Gone /\ q \in OfRom(heap[heap[p].entries].rom)
            BY <3>2, <4>3 DEF OfLayout
        <5>2. layouts[l].of \in RomSlots
            BY <2>1, <3>2, <5>1 DEF HandlesAreGood
        <5>3. /\ roms[layouts[l].of] # NULL
              /\ heap[heap[p].entries].rom = roms[layouts[l].of]
            BY <2>1, <5>2 DEF HandlesAreGood
        <5>4. QED
            BY <3>1, <5>1, <5>2, <5>3
      <4>4. QED
          BY <4>2, <4>3
    <3>3. QED
        BY <2>2, <3>1, <3>2 DEF Reachable
  <2>3. ASSUME NEW r \in RomSlots, roms[r] # NULL PROVE OfRom(roms[r]) \subseteq Reachable
      BY <2>3 DEF Reachable
  <2>4. ASSUME NEW l \in LayoutSlots, layouts[l].at # NULL
        PROVE  {layouts[l].at, heap[layouts[l].at].entries} \subseteq Reachable
    <3>1. OfLayout(layouts[l]) \subseteq Reachable
        BY <2>4 DEF Reachable
    <3>2. {layouts[l].at, heap[layouts[l].at].entries} \subseteq OfLayout(layouts[l])
        BY DEF OfLayout
    <3>3. QED
        BY <3>1, <3>2
  <2>5. ASSUME NEW q \in HandleRoots
        PROVE  /\ q \in Reachable /\ Owned(heap[q]) \subseteq Reachable
               /\ heap[q].what = "rom" => Owned(heap[heap[q].io]) \subseteq Reachable
    <3>1. q \in Blocks /\ heap[q] \in Block
        BY HandlesAreTaken
    <3>2. ASSUME NEW r \in RomSlots, roms[r] = q PROVE heap[q].what = "rom"
        BY <2>1, <2>5, <3>2 DEF HandlesAreGood, HandleRoots
    <3>3. ASSUME NEW l \in LayoutSlots, layouts[l].at = q PROVE heap[q].what = "layout"
        BY <2>1, <2>5, <3>3 DEF HandlesAreGood, HandleRoots
    <3>4. CASE heap[q].what = "rom"
      <4>1. PICK r \in RomSlots : roms[r] = q /\ roms[r] # NULL
          BY <3>3, <3>4 DEF HandleRoots
      <4>2. OfRom(q) = {q} \cup Owned(heap[q]) \cup Owned(heap[heap[q].io])
          BY <3>1, <3>4, OfRomIsOwned
      <4>3. OfRom(q) \subseteq Reachable
          BY <2>3, <4>1
      <4>4. QED
          BY <4>2, <4>3
    <3>5. CASE heap[q].what # "rom"
      <4>1. PICK l \in LayoutSlots : layouts[l].at = q /\ layouts[l].at # NULL
          BY <3>2, <3>5 DEF HandleRoots
      <4>2. Owned(heap[q]) = {heap[q].entries}
          BY <3>1, <3>3, <4>1, LayoutFields
      <4>3. QED
          BY <2>4, <3>5, <4>1, <4>2
    <3>6. QED
        BY <3>4, <3>5
  <2>6. ASSUME NEW q \in Taken(heap) PROVE q \in Reachable
    <3>1. CASE q \in HandleRoots
        BY <2>5, <3>1
    <3>2. CASE q \notin HandleRoots
      <4>1. PICK p \in Blocks : q \in Owned(heap[p])
          BY <2>1, <2>6, <3>2 DEF Forest
      <4>2. CASE p \in HandleRoots
          BY <2>5, <4>1, <4>2
      <4>3. CASE p \notin HandleRoots
        <5>1. p \in Taken(heap)
            BY <4>1 DEF Taken, Owned, Free
        <5>2. PICK o \in Blocks : p \in Owned(heap[o])
            BY <2>1, <4>3, <5>1 DEF Forest
        <5>3. /\ heap[o].what = "rom" /\ p = heap[o].io
          <6>1. Fits(heap, heap[o])
              BY <2>1 DEF Forest
          <6>2. heap[p].what \in {"io", "rom", "layout"}
              BY <4>1 DEF Owned
          <6>3. QED
              BY <5>2, <6>1, <6>2 DEF Fits, Owned, Stream
        <5>4. CASE o \in HandleRoots
            BY <2>5, <4>1, <5>3, <5>4
        <5>5. CASE o \notin HandleRoots
          <6>1. o \in Taken(heap)
              BY <5>2 DEF Taken, Owned, Free
          <6>2. PICK x \in Blocks : o \in Owned(heap[x])
              BY <2>1, <5>5, <6>1 DEF Forest
          <6>3. Fits(heap, heap[x])
              BY <2>1 DEF Forest
          <6>4. QED
              BY <5>3, <6>2, <6>3 DEF Fits, Owned, Stream
        <5>6. QED
            BY <5>4, <5>5
      <4>4. QED
          BY <4>2, <4>3
    <3>3. QED
        BY <3>1, <3>2
  <2>7. QED
      BY <2>2, <2>6
<1>2. QED
    BY <1>1, Ownership, PTL

-----------------------------------------------------------------------------
(* The handles the caller sees do what Handles promises.                   *)

OpenNow == [r \in RomSlots |-> IF roms[r] = NULL THEN 0 ELSE heap[roms[r]].count]
LayoutsNow ==
    [l \in LayoutSlots |->
        IF layouts[l].at = NULL THEN [of |-> "none", count |-> 0]
        ELSE [of |-> layouts[l].of, count |-> heap[layouts[l].at].count]]

LEMMA NowStays ==
    ASSUME StaysPut
    PROVE  OpenNow' = OpenNow /\ LayoutsNow' = LayoutsNow
<1>1. roms' = roms /\ layouts' = layouts
    BY DEF StaysPut, held
<1>2. \A r \in RomSlots : roms[r] # NULL => heap'[roms[r]] = heap[roms[r]]
    BY DEF StaysPut, HandleRoots
<1>3. \A l \in LayoutSlots : layouts[l].at # NULL => heap'[layouts[l].at] = heap[layouts[l].at]
    BY DEF StaysPut, HandleRoots
<1>4. OpenNow' = OpenNow
    BY <1>1, <1>2 DEF OpenNow
<1>5. LayoutsNow' = LayoutsNow
    BY <1>1, <1>3 DEF LayoutsNow
<1>6. QED
    BY <1>4, <1>5

LEMMA HandlesNow ==
    ASSUME IInv
    PROVE  /\ \A r \in RomSlots : roms[r] = NULL => OpenNow[r] = 0
           /\ \A r \in RomSlots : roms[r] # NULL =>
                 OpenNow[r] = heap[roms[r]].count /\ OpenNow[r] \in Nat \ {0}
           /\ \A l \in LayoutSlots : layouts[l] = Nowhere => LayoutsNow[l] = Promise!NoLayout
           /\ \A l \in LayoutSlots : layouts[l].at # NULL =>
                 /\ LayoutsNow[l] = [of |-> layouts[l].of, count |-> heap[layouts[l].at].count]
                 /\ LayoutsNow[l] # Promise!NoLayout
                 /\ heap[layouts[l].at].count \in Nat
<1>1. HandlesAreGood
    BY DEF IInv
<1>2. \A r \in RomSlots : roms[r] # NULL => heap[roms[r]].count \in Nat \ {0}
    BY <1>1, SessionAssumption DEF HandlesAreGood
<1>3. ASSUME NEW l \in LayoutSlots, layouts[l].at # NULL
      PROVE  /\ LayoutsNow[l] = [of |-> layouts[l].of, count |-> heap[layouts[l].at].count]
             /\ LayoutsNow[l] # Promise!NoLayout
             /\ heap[layouts[l].at].count \in Nat
  <2>1. heap[layouts[l].at] \in Block /\ heap[layouts[l].at].what = "layout"
      BY <1>1, <1>3, HandlesAreTaken DEF HandlesAreGood
  <2>2. heap[layouts[l].at].count \in Nat
      BY <2>1, LayoutFields, SessionAssumption
  <2>3. layouts[l].of # "none"
      BY <1>1, <1>3 DEF HandlesAreGood
  <2>4. LayoutsNow[l] = [of |-> layouts[l].of, count |-> heap[layouts[l].at].count]
      BY <1>3 DEF LayoutsNow
  <2>5. QED
      BY <2>2, <2>3, <2>4 DEF Promise!NoLayout
<1>4. \A l \in LayoutSlots : layouts[l] = Nowhere => LayoutsNow[l] = Promise!NoLayout
    BY DEF LayoutsNow, Nowhere, Promise!NoLayout
<1>5. QED
    BY <1>2, <1>3, <1>4 DEF OpenNow

(* A call that fails is refused. *)
LEMMA Refuses ==
    ASSUME StaysPut, NEW c, \E e \in Errors : said' = [call |-> c, error |-> e]
    PROVE  Promise!Refuse(c)
<1>1. OpenNow' = OpenNow /\ LayoutsNow' = LayoutsNow
    BY NowStays
<1>2. QED
    BY <1>1 DEF Promise!Refuse, Promise!Says, OpenNow, LayoutsNow

LEMMA Stutters ==
    ASSUME StaysPut, said' = said
    PROVE  UNCHANGED Promise!vars
<1>1. OpenNow' = OpenNow /\ LayoutsNow' = LayoutsNow
    BY NowStays
<1>2. QED
    BY <1>1 DEF Promise!vars, OpenNow, LayoutsNow

LEMMA OpeningRefines ==
    ASSUME IInv, StaysPut, NEW r \in RomSlots, roms[r] = NULL,
           \/ said' = said
           \/ \E e \in Errors : said' = [call |-> <<"open", r>>, error |-> e]
    PROVE  [Promise!Next]_(Promise!vars)
<1>1. CASE said' = said
    BY <1>1, Stutters
<1>2. CASE \E e \in Errors : said' = [call |-> <<"open", r>>, error |-> e]
  <2>1. Promise!Refuse(<<"open", r>>) /\ OpenNow[r] = 0
      BY <1>2, Refuses, HandlesNow
  <2>2. Promise!Open(r)
      BY <2>1 DEF Promise!Open, Promise!NotOpen, OpenNow
  <2>3. QED
      BY <2>2 DEF Promise!Next
<1>3. QED
    BY <1>1, <1>2

LEMMA BuildingRefines ==
    ASSUME IInv, StaysPut, NEW r \in RomSlots, NEW l \in LayoutSlots,
           roms[r] # NULL, layouts[l] = Nowhere,
           \/ said' = said
           \/ \E e \in Errors : said' = [call |-> <<"layout", r, l>>, error |-> e]
    PROVE  [Promise!Next]_(Promise!vars)
<1>1. CASE said' = said
    BY <1>1, Stutters
<1>2. CASE \E e \in Errors : said' = [call |-> <<"layout", r, l>>, error |-> e]
  <2>1. /\ Promise!Refuse(<<"layout", r, l>>)
        /\ OpenNow[r] # 0 /\ LayoutsNow[l] = Promise!NoLayout
      BY <1>2, Refuses, HandlesNow
  <2>2. Promise!Build(r, l)
      BY <2>1 DEF Promise!Build, Promise!NotOpen, OpenNow, LayoutsNow
  <2>3. QED
      BY <2>2 DEF Promise!Next
<1>3. QED
    BY <1>1, <1>2

LEMMA WritingRefines ==
    ASSUME IInv, StaysPut, NEW l \in LayoutSlots,
           layouts[l].at # NULL, layouts[l].of \in RomSlots,
           \/ said' = said
           \/ \E e \in Errors \cup {"OK"} : said' = [call |-> <<"write", l>>, error |-> e]
    PROVE  [Promise!Next]_(Promise!vars)
<1>1. CASE said' = said
    BY <1>1, Stutters
<1>2. /\ LayoutsNow[l].of \in RomSlots
      /\ OpenNow[LayoutsNow[l].of] # 0
  <2>1. roms[layouts[l].of] # NULL
      BY DEF IInv, HandlesAreGood
  <2>2. LayoutsNow[l].of = layouts[l].of
    <3>1. LayoutsNow[l] = [of |-> layouts[l].of, count |-> heap[layouts[l].at].count]
        BY HandlesNow
    <3>2. QED
        BY <3>1
  <2>3. QED
      BY <2>1, <2>2, HandlesNow
<1>3. CASE \E e \in Errors : said' = [call |-> <<"write", l>>, error |-> e]
  <2>1. Promise!Refuse(<<"write", l>>)
      BY <1>3, Refuses
  <2>2. Promise!Write(l)
      BY <1>2, <2>1 DEF Promise!Write, Promise!NotOpen, OpenNow, LayoutsNow
  <2>3. QED
      BY <2>2 DEF Promise!Next
<1>4. CASE said' = [call |-> <<"write", l>>, error |-> "OK"]
  <2>1. OpenNow' = OpenNow /\ LayoutsNow' = LayoutsNow
      BY NowStays
  <2>2. Promise!Write(l)
      BY <1>2, <1>4, <2>1
         DEF Promise!Write, Promise!Says, Promise!NotOpen, OpenNow, LayoutsNow
  <2>3. QED
      BY <2>2 DEF Promise!Next
<1>5. QED
    BY <1>1, <1>3, <1>4

LEMMA DetectCicRefines ==
    ASSUME IInv, DetectCic
    PROVE  [Promise!Next]_(Promise!vars)
<1> DEFINE p == local.rom
           n == heap[p].count
<1>0. PICK r \in RomSlots : r = local.slot
    BY DEF DetectCic, IInv, CallIsGood, OpensRom
<1>1. local.call = <<"open", r>> /\ roms[r] = NULL
    BY <1>0 DEF DetectCic, IInv, CallIsGood, OpensRom
<1>2. CASE StaysPut /\ \E e \in Errors : said' = [call |-> local.call, error |-> e]
    BY <1>1, <1>2, OpeningRefines
<1>3. CASE /\ heap' = heap /\ layouts' = layouts
           /\ roms' = [roms EXCEPT ![r] = p]
           /\ p \in Blocks /\ n \in Counts
           /\ said' = [call |-> <<"open", r>>, error |-> "OK"]
  <2>1. p # NULL /\ roms \in [RomSlots -> Address]
      BY <1>3, SessionAssumption DEF IInv, HandlesAreGood
  <2> HIDE DEF p, n
  <2>2. roms'[r] = p /\ \A s \in RomSlots \ {r} : roms'[s] = roms[s]
      BY <1>1, <1>3, <2>1
  <2>3. OpenNow' = [OpenNow EXCEPT ![r] = n]
      BY <1>1, <1>3, <2>1, <2>2 DEF OpenNow, n
  <2>4. LayoutsNow' = LayoutsNow
      BY <1>3 DEF LayoutsNow
  <2>5. OpenNow[r] = 0
      BY <1>1, HandlesNow
  <2>6. Promise!Open(r)
      BY <1>3, <2>3, <2>4, <2>5
         DEF Promise!Open, Promise!Says, Promise!NotOpen, OpenNow, LayoutsNow
  <2>7. QED
      BY <1>1, <2>6 DEF Promise!Next
<1>4. QED
    BY <1>0, <1>2, <1>3, DetectCicKeeps

LEMMA CloseRomRefines ==
    ASSUME IInv, NEW r \in RomSlots, CloseRom(r)
    PROVE  [Promise!Next]_(Promise!vars)
<1>1. /\ roms[r] # NULL
      /\ roms' = [roms EXCEPT ![r] = NULL]
      /\ layouts' = [l \in LayoutSlots |->
                       IF layouts[l].of = r THEN [layouts[l] EXCEPT !.of = Gone]
                       ELSE layouts[l]]
      /\ said' = [call |-> <<"close", r>>, error |-> "OK"]
    BY DEF CloseRom, Return
<1>2. HandlesAreGood
    BY DEF IInv
<1>3. \A q \in HandleRoots \ {roms[r]} : heap'[q] = heap[q]
    BY CloseRomKeeps
<1>4. \A s \in RomSlots \ {r} : roms'[s] = roms[s]
                                /\ (roms[s] # NULL => heap'[roms[s]] = heap[roms[s]])
  <2>1. \A s \in RomSlots \ {r} : roms[s] # NULL => roms[s] \in HandleRoots \ {roms[r]}
      BY <1>1, <1>2 DEF HandlesAreGood, HandleRoots
  <2>2. QED
      BY <1>1, <1>2, <1>3, <2>1 DEF HandlesAreGood
<1>5. roms'[r] = NULL
    BY <1>1, <1>2 DEF HandlesAreGood
<1>6. OpenNow' = [OpenNow EXCEPT ![r] = 0]
    BY <1>4, <1>5 DEF OpenNow
<1>7. ASSUME NEW l \in LayoutSlots
      PROVE  LayoutsNow'[l] = IF LayoutsNow[l].of = r THEN [LayoutsNow[l] EXCEPT !.of = Gone]
                              ELSE LayoutsNow[l]
  <2> DEFINE y == layouts[l]
  <2>1. y \in [at : Address, of : RomSlots \cup {"none", Gone}]
      BY <1>2 DEF HandlesAreGood
  <2>2. layouts'[l] = IF y.of = r THEN [y EXCEPT !.of = Gone] ELSE y
      BY <1>1
  <2>3. CASE y.at = NULL
    <3>1. y.of # r
        BY <1>2, <2>3, SessionAssumption DEF HandlesAreGood, Nowhere
    <3>2. LayoutsNow[l] = [of |-> "none", count |-> 0] /\ "none" # r
        BY <2>3, SessionAssumption DEF LayoutsNow, Nowhere
    <3>3. layouts'[l].at = NULL
        BY <2>2, <2>3, <3>1
    <3>4. LayoutsNow'[l] = [of |-> "none", count |-> 0]
        BY <3>3 DEF LayoutsNow
    <3>5. QED
        BY <3>2, <3>4
  <2>4. CASE y.at # NULL
    <3> DEFINE n == heap[y.at].count
    <3>1. heap'[y.at] = heap[y.at]
      <4>1. y.at \in HandleRoots \ {roms[r]}
          BY <1>1, <1>2, <2>4 DEF HandleRoots, HandlesAreGood
      <4>2. QED
          BY <1>3, <4>1
    <3>2. LayoutsNow[l] = [of |-> y.of, count |-> n]
        BY <2>4 DEF LayoutsNow
    <3>3. layouts'[l].at = y.at /\ layouts'[l].of = IF y.of = r THEN Gone ELSE y.of
        BY <2>1, <2>2
    <3>4. LayoutsNow'[l] = [of |-> layouts'[l].of, count |-> heap'[layouts'[l].at].count]
        BY <2>4, <3>3 DEF LayoutsNow
    <3>5. LayoutsNow'[l] = [of |-> IF y.of = r THEN Gone ELSE y.of, count |-> n]
        BY <3>1, <3>3, <3>4
    <3> HIDE DEF n, y
    <3>6. QED
        BY <3>2, <3>5
  <2>5. QED
      BY <2>3, <2>4
<1>8. LayoutsNow' = [l \in LayoutSlots |->
                       IF LayoutsNow[l].of = r THEN [LayoutsNow[l] EXCEPT !.of = Gone]
                       ELSE LayoutsNow[l]]
  <2>1. LayoutsNow' = [l \in LayoutSlots |-> LayoutsNow'[l]]
      BY DEF LayoutsNow
  <2>2. QED
      BY <1>7, <2>1
<1>9. OpenNow[r] # 0
    BY <1>1, HandlesNow
<1>10. Promise!Close(r)
  <2> HIDE DEF LayoutsNow, OpenNow
  <2>1. /\ OpenNow[r] # Promise!NotOpen /\ OpenNow' = [OpenNow EXCEPT ![r] = Promise!NotOpen]
        /\ Promise!Gone = Gone
      BY <1>6, <1>9 DEF Promise!NotOpen, Promise!Gone, Gone
  <2>2. QED
      BY <1>1, <1>8, <2>1 DEF Promise!Close, Promise!Says, OpenNow, LayoutsNow
<1>11. QED
    BY <1>10 DEF Promise!Next

LEMMA EntryRefines ==
    ASSUME IInv, NEW r \in RomSlots, NEW i \in Indexes, zelda64_dmadata_entry(r, i)
    PROVE  [Promise!Next]_(Promise!vars)
<1>1. roms[r] # NULL
    BY DEF zelda64_dmadata_entry
<1>2. /\ StaysPut
      /\ said' = [call |-> <<"entry", r, i>>,
                  error |-> IF i >= heap[roms[r]].count THEN "OUT_OF_RANGE" ELSE "OK"]
    BY EntryKeeps
<1>3. OpenNow' = OpenNow /\ LayoutsNow' = LayoutsNow
    BY <1>2, NowStays
<1>4. /\ OpenNow[r] = heap[roms[r]].count /\ OpenNow[r] \in Nat \ {0} /\ i \in Nat
    BY <1>1, HandlesNow, SessionAssumption
<1>5. said' = [call |-> <<"entry", r, i>>,
               error |-> IF i < OpenNow[r] THEN "OK" ELSE "OUT_OF_RANGE"]
    BY <1>2, <1>4
<1>6. Promise!Entry(r, i)
    BY <1>3, <1>4, <1>5
       DEF Promise!Entry, Promise!Reach, Promise!Says, Promise!NotOpen, OpenNow, LayoutsNow
<1>7. QED
    BY <1>6 DEF Promise!Next

LEMMA SetOperationRefines ==
    ASSUME IInv, CallerStaysInside, NEW l \in LayoutSlots, NEW i \in LayoutIndexes,
           zelda64_layout_set_operation(l, i)
    PROVE  [Promise!Next]_(Promise!vars)
<1> DEFINE n == heap[layouts[l].at].count
<1>1. /\ StaysPut /\ layouts[l].at # NULL
      /\ said' = [call |-> <<"set", l, i>>, error |-> IF i < n THEN "OK" ELSE "OUT_OF_RANGE"]
    BY SetOperationKeeps
<1>2. OpenNow' = OpenNow /\ LayoutsNow' = LayoutsNow
    BY <1>1, NowStays
<1>3. LayoutsNow[l] = [of |-> layouts[l].of, count |-> n] /\ LayoutsNow[l] # Promise!NoLayout
    BY <1>1, HandlesNow
<1>4. LayoutsNow[l].count = n
    BY <1>3
<1> HIDE DEF n
<1>5. Promise!SetOperation(l, i)
    BY <1>1, <1>2, <1>3, <1>4
       DEF Promise!SetOperation, Promise!Reach, Promise!Says, OpenNow, LayoutsNow
<1>6. QED
    BY <1>5 DEF Promise!Next

LEMMA AllocLayoutRefines ==
    ASSUME IInv, AllocLayout
    PROVE  [Promise!Next]_(Promise!vars)
<1>0. PICK r \in RomSlots, k \in LayoutSlots : r = local.of /\ k = local.slot
    BY AllocLayoutKeeps DEF MakesLayout
<1> DEFINE n == heap[roms[r]].count
<1>1. local.call = <<"layout", r, k>> /\ roms[r] # NULL /\ layouts[k] = Nowhere
    BY <1>0, AllocLayoutKeeps DEF MakesLayout
<1>2. CASE StaysPut /\ \E e \in Errors : said' = [call |-> local.call, error |-> e]
    BY <1>1, <1>2, BuildingRefines
<1>3. ASSUME NEW p \in Blocks,
             roms' = roms, layouts' = [layouts EXCEPT ![k] = [at |-> p, of |-> r]],
             \A q \in HandleRoots : heap'[q] = heap[q], heap'[p].count = n,
             said' = [call |-> local.call, error |-> "OK"]
      PROVE  Promise!Build(r, k)
  <2>1. \A s \in RomSlots : roms[s] # NULL => heap'[roms[s]] = heap[roms[s]]
      BY <1>3 DEF HandleRoots
  <2>2. OpenNow' = OpenNow
      BY <1>3, <2>1 DEF OpenNow
  <2>3. OpenNow[r] = n /\ OpenNow[r] # 0 /\ LayoutsNow[k] = Promise!NoLayout
      BY <1>1, HandlesNow
  <2> HIDE DEF n
  <2>4. /\ layouts'[k] = [at |-> p, of |-> r]
        /\ \A l \in LayoutSlots \ {k} : layouts'[l] = layouts[l]
      BY <1>1, <1>3 DEF IInv, HandlesAreGood
  <2>5. \A l \in LayoutSlots : layouts[l].at # NULL =>
           heap'[layouts[l].at] = heap[layouts[l].at]
      BY <1>3 DEF HandleRoots
  <2>6. LayoutsNow'[k] = [of |-> r, count |-> n]
    <3>1. layouts'[k].at = p /\ layouts'[k].of = r /\ p # NULL
        BY <2>4, SessionAssumption
    <3>2. LayoutsNow'[k] = [of |-> layouts'[k].of, count |-> heap'[layouts'[k].at].count]
        BY <1>1, <3>1 DEF LayoutsNow
    <3>3. QED
        BY <1>3, <3>1, <3>2
  <2>7. \A l \in LayoutSlots \ {k} : LayoutsNow'[l] = LayoutsNow[l]
      BY <2>4, <2>5 DEF LayoutsNow
  <2>8. LayoutsNow' = [LayoutsNow EXCEPT ![k] = [of |-> r, count |-> OpenNow[r]]]
    <3>1. /\ LayoutsNow' = [l \in LayoutSlots |-> LayoutsNow'[l]]
          /\ LayoutsNow = [l \in LayoutSlots |-> LayoutsNow[l]]
        BY DEF LayoutsNow
    <3>2. QED
        BY <1>1, <2>3, <2>6, <2>7, <3>1
  <2>9. QED
      BY <1>1, <1>3, <2>2, <2>3, <2>8
         DEF Promise!Build, Promise!Says, Promise!NotOpen, OpenNow, LayoutsNow
<1>4. CASE Promise!Build(r, k)
    BY <1>1, <1>4 DEF Promise!Next
<1>5. \/ StaysPut /\ \E e \in Errors : said' = [call |-> local.call, error |-> e]
      \/ Promise!Build(r, k)
    BY <1>0, <1>3, AllocLayoutKeeps
<1>6. QED
    BY <1>2, <1>4, <1>5

LEMMA FreeLayoutRefines ==
    ASSUME IInv, NEW l \in LayoutSlots, zelda64_free_layout(l)
    PROVE  [Promise!Next]_(Promise!vars)
<1> DEFINE p == layouts[l].at
<1>1. /\ roms' = roms /\ layouts' = [layouts EXCEPT ![l] = Nowhere] /\ p # NULL
      /\ \A q \in HandleRoots \ {p} : heap'[q] = heap[q]
      /\ said' = [call |-> <<"free", l>>, error |-> "OK"]
    BY FreeLayoutKeeps
<1>2. HandlesAreGood
    BY DEF IInv
<1>3. \A r \in RomSlots : roms[r] # NULL => heap'[roms[r]] = heap[roms[r]]
  <2>1. \A r \in RomSlots : roms[r] # NULL => roms[r] \in HandleRoots \ {p}
      BY <1>1, <1>2 DEF HandleRoots, HandlesAreGood
  <2>2. QED
      BY <1>1, <2>1
<1>4. OpenNow' = OpenNow
    BY <1>1, <1>3 DEF OpenNow
<1>5. /\ layouts'[l] = Nowhere
      /\ \A k \in LayoutSlots \ {l} : layouts'[k] = layouts[k]
    BY <1>1, <1>2 DEF HandlesAreGood
<1>6. \A k \in LayoutSlots \ {l} : layouts[k].at # NULL =>
         heap'[layouts[k].at] = heap[layouts[k].at]
  <2>1. \A k \in LayoutSlots \ {l} : layouts[k].at # NULL => layouts[k].at \in HandleRoots \ {p}
      BY <1>1, <1>2 DEF HandleRoots, HandlesAreGood
  <2>2. QED
      BY <1>1, <2>1
<1>7. LayoutsNow'[l] = Promise!NoLayout
    BY <1>5 DEF LayoutsNow, Nowhere, Promise!NoLayout
<1>8. \A k \in LayoutSlots \ {l} : LayoutsNow'[k] = LayoutsNow[k]
    BY <1>5, <1>6 DEF LayoutsNow
<1>9. LayoutsNow' = [LayoutsNow EXCEPT ![l] = Promise!NoLayout]
  <2>1. /\ LayoutsNow' = [k \in LayoutSlots |-> LayoutsNow'[k]]
        /\ LayoutsNow = [k \in LayoutSlots |-> LayoutsNow[k]]
      BY DEF LayoutsNow
  <2>2. QED
      BY <1>7, <1>8, <2>1
<1>10. LayoutsNow[l] # Promise!NoLayout
    BY <1>1, HandlesNow
<1>11. Promise!FreeLayout(l)
    BY <1>1, <1>4, <1>9, <1>10 DEF Promise!FreeLayout, Promise!Says, OpenNow, LayoutsNow
<1>12. QED
    BY <1>11 DEF Promise!Next

LEMMA InitRefines == Init => Promise!Init
BY DEF Init, Promise!Init, Promise!NotOpen, Promise!NoLayout, Nowhere

LEMMA StepRefines == IInv /\ CallerStaysInside /\ [Next]_vars => [Promise!Next]_(Promise!vars)
<1> SUFFICES ASSUME IInv, CallerStaysInside, [Next]_vars
             PROVE  [Promise!Next]_(Promise!vars)
    OBVIOUS
<1>1. ASSUME NEW r \in RomSlots, NEW a \in Allocators, NEW kind \in {"file", "buffer"},
             zelda64_open(r, a, kind)
      PROVE  [Promise!Next]_(Promise!vars)
  <2>1. roms[r] = NULL
      BY <1>1 DEF zelda64_open
  <2>2. QED
      BY <1>1, <2>1, OpenKeeps, OpeningRefines
<1>2. ASSUME NEW r \in RomSlots, CloseRom(r) PROVE [Promise!Next]_(Promise!vars)
    BY <1>2, CloseRomRefines
<1>3. ASSUME NEW r \in RomSlots, NEW i \in Indexes, zelda64_dmadata_entry(r, i)
      PROVE  [Promise!Next]_(Promise!vars)
    BY <1>3, EntryRefines
<1>4. ASSUME OpenRom \/ ReadDmadata
      PROVE  [Promise!Next]_(Promise!vars)
  <2>1. /\ local.call = <<"open", local.slot>>
        /\ local.slot \in RomSlots /\ roms[local.slot] = NULL
    <3>1. OpensRom
        BY <1>4 DEF OpenRom, ReadDmadata, IInv, CallIsGood
    <3>2. QED
        BY <3>1 DEF OpensRom
  <2>2. StaysPut /\ (said' = said \/ \E e \in Errors : said' = [call |-> local.call, error |-> e])
      BY <1>4, OpenRomKeeps, ReadDmadataKeeps
  <2>3. QED
      BY <2>1, <2>2, OpeningRefines
<1>5. CASE DetectCic
    BY <1>5, DetectCicRefines
<1>6. ASSUME NEW l \in LayoutSlots, NEW r \in RomSlots, NEW a \in Allocators, AllocEntries(r, l, a)
      PROVE  [Promise!Next]_(Promise!vars)
    BY <1>6, AllocEntriesKeeps, BuildingRefines
<1>7. ASSUME NEW l \in LayoutSlots, zelda64_free_layout(l) PROVE [Promise!Next]_(Promise!vars)
    BY <1>7, FreeLayoutRefines
<1>8. ASSUME NEW l \in LayoutSlots, NEW i \in LayoutIndexes, zelda64_layout_set_operation(l, i)
      PROVE  [Promise!Next]_(Promise!vars)
    BY <1>8, SetOperationRefines
<1>9. ASSUME NEW l \in LayoutSlots, NEW kind \in {"file", "buffer"}, OpenOutput(l, kind)
      PROVE  [Promise!Next]_(Promise!vars)
    BY <1>9, OpenOutputKeeps, WritingRefines
<1>10. CASE AllocLayout
    BY <1>10, AllocLayoutRefines
<1>11. ASSUME AllocTable \/ WriteRom
       PROVE  [Promise!Next]_(Promise!vars)
  <2>1. /\ StaysPut /\ WritesLayout
        /\ \/ said' = said
           \/ \E e \in Errors \cup {"OK"} : said' = [call |-> local.call, error |-> e]
      BY <1>11, AllocTableKeeps, WriteRomKeeps
  <2>2. PICK l \in LayoutSlots :
           /\ local.call = <<"write", l>>
           /\ local.layout = layouts[l].at /\ local.layout # NULL
           /\ layouts[l].of \in RomSlots
      BY <2>1 DEF WritesLayout
  <2>3. QED
      BY <2>1, <2>2, WritingRefines
<1>12. CASE UNCHANGED vars
  <2>1. heap' = heap /\ roms' = roms /\ layouts' = layouts /\ said' = said
      BY <1>12 DEF vars
  <2>2. StaysPut
      BY <2>1 DEF StaysPut, held
  <2>3. QED
      BY <2>1, <2>2, Stutters
<1>13. QED
    BY <1>1, <1>2, <1>3, <1>4, <1>5, <1>6, <1>7, <1>8, <1>9, <1>10, <1>11, <1>12
       DEF Next, Roms, Layouts

(* The caller sees what Handles promises: a call gives a handle and no     *)
(* error, or changes nothing and says why; a layout keeps the number of    *)
(* entries of the ROM it was made from, also after that is closed.         *)
THEOREM HandlesArePromised ==
    ASSUME CallerStaysInside
    PROVE  Spec => ImplementsHandles
<1>1. Init => Promise!Init
    BY InitRefines
<1>2. IInv /\ [Next]_vars => [Promise!Next]_(Promise!vars)
    BY StepRefines
<1>3. QED
    BY <1>1, <1>2, Ownership, PTL DEF Spec, ImplementsHandles, Promise!Spec
=============================================================================
