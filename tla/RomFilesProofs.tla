--------------------------- MODULE RomFilesProofs ---------------------------
(***************************************************************************)
(* What the helpers of RomFiles and Words return, for every ROM, every     *)
(* word width and every alignment: what a stat that succeeds says of the   *)
(* ROM, what a read of a file's storage returns of it, and what rounding   *)
(* up to the alignment gives.  The proofs of the reader and of the writer  *)
(* rest on these.                                                          *)
(*                                                                         *)
(* Last comes why a measure that every step makes less is enough for a     *)
(* loop to end.                                                            *)
(***************************************************************************)
EXTENDS RomFiles, Descent, FiniteSetTheorems, TLAPS

(* Any function over 1..n is a sequence. *)
LEMMA FunctionIsSeq ==
    ASSUME NEW n \in Nat, NEW f, f = [k \in 1..n |-> f[k]]
    PROVE  f \in Seq({f[k] : k \in 1..n}) /\ Len(f) = n
<1> DEFINE S == {f[k] : k \in 1..n}
<1>1. \A k \in 1..n : f[k] \in S
    OBVIOUS
<1> HIDE DEF S
<1>2. f \in [1..n -> S]
    BY <1>1
<1>3. f \in Seq(S) /\ Len(f) = n
    BY <1>2
<1>4. QED
    BY <1>3 DEF S

LEMMA SubSeqIs ==
    ASSUME NEW S, NEW s \in Seq(S), NEW from \in Nat, NEW to \in Nat, to <= Len(s),
           NEW c, c = SubSeq(s, from + 1, to)
    PROVE  /\ c \in Seq(S)
           /\ Len(c) = IF from < to THEN to - from ELSE 0
           /\ \A k \in 1..Len(c) : c[k] = s[from + k]
<1>1. Len(s) \in Nat /\ DOMAIN s = 1..Len(s)
    OBVIOUS
<1>2. CASE from < to
  <2>1. from + 1 \in 1..(Len(s) + 1) /\ to \in from..Len(s)
    BY <1>1, <1>2
  <2>2. c \in Seq(S) /\ Len(c) = to - from
    BY <1>2, <2>1
  <2>3. \A k \in 1..(to - from) : c[k] = s[from + k]
    BY <1>2, <2>1
  <2>4. QED
    BY <1>2, <2>2, <2>3
<1>3. CASE ~(from < to)
  <2>1. c = <<>>
    BY <1>1, <1>3
  <2>2. QED
    BY <1>3, <2>1
<1>4. QED
    BY <1>2, <1>3

(* Every set of numbers that is not empty has a least one: the initial     *)
(* segments it gives are ordered by inclusion, and well-founded as finite  *)
(* sets are.                                                               *)
LEMMA LeastOf ==
    ASSUME NEW T \in SUBSET Nat, T # {}
    PROVE  \E m \in T : \A k \in T : m <= k
<1> DEFINE R == StrictSubsetOrdering(Nat)
           S == FiniteSubsetsOf(Nat)
           Q == {0..t : t \in T}
<1>1. IsWellFoundedOn(R, S)
    BY FS_StrictSubsetOrderingWellFounded, Zenon
<1>2. Q \subseteq S
  <2>1. ASSUME NEW t \in T
        PROVE  0..t \in S
    <3>1. IsFiniteSet(0..t) /\ 0..t \in SUBSET Nat
        BY FS_Interval
    <3>2. QED
        BY <3>1 DEF FiniteSubsetsOf
  <2>2. QED
    BY <2>1
<1>3. Q # {}
    OBVIOUS
<1>4. \E x \in Q : \A y \in Q : ~(<<y, x>> \in R)
  <2> HIDE DEF R, S, Q
  <2>1. QED
    BY <1>1, <1>2, <1>3, WFMin, Zenon
<1>5. PICK m \in T : \A k \in T : ~(<<0..k, 0..m>> \in R)
    BY <1>4
<1>6. ASSUME NEW k \in T
      PROVE  m <= k
  <2>1. k \in Nat /\ m \in Nat
    OBVIOUS
  <2>2. SUFFICES ASSUME k < m
                 PROVE  FALSE
    BY <2>1
  <2>3. 0..k \subseteq 0..m /\ 0..k # 0..m
    <3>1. 0..k \subseteq 0..m
        BY <2>1, <2>2
    <3>2. m \in 0..m /\ m \notin 0..k
        BY <2>1, <2>2
    <3>3. QED
        BY <3>1, <3>2
  <2>4. 0..k \in SUBSET Nat /\ 0..m \in SUBSET Nat
    OBVIOUS
  <2>5. <<0..k, 0..m>> \in R
    BY <2>3, <2>4, Zenon DEF StrictSubsetOrdering
  <2>6. QED
    BY <1>5, <2>5
<1>7. QED
    BY <1>6

(* Induction, over a set rather than a predicate. *)
LEMMA Induction ==
    ASSUME NEW G, 0 \in G, \A n \in Nat : n \in G => n + 1 \in G
    PROVE  Nat \subseteq G
<1> DEFINE T == {n \in Nat : n \notin G}
<1>1. SUFFICES ASSUME T # {}
               PROVE  FALSE
    OBVIOUS
<1>2. PICK m \in T : \A k \in T : m <= k
    BY <1>1, LeastOf
<1>3. m \in Nat /\ m \notin G /\ m # 0
    BY <1>2
<1>4. m - 1 \in Nat /\ m - 1 \notin T
    BY <1>2, <1>3
<1>5. (m - 1) + 1 \in G
    BY <1>4
<1>6. (m - 1) + 1 = m
    BY <1>3
<1>7. QED
    BY <1>3, <1>5, <1>6

-----------------------------------------------------------------------------
(* Rounding up. *)

LEMMA Division ==
    ASSUME NEW m \in Nat, NEW d \in Nat \ {0}
    PROVE  m % d \in 0..(d - 1) /\ m % d <= m /\ (m - (m % d)) % d = 0
<1>1. m % d \in 0..(d - 1) /\ m % d <= m
    OBVIOUS
<1>2. PICK q \in Nat : m - (m % d) = d * q
    OBVIOUS
<1>3. (d * q) % d = 0
    OBVIOUS
<1>4. QED
    BY <1>1, <1>2, <1>3

LEMMA SmallRemainder ==
    ASSUME NEW m \in Nat, NEW d \in Nat \ {0}, m < d
    PROVE  m % d = m
OBVIOUS

(* zelda64_align16 is the least multiple of the alignment that is not      *)
(* below its argument; there is none for the last few words, and only for  *)
(* those is what it returns smaller than what it was given.                *)
THEOREM AlignRoundsUp ==
    ASSUME NEW n \in Word
    PROVE  /\ zelda64_align16(n) \in Word
           /\ zelda64_align16(n) % ALIGN = 0
           /\ IF n + ALIGN <= WORD
              THEN n <= zelda64_align16(n) /\ zelda64_align16(n) < n + ALIGN
              ELSE zelda64_align16(n) = 0
<1> DEFINE m == (n + ALIGN - 1) % WORD
<1>1. /\ WORD \in Nat \ {0} /\ ALIGN \in Nat \ {0} /\ ALIGN < WORD
      /\ n \in Nat /\ n < WORD
    BY WordsAssumption DEF WORD, Word
<1>2. m \in Nat /\ m < WORD
    BY <1>1, Division
<1>3. zelda64_align16(n) = m - (m % ALIGN)
    BY DEF zelda64_align16
<1>4. IF n + ALIGN <= WORD THEN m = n + ALIGN - 1 ELSE m = n + ALIGN - 1 - WORD
  <2>1. CASE n + ALIGN <= WORD
    BY <1>1, <2>1, SmallRemainder
  <2>2. CASE n + ALIGN > WORD
    BY <1>1, <2>2
  <2>3. QED
    BY <1>1, <2>1, <2>2
<1> HIDE DEF m
<1>5. m % ALIGN \in 0..(ALIGN - 1) /\ (m - (m % ALIGN)) % ALIGN = 0 /\ m % ALIGN <= m
    BY <1>1, <1>2, Division
<1>6. m - (m % ALIGN) \in Word
  <2>1. m - (m % ALIGN) \in Nat /\ m - (m % ALIGN) <= m
    BY <1>1, <1>2, <1>5
  <2>2. QED
    BY <1>1, <1>2, <2>1, WordsAssumption DEF Word, WORD
<1>7. CASE n + ALIGN <= WORD
    BY <1>1, <1>3, <1>4, <1>5, <1>6, <1>7
<1>8. CASE n + ALIGN > WORD
  <2>1. m % ALIGN = m
    BY <1>1, <1>2, <1>4, <1>8, SmallRemainder
  <2>2. QED
    BY <1>1, <1>2, <1>3, <1>5, <1>6, <1>8, <2>1
<1>9. QED
    BY <1>1, <1>7, <1>8

(* The least number of all ones that is not below m. *)
LEMMA SmearIs ==
    ASSUME NEW m \in Word
    PROVE  /\ Smear(m) \in AllOnes /\ Smear(m) >= m
           /\ \A o \in AllOnes : o >= m => Smear(m) <= o
<1> DEFINE T == {o \in AllOnes : o >= m}
<1>1. AllOnes \subseteq Nat /\ m <= UINT32_MAX /\ UINT32_MAX \in AllOnes
    BY WordsAssumption DEF AllOnes, Word
<1>2. PICK least \in T : \A k \in T : least <= k
  <2>1. T \in SUBSET Nat /\ UINT32_MAX \in T
    BY <1>1, WordsAssumption DEF Word
  <2> HIDE DEF T
  <2>2. QED
    BY <2>1, LeastOf
<1>3. \E ones \in AllOnes : ones >= m /\ \A o \in AllOnes : o >= m => ones <= o
    BY <1>2
<1>4. QED
    BY <1>3, Zenon DEF Smear

(* zelda64_ceil_pow2 is the least power of two that is not below its       *)
(* argument; there is none for 0, and for what lies above the largest      *)
(* power of two a word can hold, and it is 0 for those.                    *)
THEOREM CeilRoundsUp ==
    ASSUME NEW n \in Word
    PROVE  /\ zelda64_ceil_pow2(n) \in Word
           /\ IF n # 0 /\ \E p \in Word : n <= p /\ IsPow2(p)
              THEN /\ n <= zelda64_ceil_pow2(n)
                   /\ IsPow2(zelda64_ceil_pow2(n))
                   /\ \A p \in Word : n <= p /\ IsPow2(p) => zelda64_ceil_pow2(n) <= p
              ELSE zelda64_ceil_pow2(n) = 0
<1> DEFINE m == (n - 1 + WORD) % WORD
           ones == Smear(m)
           ceil == zelda64_ceil_pow2(n)
<1>1. WORD = UINT32_MAX + 1 /\ UINT32_MAX \in Nat /\ Word = 0..UINT32_MAX /\ WORD \in Nat \ {0}
    BY WordsAssumption DEF WORD, Word
<1>2. m = IF n = 0 THEN UINT32_MAX ELSE n - 1
  <2>1. CASE n = 0
    BY <1>1, <2>1, SmallRemainder
  <2>2. CASE n # 0
    BY <1>1, <2>2
  <2>3. QED
    BY <2>1, <2>2
<1>3. m \in Word
    BY <1>1, <1>2
<1>4. ceil = (ones + 1) % WORD
    BY DEF zelda64_ceil_pow2
<1> HIDE DEF m, ceil
<1>5. ones \in AllOnes /\ ones >= m /\ \A o \in AllOnes : o >= m => ones <= o
    BY <1>3, SmearIs
<1> HIDE DEF ones
<1>6. ones \in Word /\ IsPow2(ones + 1)
    BY <1>5 DEF AllOnes
<1>7. ceil = IF ones = UINT32_MAX THEN 0 ELSE ones + 1
  <2>1. CASE ones = UINT32_MAX
    BY <1>1, <1>4, <2>1
  <2>2. CASE ones # UINT32_MAX
    BY <1>1, <1>4, <1>6, <2>2, SmallRemainder
  <2>3. QED
    BY <2>1, <2>2
<1>8. ceil \in Word
    BY <1>1, <1>6, <1>7
<1>9. ASSUME n # 0, NEW p \in Word, n <= p, IsPow2(p)
      PROVE  ceil = ones + 1 /\ ones + 1 <= p
  <2>1. p - 1 \in Word /\ (p - 1) + 1 = p
    BY <1>1, <1>9
  <2>2. p - 1 \in AllOnes
    BY <1>9, <2>1 DEF AllOnes
  <2>3. ones <= p - 1
    BY <1>1, <1>2, <1>5, <1>9, <2>1, <2>2
  <2>4. QED
    BY <1>1, <1>6, <1>7, <1>9, <2>3
<1>10. CASE n # 0 /\ \E p \in Word : n <= p /\ IsPow2(p)
  <2>1. ceil = ones + 1
    BY <1>9, <1>10
  <2>2. n <= ceil
    BY <1>1, <1>2, <1>5, <1>6, <1>10, <2>1
  <2>3. IsPow2(ceil)
    BY <1>6, <2>1
  <2>4. \A p \in Word : n <= p /\ IsPow2(p) => ceil <= p
    BY <1>9, <1>10, <2>1
  <2>5. QED
    BY <1>8, <1>10, <2>2, <2>3, <2>4 DEF ceil
<1>11. CASE ~(n # 0 /\ \E p \in Word : n <= p /\ IsPow2(p))
  <2>1. ones = UINT32_MAX
    <3>1. CASE n = 0
        BY <1>1, <1>2, <1>5, <1>6, <3>1
    <3>2. CASE n # 0
      <4>1. SUFFICES ASSUME ones # UINT32_MAX
                     PROVE  FALSE
          OBVIOUS
      <4>2. ones + 1 \in Word /\ n <= ones + 1
          BY <1>1, <1>2, <1>5, <1>6, <3>2, <4>1
      <4>3. QED
          BY <1>6, <1>11, <3>2, <4>2
    <3>3. QED
        BY <3>1, <3>2
  <2>2. QED
    BY <1>7, <1>8, <1>11, <2>1 DEF ceil
<1>12. QED
    BY <1>10, <1>11

-----------------------------------------------------------------------------
(* ROMs and their files. *)

LEMMA WordsAreNat == Word \subseteq Nat
BY WordsAssumption DEF Word

LEMMA CellsAreSeq ==
    ASSUME NEW r, IsRom(r)
    PROVE  /\ r.cells \in Seq({r.cells[k] : k \in 1..Len(r.cells)})
           /\ Len(r.cells) \in Nat
           /\ DOMAIN r.cells = 1..Len(r.cells)
<1> DEFINE S == {r.cells[k] : k \in DOMAIN r.cells}
<1>1. r.cells \in Seq(S)
    BY DEF IsRom
<1>2. DOMAIN r.cells = 1..Len(r.cells) /\ Len(r.cells) \in Nat
    BY <1>1
<1>3. QED
    BY <1>1, <1>2

LEMMA ContentIsSeq ==
    ASSUME NEW r, IsRom(r), NEW f \in Files(r), NEW form,
           NEW c, c = Content(r, f, form)
    PROVE  /\ c \in Seq({c[k] : k \in 1..Len(c)})
           /\ Len(c) = IF form = 0 THEN r.plain[f] ELSE r.packed[f]
           /\ Len(c) \in Word
<1> DEFINE n == IF form = 0 THEN r.plain[f] ELSE r.packed[f]
<1>1. n \in Word /\ n \in Nat
    BY WordsAreNat DEF IsRom
<1>2. c = [k \in 1..n |-> <<"file", f, form, k>>]
    BY DEF Content
<1> HIDE DEF n
<1>3. c = [k \in 1..n |-> c[k]]
    BY <1>2
<1>4. c \in Seq({c[k] : k \in 1..n}) /\ Len(c) = n
    BY <1>1, <1>3, FunctionIsSeq
<1>5. QED
    BY <1>1, <1>4 DEF n

(* A stat that succeeds: the storage has a place and a size, and a file    *)
(* that is stored as a stream has its header in the ROM.                   *)
LEMMA StatSays ==
    ASSUME NEW r, IsRom(r), NEW f \in Files(r), NEW st, st = zelda64_stat(r, f),
           st.result = "OK"
    PROVE  /\ st.offset \in Word /\ st.size \in Word /\ st.file_size \in Word
           /\ \/ /\ zelda64_dmadata_kind(r.dma[f]) = "STORED"
                 /\ st.file_size = st.size
              \/ /\ zelda64_dmadata_kind(r.dma[f]) = "COMPRESSED"
                 /\ st.size >= HEADER
                 /\ st.offset + HEADER <= Len(r.cells)
                 /\ IsYaz0Header(r.cells[st.offset + 1])
                 /\ r.cells[st.offset + 1][2] \in Files(r)
                 /\ r.cells[st.offset + 1][3] \in Nat \ {0}
                 /\ st.file_size = Len(Content(r, r.cells[st.offset + 1][2],
                                               r.cells[st.offset + 1][3] - 1))
<1> DEFINE e == r.dma[f]
           kind == zelda64_dmadata_kind(e)
           span == e.vrom_end - e.vrom_start
<1>1. {e.vrom_start, e.vrom_end, e.rom_start, e.rom_end} \subseteq Word
    BY DEF IsRom
<1>2. UINT32_MAX \in Nat /\ Word = 0..UINT32_MAX
    BY WordsAssumption DEF Word
<1>3. \A x : Failure(x).result = x
    BY DEF Failure
<1>4. kind # "DELETED" /\ span >= 0
    BY <1>1, <1>2, <1>3 DEF zelda64_stat
<1>5. CASE kind = "STORED"
  <2>1. st = [result |-> "OK", offset |-> e.rom_start, size |-> span, file_size |-> span]
    BY <1>1, <1>2, <1>4, <1>5 DEF zelda64_stat
  <2>2. span \in Word
    BY <1>1, <1>2, <1>4
  <2>3. QED
    BY <1>1, <1>5, <2>1, <2>2
<1>6. CASE kind = "COMPRESSED"
  <2>1. ~(e.rom_start > e.rom_end) /\ st = CompressedStat(r, e)
    BY <1>1, <1>2, <1>3, <1>4, <1>6 DEF zelda64_stat
  <2> DEFINE size == e.rom_end - e.rom_start
             header == r.cells[e.rom_start + 1]
             start == e.rom_start
             all == Len(r.cells)
  <2>2. /\ size >= HEADER
        /\ e.rom_start + HEADER <= Len(r.cells)
        /\ IsYaz0Header(header)
        /\ st = [result |-> "OK", offset |-> e.rom_start, size |-> size,
                 file_size |-> Len(Content(r, header[2], header[3] - 1))]
    <3>1. ~(size < HEADER) /\ ~(e.rom_start + HEADER > Len(r.cells)) /\ IsYaz0Header(header)
        BY <2>1, <1>3 DEF CompressedStat
    <3>2. st = [result |-> "OK", offset |-> e.rom_start, size |-> size,
                file_size |-> Len(Content(r, header[2], header[3] - 1))]
        BY <2>1, <3>1 DEF CompressedStat
    <3>3. all \in Nat /\ size \in Nat /\ start \in Nat
        BY <1>1, <1>2, <2>1, CellsAreSeq
    <3>4. ~(size < HEADER) => size >= HEADER
        BY <3>3 DEF HEADER
    <3>5. ~(start + HEADER > all) => start + HEADER <= all
      <4> HIDE DEF all, start
      <4>1. QED
        BY <3>3 DEF HEADER
    <3>6. QED
        BY <3>1, <3>2, <3>4, <3>5, Zenon
  <2>3. start + 1 \in DOMAIN r.cells
    <3>1. DOMAIN r.cells = 1..all /\ all \in Nat
        BY CellsAreSeq
    <3>2. start \in Nat
        BY <1>1, <1>2
    <3>3. start + HEADER <= all
        BY <2>2
    <3> HIDE DEF all, start
    <3>4. QED
        BY <3>1, <3>2, <3>3 DEF HEADER
  <2>4. header[2] \in Files(r) /\ header[3] \in Nat \ {0}
    <3>1. IsYaz0Header(header) => header[2] \in Files(r) /\ header[3] \in Nat
        BY <2>3, Zenon DEF IsRom
    <3> HIDE DEF header
    <3>2. QED
        BY <2>2, <3>1 DEF IsYaz0Header
  <2>5. Len(Content(r, header[2], header[3] - 1)) \in Word
    BY <2>4, ContentIsSeq
  <2>6. size \in Word
    BY <1>1, <1>2, <2>1
  <2> HIDE DEF size, header, start, all
  <2>7. /\ st.result = "OK" /\ st.offset = e.rom_start /\ st.size = size
        /\ st.file_size = Len(Content(r, header[2], header[3] - 1))
    BY <2>2
  <2>8. header = r.cells[st.offset + 1]
    BY <2>7 DEF header
  <2>9. QED
    BY <1>1, <1>6, <2>2, <2>4, <2>5, <2>6, <2>7, <2>8
<1>7. QED
    BY <1>4, <1>5, <1>6 DEF zelda64_dmadata_kind

LEMMA ReadExtent ==
    ASSUME NEW all \in Nat, NEW o \in Nat, NEW size \in Nat,
           NEW off \in Nat, NEW n \in Nat, off < size, NEW want, NEW to,
           want = IF size - off < n THEN size - off ELSE n,
           to = IF o + off + want < all THEN o + off + want ELSE all,
           NEW l, l = IF o + off < to THEN to - (o + off) ELSE 0
    PROVE  /\ to \in Nat /\ to <= all
           /\ l <= n
           /\ l > 0 => off + l <= size /\ o + off + l <= all
OBVIOUS

LEMMA EmptySays ==
    ASSUME NEW S, NEW cells, NEW a, NEW c, c = <<>>, NEW n \in Nat
    PROVE  /\ c \in Seq(S)
           /\ Len(c) <= n /\ ~(Len(c) > 0)
           /\ \A k \in 1..Len(c) : c[k] = cells[a + k]
OBVIOUS

(* What a read of n cells at off of the storage of a file may return: what *)
(* lies there, in order, at most what was asked for and never more than    *)
(* there is.                                                               *)
IsRead(cells, r, st, off, n) ==
    /\ cells \in Seq({r.cells[k] : k \in 1..Len(r.cells)})
    /\ Len(cells) <= n
    /\ Len(cells) > 0 => /\ off + Len(cells) <= st.size
                         /\ st.offset + off + Len(cells) <= Len(r.cells)
    /\ \A k \in 1..Len(cells) : cells[k] = r.cells[st.offset + off + k]

LEMMA StorageRead ==
    ASSUME NEW r, IsRom(r), NEW f \in Files(r), zelda64_stat(r, f).result = "OK",
           NEW off \in Nat, NEW n \in Nat
    PROVE  IsRead(zelda64_read_storage(r, f, off, n), r, zelda64_stat(r, f), off, n)
<1> DEFINE st == zelda64_stat(r, f)
           c == zelda64_read_storage(r, f, off, n)
           S == {r.cells[k] : k \in 1..Len(r.cells)}
           cells == r.cells
           all == Len(cells)
           o == st.offset
           size == st.size
           want == IF size - off < n THEN size - off ELSE n
           to == IF o + off + want < all THEN o + off + want ELSE all
<1> SUFFICES /\ c \in Seq(S)
             /\ Len(c) <= n
             /\ Len(c) > 0 => off + Len(c) <= size /\ o + off + Len(c) <= all
             /\ \A k \in 1..Len(c) : c[k] = cells[o + off + k]
    BY Zenon DEF IsRead
<1>1. st.offset \in Nat /\ st.size \in Nat
    BY StatSays, WordsAreNat
<1> HIDE DEF st
<1>2. cells \in Seq(S)
    BY CellsAreSeq
<1>3. c = IF off >= st.size THEN <<>> ELSE SubSeq(cells, st.offset + off + 1, to)
  <2>1. c = IF st.result # "OK" \/ off >= st.size THEN <<>>
            ELSE SubSeq(cells, st.offset + off + 1, to)
    BY Zenon DEF zelda64_read_storage, st
  <2>2. st.result = "OK"
    BY DEF st
  <2>3. QED
    BY <2>1, <2>2, Zenon
<1> HIDE DEF c
<1>4. CASE off >= st.size
  <2>1. c = <<>>
    BY <1>3, <1>4, Zenon
  <2>2. QED
    BY <2>1, EmptySays
<1>5. CASE ~(off >= st.size)
  <2> DEFINE from == o + off
             l == IF from < to THEN to - from ELSE 0
  <2>1. c = SubSeq(cells, from + 1, to)
    BY <1>3, <1>5, Zenon
  <2>2. off < size /\ all \in Nat /\ from \in Nat /\ o \in Nat /\ size \in Nat
    BY <1>1, <1>2, <1>5
  <2> HIDE DEF all, o, size
  <2>3. /\ to \in Nat /\ to <= all
        /\ l <= n
        /\ l > 0 => off + l <= size /\ from + l <= all
    BY <2>2, ReadExtent
  <2> HIDE DEF S, cells, want, to, l, from
  <2>4. /\ c \in Seq(S)
        /\ Len(c) = IF from < to THEN to - from ELSE 0
        /\ \A k \in 1..Len(c) : c[k] = cells[from + k]
    BY <1>2, <2>1, <2>2, <2>3, SubSeqIs DEF all
  <2>5. Len(c) = l
    BY <2>4, Zenon DEF l
  <2>6. QED
    BY <2>3, <2>4, <2>5, Zenon DEF from
<1>6. QED
    BY <1>4, <1>5

(* All of the storage that is there. *)
LEMMA StorageReadWhole ==
    ASSUME NEW r, NEW f, NEW st, st = zelda64_stat(r, f), st.result = "OK",
           st.size \in Nat, ~(0 >= st.size)
    PROVE  zelda64_read_storage(r, f, 0, st.size) =
               SubSeq(r.cells, st.offset + 0 + 1,
                      IF st.offset + 0 + (st.size - 0) < Len(r.cells)
                      THEN st.offset + 0 + (st.size - 0) ELSE Len(r.cells))
<1>1. (IF st.size - 0 < st.size THEN st.size - 0 ELSE st.size) = st.size - 0
    OBVIOUS
<1>2. QED
    BY <1>1, Zenon DEF zelda64_read_storage

-----------------------------------------------------------------------------
(* Sequences, whatever is in them. *)

IsSeq(s) == s \in Seq({s[k] : k \in DOMAIN s})

LEMMA SeqIs ==
    ASSUME NEW S, NEW s \in Seq(S)
    PROVE  IsSeq(s) /\ Len(s) \in Nat /\ DOMAIN s = 1..Len(s)
<1> DEFINE T == {s[k] : k \in DOMAIN s}
<1>1. Len(s) \in Nat /\ DOMAIN s = 1..Len(s) /\ s \in [1..Len(s) -> S]
    OBVIOUS
<1>2. \A k \in 1..Len(s) : s[k] \in T
    BY <1>1
<1> HIDE DEF T
<1>3. s \in [1..Len(s) -> T]
    BY <1>1, <1>2
<1>4. s \in Seq(T)
    BY <1>1, <1>3
<1>5. QED
    BY <1>1, <1>4 DEF T, IsSeq

LEMMA SeqParts ==
    ASSUME NEW s, IsSeq(s)
    PROVE  Len(s) \in Nat /\ DOMAIN s = 1..Len(s)
BY DEF IsSeq

LEMMA ShortSeqs ==
    ASSUME NEW x
    PROVE  IsSeq(<<>>) /\ IsSeq(<<x>>) /\ Len(<<x>>) = 1 /\ <<x>>[1] = x
<1>1. <<>> \in Seq({x}) /\ <<x>> \in Seq({x})
    OBVIOUS
<1>2. IsSeq(<<>>) /\ IsSeq(<<x>>)
    BY <1>1, SeqIs, Zenon
<1>3. QED
    BY <1>2

LEMMA FunctionIsIsSeq ==
    ASSUME NEW n \in Nat, NEW f, f = [k \in 1..n |-> f[k]]
    PROVE  IsSeq(f) /\ Len(f) = n
BY FunctionIsSeq, SeqIs

LEMMA ConcatIs ==
    ASSUME NEW S, NEW t \in Seq(S), NEW p \in Seq(S)
    PROVE  /\ t \o p \in Seq(S)
           /\ Len(t \o p) = Len(t) + Len(p)
           /\ \A k \in 1..(Len(t) + Len(p)) :
                 (t \o p)[k] = IF k <= Len(t) THEN t[k] ELSE p[k - Len(t)]
OBVIOUS

LEMMA SameCells ==
    ASSUME NEW s, NEW t, IsSeq(s), IsSeq(t), Len(s) = Len(t),
           \A k \in 1..Len(s) : s[k] = t[k]
    PROVE  s = t
<1>1. /\ Len(s) \in Nat /\ DOMAIN s = 1..Len(s) /\ DOMAIN t = 1..Len(s)
    BY SeqParts
<1> DEFINE S == {s[k] : k \in DOMAIN s}  T == {t[k] : k \in DOMAIN t}  n == Len(s)
<1>2. s \in Seq(S) /\ t \in Seq(T)
    BY DEF IsSeq
<1> HIDE DEF S, T
<1>3. s = [k \in 1..n |-> s[k]] /\ t = [k \in 1..n |-> t[k]]
  <2>1. s \in [1..Len(s) -> S] /\ t \in [1..Len(t) -> T]
    BY <1>2
  <2>2. QED
    BY <2>1
<1>4. QED
    BY <1>3, Zenon

IsPart(c, s, from, to) ==
    /\ IsSeq(c) /\ Len(c) = to - from
    /\ \A k \in 1..Len(c) : c[k] = s[from + k]

LEMMA PartOf ==
    ASSUME NEW S, NEW s \in Seq(S), NEW from \in Nat, NEW to \in Nat, to <= Len(s),
           from < to
    PROVE  IsPart(SubSeq(s, from + 1, to), s, from, to)
<1> DEFINE c == SubSeq(s, from + 1, to)
<1>1. /\ c \in Seq(S)
      /\ Len(c) = IF from < to THEN to - from ELSE 0
      /\ \A k \in 1..Len(c) : c[k] = s[from + k]
    BY SubSeqIs
<1> HIDE DEF c
<1>2. IsPart(c, s, from, to)
    BY <1>1, SeqIs DEF IsPart
<1>3. QED
    BY <1>2 DEF c

-----------------------------------------------------------------------------
(* More on rounding: it is monotone, and gives multiples. *)

LEMMA Multiples ==
    ASSUME NEW d \in Nat \ {0}, NEW x \in Nat, NEW y \in Nat, x % d = 0, y % d = 0
    PROVE  /\ (x + y) % d = 0
           /\ (y - x) % d = 0
           /\ x < y => x + d <= y
<1>1. PICK p \in Nat : x = d * p
    OBVIOUS
<1>2. PICK q \in Nat : y = d * q
    OBVIOUS
<1>3. x + y = d * (p + q) /\ p + q \in Nat
    BY <1>1, <1>2
<1>4. (d * (p + q)) % d = 0
    BY <1>3
<1>7. y - x = d * (q - p) /\ q - p \in Int
    BY <1>1, <1>2
<1>8. (d * (q - p)) % d = 0
    BY <1>7
<1>5. ASSUME x < y
      PROVE  x + d <= y
  <2>1. p < q
    BY <1>1, <1>2, <1>5
  <2>2. q = p + 1 + (q - (p + 1)) /\ q - (p + 1) \in Nat
    BY <2>1
  <2>3. d * q = d * p + d + d * (q - (p + 1))
    BY <2>2
  <2>4. d * (q - (p + 1)) \in Nat
    BY <2>2
  <2>5. QED
    BY <1>1, <1>2, <2>3, <2>4
<1>6. QED
    BY <1>3, <1>4, <1>5, <1>7, <1>8

LEMMA AlignIs ==
    ASSUME NEW n \in Word, NEW m \in Word, n <= m, m + ALIGN <= WORD
    PROVE  /\ zelda64_align16(n) \in Nat /\ zelda64_align16(n) % ALIGN = 0
           /\ n <= zelda64_align16(n) /\ zelda64_align16(n) < n + ALIGN
           /\ zelda64_align16(n) <= zelda64_align16(m)
           /\ n % ALIGN = 0 => zelda64_align16(n) = n
<1> DEFINE a == zelda64_align16(n)
           b == zelda64_align16(m)
<1>1. /\ ALIGN \in Nat \ {0} /\ WORD \in Nat /\ n \in Nat /\ m \in Nat /\ n + ALIGN <= WORD
    BY WordsAssumption, WordsAreNat DEF WORD
<1>2. /\ a \in Nat /\ a % ALIGN = 0 /\ n <= a /\ a < n + ALIGN
      /\ b \in Nat /\ b % ALIGN = 0 /\ m <= b
    BY <1>1, AlignRoundsUp, WordsAreNat
<1> HIDE DEF a, b
<1>3. b < a => b + ALIGN <= a
    BY <1>1, <1>2, Multiples
<1>4. n % ALIGN = 0 => (n < a => n + ALIGN <= a)
    BY <1>1, <1>2, Multiples
<1>5. QED
    BY <1>1, <1>2, <1>3, <1>4 DEF a, b

LEMMA CeilGrows ==
    ASSUME NEW n \in Word, NEW m \in Word, n <= m,
           \E p \in Word : m <= p /\ IsPow2(p)
    PROVE  /\ m <= zelda64_ceil_pow2(m)
           /\ zelda64_ceil_pow2(n) <= zelda64_ceil_pow2(m)
<1> DEFINE low == zelda64_ceil_pow2(n)
<1> DEFINE high == zelda64_ceil_pow2(m)
<1>1. n \in Nat /\ m \in Nat
    BY WordsAreNat
<1>2. low \in Word /\ high \in Word /\ low \in Nat /\ high \in Nat
    BY CeilRoundsUp, WordsAreNat
<1>3. n = 0 => low = 0
    BY CeilRoundsUp
<1>4. m = 0 => high = 0
    BY CeilRoundsUp
<1>5. m # 0 => m <= high /\ IsPow2(high)
    BY CeilRoundsUp
<1>6. n # 0 => \A p \in Word : n <= p /\ IsPow2(p) => low <= p
    BY <1>5, CeilRoundsUp
<1> HIDE DEF low, high
<1>7. m <= high
    BY <1>1, <1>4, <1>5
<1>8. n <= high
    BY <1>1, <1>2, <1>7
<1>9. CASE n = 0
    BY <1>2, <1>3, <1>7, <1>9 DEF low, high
<1>10. CASE n # 0
  <2>1. m # 0
    BY <1>1, <1>10
  <2>2. low <= high
    BY <1>2, <1>5, <1>6, <1>8, <1>10, <2>1
  <2>3. QED
    BY <1>7, <2>2 DEF low, high
<1>11. QED
    BY <1>9, <1>10

(* No file ends at the last word. *)
LEMMA EndIsNoMark ==
    ASSUME NEW x \in Word, x % ALIGN = 0
    PROVE  x # UINT32_MAX
<1>1. /\ ALIGN \in Nat \ {0} /\ ALIGN >= 2 /\ WORD = UINT32_MAX + 1 /\ WORD % ALIGN = 0
      /\ x \in Nat /\ UINT32_MAX \in Nat /\ WORD \in Nat
    BY WordsAssumption, WordsAreNat DEF WORD
<1>2. x < WORD => x + ALIGN <= WORD
    BY <1>1, Multiples
<1>3. QED
    BY <1>1, <1>2

-----------------------------------------------------------------------------
(* Files, chunks and streams as sequences. *)

LEMMA ContentLength ==
    ASSUME NEW r, IsRom(r), NEW f \in Files(r)
    PROVE  /\ Len(Content(r, f, 0)) = r.plain[f]
           /\ \A form \in Nat \ {0} : Len(Content(r, f, form)) = r.packed[f]
           /\ \A form : IsSeq(Content(r, f, form))
<1>1. ASSUME NEW form
      PROVE  /\ Len(Content(r, f, form)) = IF form = 0 THEN r.plain[f] ELSE r.packed[f]
             /\ IsSeq(Content(r, f, form))
  <2> DEFINE c == Content(r, f, form)
  <2>1. /\ Len(c) = IF form = 0 THEN r.plain[f] ELSE r.packed[f]
        /\ c \in Seq({c[k] : k \in 1..Len(c)})
    BY ContentIsSeq
  <2> HIDE DEF c
  <2>2. IsSeq(c)
    BY <2>1, SeqIs
  <2>3. QED
    BY <2>1, <2>2 DEF c
<1>2. QED
    BY <1>1

LEMMA ChunkIs ==
    ASSUME NEW r, NEW a, NEW n \in Nat
    PROVE  /\ IsSeq(ChunkAt(r, a, n)) /\ Len(ChunkAt(r, a, n)) = n
           /\ \A k \in 1..n : ChunkAt(r, a, n)[k] =
                  IF a + k <= Len(r.cells) THEN r.cells[a + k] ELSE Stale
<1>1. IsSeq(ChunkAt(r, a, n)) /\ Len(ChunkAt(r, a, n)) = n
    BY FunctionIsIsSeq DEF ChunkAt
<1>2. QED
    BY <1>1 DEF ChunkAt

(* What zelda64_read_file makes of a storage that holds a file or its      *)
(* stream.                                                                 *)
LEMMA Extent ==
    ASSUME NEW all \in Nat, NEW o \in Nat, NEW size \in Nat,
           NEW n \in Nat \ {0}, n <= size, o + n <= all,
           NEW to, to = IF o + size < all THEN o + size ELSE all
    PROVE  /\ to \in Nat /\ to <= all /\ o < to /\ n <= to - o
           /\ n = size => to - o = n
OBVIOUS

LEMMA StorageHolds ==
    ASSUME NEW r, NEW f, NEW st, st = zelda64_stat(r, f), st.result = "OK",
           st.offset \in Nat, st.size \in Nat, IsSeq(r.cells),
           NEW n \in Nat \ {0}, n <= st.size, st.offset + n <= Len(r.cells),
           NEW storage, storage = zelda64_read_storage(r, f, 0, st.size)
    PROVE  /\ IsSeq(storage) /\ Len(storage) \in Nat /\ n <= Len(storage)
           /\ n = st.size => Len(storage) = n
           /\ \A k \in 1..Len(storage) : storage[k] = r.cells[st.offset + k]
<1>1. ~(0 >= st.size) /\ st.size - 0 = st.size /\ st.offset + 0 = st.offset
    OBVIOUS
<1>2. storage = SubSeq(r.cells, st.offset + 0 + 1,
                       IF st.offset + 0 + (st.size - 0) < Len(r.cells)
                       THEN st.offset + 0 + (st.size - 0) ELSE Len(r.cells))
    BY <1>1, StorageReadWhole, Zenon
<1>3. storage = SubSeq(r.cells, st.offset + 1,
                       IF st.offset + st.size < Len(r.cells)
                       THEN st.offset + st.size ELSE Len(r.cells))
    BY <1>1, <1>2, Zenon
<1> DEFINE cells == r.cells  o == st.offset  size == st.size
           to == IF o + size < Len(cells) THEN o + size ELSE Len(cells)
<1>4. IsSeq(cells) /\ o \in Nat /\ size \in Nat /\ n <= size /\ o + n <= Len(cells)
    OBVIOUS
<1>5. storage = SubSeq(cells, o + 1, to)
    BY <1>3
<1> HIDE DEF cells, o, size
<1> DEFINE all == Len(cells)
           S == {cells[k] : k \in DOMAIN cells}
<1>6. cells \in Seq(S) /\ all \in Nat
    BY <1>4, SeqParts DEF IsSeq
<1> HIDE DEF S
<1>7. all = Len(cells) /\ to = IF o + size < all THEN o + size ELSE all
    OBVIOUS
<1> HIDE DEF all, to
<1>8. /\ to \in Nat /\ to <= all /\ o < to /\ n <= to - o
      /\ n = size => to - o = n
    BY <1>4, <1>6, <1>7, Extent
<1>9. to <= Len(cells)
    BY <1>7, <1>8
<1>10. IsPart(storage, cells, o, to)
  <2>1. IsPart(SubSeq(cells, o + 1, to), cells, o, to)
    BY <1>4, <1>6, <1>8, <1>9, PartOf
  <2>2. QED
    BY <1>5, <2>1, Zenon
<1>11. QED
    BY <1>4, <1>8, <1>10 DEF IsPart, cells, o, size

LEMMA StoredReads ==
    ASSUME NEW r, NEW f, NEW st, st = zelda64_stat(r, f), st.result = "OK",
           zelda64_dmadata_kind(r.dma[f]) = "STORED",
           st.offset \in Nat, st.size \in Nat, IsSeq(r.cells),
           NEW c, IsSeq(c), Len(c) = st.size, Len(c) \in Nat \ {0},
           st.offset + Len(c) <= Len(r.cells),
           \A k \in 1..Len(c) : r.cells[st.offset + k] = c[k]
    PROVE  zelda64_read_file(r, f) = c
<1> DEFINE storage == zelda64_read_storage(r, f, 0, st.size)
<1>1. zelda64_read_file(r, f) = storage
    BY Zenon DEF zelda64_read_file
<1>2. /\ IsSeq(storage) /\ Len(storage) = Len(c)
      /\ \A k \in 1..Len(storage) : storage[k] = r.cells[st.offset + k]
    BY StorageHolds
<1> HIDE DEF storage
<1>3. \A k \in 1..Len(storage) : storage[k] = c[k]
    BY <1>2
<1>4. storage = c
    BY <1>2, <1>3, SameCells
<1>5. QED
    BY <1>1, <1>4

LEMMA StreamReads ==
    ASSUME NEW r, NEW f, NEW st, st = zelda64_stat(r, f), st.result = "OK",
           zelda64_dmadata_kind(r.dma[f]) # "STORED",
           st.offset \in Nat, st.size \in Nat, IsSeq(r.cells),
           NEW c, c = Content(r, f, 1), IsSeq(c), Len(c) \in Nat, Len(c) > 0,
           Len(c) <= st.size, st.offset + Len(c) <= Len(r.cells),
           \A k \in 1..Len(c) : r.cells[st.offset + k] = c[k]
    PROVE  zelda64_read_file(r, f) = Content(r, f, 0)
<1> DEFINE storage == zelda64_read_storage(r, f, 0, st.size)
           header == storage[1]
<1>1. /\ IsSeq(storage) /\ Len(storage) \in Nat /\ Len(c) <= Len(storage)
      /\ \A k \in 1..Len(storage) : storage[k] = r.cells[st.offset + k]
    BY StorageHolds
<1>2. zelda64_read_file(r, f) =
          IF /\ Len(Content(r, header[2], header[3])) <= Len(storage)
             /\ SubSeq(storage, 1, Len(Content(r, header[2], header[3])))
                    = Content(r, header[2], header[3])
          THEN Content(r, header[2], header[3] - 1) ELSE <<"DECOMPRESS_ERROR">>
    BY Zenon DEF zelda64_read_file
<1>3. header = <<"file", f, 1, 1>>
  <2>1. 1 \in 1..Len(c) /\ 1 \in 1..Len(storage)
    BY <1>1
  <2>2. header = c[1]
    <3> HIDE DEF storage
    <3>1. QED
        BY <1>1, <2>1
  <2>3. c[1] = <<"file", f, 1, 1>>
    <3> DEFINE n == IF 1 = 0 THEN r.plain[f] ELSE r.packed[f]
    <3>1. c = [k \in 1..n |-> <<"file", f, 1, k>>]
        BY DEF Content
    <3>2. DOMAIN c = 1..Len(c)
        BY SeqParts
    <3> HIDE DEF n
    <3>3. 1 \in 1..n
        BY <2>1, <3>1, <3>2
    <3>4. QED
        BY <3>1, <3>3
  <2>4. QED
    BY <2>2, <2>3
<1> HIDE DEF storage, header
<1>4. header[2] = f /\ header[3] = 1 /\ header[3] - 1 = 0
    BY <1>3
<1>5. SubSeq(storage, 1, Len(c)) = c
  <2> DEFINE front == SubSeq(storage, 0 + 1, Len(c))
             S == {storage[k] : k \in DOMAIN storage}
  <2>1. storage \in Seq(S)
    BY <1>1 DEF IsSeq
  <2> HIDE DEF S
  <2>2. /\ front \in Seq(S) /\ Len(front) = IF 0 < Len(c) THEN Len(c) - 0 ELSE 0
        /\ \A k \in 1..Len(front) : front[k] = storage[0 + k]
    BY <1>1, <2>1, SubSeqIs
  <2> HIDE DEF front
  <2>3. Len(front) = Len(c) /\ IsSeq(front)
    BY <2>2, SeqIs
  <2>4. ASSUME NEW k \in 1..Len(front)
        PROVE  front[k] = c[k]
    <3>1. k \in 1..Len(c) /\ k \in 1..Len(storage) /\ 0 + k = k
        BY <1>1, <2>3
    <3>2. QED
        BY <1>1, <2>2, <3>1
  <2>5. front = c
    BY <2>3, <2>4, SameCells
  <2>6. QED
    BY <2>5 DEF front
<1>6. QED
    BY <1>1, <1>2, <1>4, <1>5, Zenon

-----------------------------------------------------------------------------
(* What zelda64_stat says of an entry with a file, or a stream, behind it. *)

LEMMA StoredStatIs ==
    ASSUME NEW r, NEW f, NEW e, e = r.dma[f], e.rom_end = 0,
           e.vrom_start \in Nat, e.vrom_end \in Nat, e.vrom_start <= e.vrom_end,
           NEW st, st = zelda64_stat(r, f)
    PROVE  /\ zelda64_dmadata_kind(r.dma[f]) = "STORED"
           /\ st.result = "OK" /\ st.offset = e.rom_start
           /\ st.size = e.vrom_end - e.vrom_start
<1>1. zelda64_dmadata_kind(e) = "STORED"
    BY WordsAssumption DEF zelda64_dmadata_kind
<1>2. ~(e.vrom_end - e.vrom_start < 0)
    OBVIOUS
<1>3. st = [result |-> "OK", offset |-> e.rom_start, size |-> e.vrom_end - e.vrom_start,
            file_size |-> e.vrom_end - e.vrom_start]
    BY <1>1, <1>2 DEF zelda64_stat
<1>4. QED
    BY <1>1, <1>3

(* The entry of a stream of n cells that the ROM holds. *)
NamesStream(r, e, n) ==
    /\ n \in Nat /\ n >= HEADER
    /\ e.rom_end \in Nat \ {0, UINT32_MAX} /\ e.rom_start \in Nat
    /\ e.rom_end = e.rom_start + n
    /\ e.vrom_start \in Nat /\ e.vrom_end \in Nat /\ e.vrom_start <= e.vrom_end
    /\ Len(r.cells) \in Nat /\ e.rom_start + HEADER <= Len(r.cells)
    /\ IsYaz0Header(r.cells[e.rom_start + 1])

HasStream(r, f, n) ==
    LET st == zelda64_stat(r, f)
    IN /\ zelda64_dmadata_kind(r.dma[f]) = "COMPRESSED"
       /\ st.result = "OK" /\ st.offset = r.dma[f].rom_start /\ st.size = n

LEMMA StreamStatIs ==
    ASSUME NEW r, NEW f, NEW n, NamesStream(r, r.dma[f], n)
    PROVE  HasStream(r, f, n)
<1> USE DEF NamesStream
<1> DEFINE e == r.dma[f]
           st == zelda64_stat(r, f)
<1>1. zelda64_dmadata_kind(e) = "COMPRESSED"
    BY DEF zelda64_dmadata_kind
<1>2. ~(e.vrom_end - e.vrom_start < 0) /\ ~(e.rom_start > e.rom_end)
      /\ e.rom_end - e.rom_start = n
  <2> DEFINE v == e.vrom_start  w == e.vrom_end  x == e.rom_start  y == e.rom_end
  <2>1. v \in Nat /\ w \in Nat /\ v <= w /\ x \in Nat /\ y = x + n
    OBVIOUS
  <2> HIDE DEF v, w, x, y
  <2>2. ~(w - v < 0) /\ ~(x > y) /\ y - x = n
    BY <2>1
  <2>3. QED
    BY <2>2 DEF v, w, x, y
<1>3. st = CompressedStat(r, e)
    BY <1>1, <1>2 DEF zelda64_stat
<1>8. IsYaz0Header(r.cells[e.rom_start + 1])
    OBVIOUS
<1>4. ~(n < HEADER)
    BY DEF HEADER
<1>5. ~(e.rom_start + HEADER > Len(r.cells))
  <2> DEFINE all == Len(r.cells)  start == e.rom_start
  <2>1. all \in Nat /\ start \in Nat /\ start + HEADER <= all
    OBVIOUS
  <2> HIDE DEF all, start
  <2>2. ~(start + HEADER > all)
    BY <2>1 DEF HEADER
  <2>3. QED
    BY <2>2 DEF all, start
<1>6. CompressedStat(r, e) =
          [result |-> "OK", offset |-> e.rom_start, size |-> n,
           file_size |-> Len(Content(r, r.cells[e.rom_start + 1][2],
                                     r.cells[e.rom_start + 1][3] - 1))]
    BY <1>2, <1>4, <1>5, <1>8, Zenon DEF CompressedStat
<1>7. QED
    BY <1>1, <1>3, <1>6 DEF HasStream

-----------------------------------------------------------------------------
(* Why it is enough that every step makes a measure less. *)

(* Measures of one length cannot become less for ever: each of their parts *)
(* is the same from some point on, the first of them first.                *)
THEOREM NoEndlessDescent ==
    ASSUME NEW n \in Nat
    PROVE  ~\E f : IsDescent(f, n)
<1> SUFFICES ASSUME NEW f, IsDescent(f, n) PROVE FALSE
    OBVIOUS
<1> DEFINE Same(k, M) == \A m \in Nat : m >= M => \A j \in 1..k : f[m][j] = f[M][j]
           G == {k \in Nat : k <= n => \E M \in Nat : Same(k, M)}
<1>1. \A m \in Nat : \A k \in 1..n : f[m][k] \in Nat
    BY DEF IsDescent, IsMeasure
<1>2. \A m \in Nat : \E q \in 1..n :
          f[m + 1][q] < f[m][q] /\ \A j \in 1..(q - 1) : f[m + 1][j] = f[m][j]
    BY DEF IsDescent, IsLess
<1>3. 0 \in G
  <2>1. Same(0, 0)
    OBVIOUS
  <2>2. QED
    BY <2>1
<1>4. ASSUME NEW k \in Nat, k \in G PROVE k + 1 \in G
  <2>1. SUFFICES ASSUME k + 1 <= n PROVE \E M \in Nat : Same(k + 1, M)
    OBVIOUS
  <2>2. PICK M \in Nat : Same(k, M)
    BY <1>4, <2>1
  <2> DEFINE T == {f[m][k + 1] : m \in {x \in Nat : x >= M}}
  <2>3. k + 1 \in 1..n
    BY <2>1
  <2>4. T \subseteq Nat /\ T # {}
    <3>1. f[M][k + 1] \in T
        OBVIOUS
    <3>2. T \subseteq Nat
        BY <1>1, <2>3
    <3>3. QED
        BY <3>1, <3>2
  <2>5. PICK a \in T : \A b \in T : a <= b
    BY <2>4, LeastOf
  <2>6. PICK L \in Nat : L >= M /\ a = f[L][k + 1]
    BY <2>5
  <2> DEFINE H == {d \in Nat : f[L + d][k + 1] = a}
  <2>7. 0 \in H
    <3>1. L + 0 = L
        BY <2>6
    <3>2. QED
        BY <2>6, <3>1
  <2>8. ASSUME NEW d \in Nat, d \in H PROVE d + 1 \in H
    <3> DEFINE m == L + d
    <3>1. m \in Nat /\ m + 1 \in Nat /\ m >= M /\ m + 1 >= M /\ L + (d + 1) = m + 1
        BY <2>6
    <3>2. f[m][k + 1] = a
        BY <2>8
    <3> HIDE DEF m
    <3>3. \A j \in 1..k : f[m + 1][j] = f[m][j]
        BY <2>2, <3>1
    <3>4. PICK q \in 1..n :
              f[m + 1][q] < f[m][q] /\ \A j \in 1..(q - 1) : f[m + 1][j] = f[m][j]
        BY <1>2, <3>1
    <3>5. f[m][q] \in Nat /\ f[m + 1][q] \in Nat
        BY <1>1, <3>1
    <3>6. q \notin 1..k
        BY <3>3, <3>4, <3>5
    <3>7. f[m + 1][k + 1] \in T
        BY <3>1
    <3>8. a <= f[m + 1][k + 1] /\ a \in Nat
        BY <2>4, <2>5, <3>7
    <3>9. q # k + 1
        BY <3>2, <3>4, <3>5, <3>8
    <3>10. k + 1 \in 1..(q - 1)
        BY <3>6, <3>9
    <3>11. f[m + 1][k + 1] = a
        BY <3>2, <3>4, <3>10
    <3>12. QED
        BY <3>1, <3>11
  <2>9. Nat \subseteq H
    <3> HIDE DEF H
    <3>1. QED
        BY <2>7, <2>8, Induction
  <2>10. ASSUME NEW m \in Nat, m >= L PROVE f[m][k + 1] = a
    <3>1. m - L \in Nat /\ L + (m - L) = m
        BY <2>6, <2>10
    <3>2. m - L \in H
        BY <2>9, <3>1
    <3>3. QED
        BY <3>1, <3>2
  <2>11. Same(k + 1, L)
    <3> SUFFICES ASSUME NEW m \in Nat, m >= L, NEW j \in 1..(k + 1)
                 PROVE  f[m][j] = f[L][j]
        OBVIOUS
    <3>1. CASE j = k + 1
        BY <2>6, <2>10, <3>1
    <3>2. CASE j \in 1..k
      <4>1. f[m][j] = f[M][j] /\ f[L][j] = f[M][j]
          BY <2>2, <2>6, <3>2
      <4>2. QED
          BY <4>1
    <3>3. QED
        BY <3>1, <3>2
  <2>12. QED
    BY <2>6, <2>11
<1>5. n \in G
  <2> HIDE DEF G
  <2>1. QED
    BY <1>3, <1>4, Induction
<1>6. PICK M \in Nat : Same(n, M)
    BY <1>5
<1>7. PICK q \in 1..n : f[M + 1][q] < f[M][q]
    BY <1>2
<1>8. f[M + 1][q] = f[M][q]
    BY <1>6
<1>9. f[M][q] \in Nat
    BY <1>1
<1>10. QED
    BY <1>7, <1>8, <1>9
=============================================================================
