-------------------------- MODULE CheckCodeProofs --------------------------
(***************************************************************************)
(* Proofs about CheckCode, for every word width, region, chunk size and    *)
(* image.                                                                  *)
(*                                                                         *)
(* The position invariant ties the three positions the code keeps together *)
(* (the chunk's, the word's in it and the accumulators') and says that the *)
(* chunk is the image there; the sum invariant keeps the two accumulators  *)
(* words.  The fold invariant says what every accumulator holds: what the  *)
(* words mixed so far, folded by definition, make of it.  The folds are    *)
(* recursive functions; that they exist, and what their values are, comes  *)
(* from one lemma of induction over the natural numbers.                   *)
(*                                                                         *)
(* The calls end: Left says what is left of them.                          *)
(***************************************************************************)
EXTENDS CheckCode, Descent, FiniteSetTheorems, TLAPS

(* Where the loops stand. *)
PositionInv ==
    /\ offset \in START..END
    /\ pc \in {"boot", "cic"} => at = 0 /\ offset = START
    /\ pc = "read" => at = offset
    /\ pc = "mix" => /\ offset < END
                     /\ Exists(offset, Want)
                     /\ chunk = Region(offset, Want)
                     /\ i \in 0..Want
                     /\ at = offset + i

(* What was not read because it does not exist lies inside the region. *)
TruncatedInv ==
    /\ pc # "done" => error = "OK"
    /\ pc \in {"read", "mix"} => request.call = "code"
    /\ pc = "done" /\ error = "TRUNCATED" =>
          Len(rom) < (IF request.call = "code" THEN END ELSE START)

(* The two halves of the sum. *)
SumInv ==
    /\ at \in {0} \cup START..END
    /\ acc[3] \in Word
    /\ acc[5] \in Word

IInv == request \in Requests /\ PositionInv /\ TruncatedInv /\ SumInv

-----------------------------------------------------------------------------
(* Lengths and members of what is cut from an image. *)
LEMMA Cut ==
    ASSUME NEW r \in Seq(Word), NEW a \in Nat, NEW b \in Nat, b <= Len(r)
    PROVE  /\ Len(SubSeq(r, a + 1, b)) = IF a <= b THEN b - a ELSE 0
           /\ \A k \in 1..(b - a) : SubSeq(r, a + 1, b)[k] = r[a + k]
BY SMT

(* A chunk inside the region lies at its place in what is held of it. *)
LEMMA ChunkInHeld ==
    ASSUME rom \in Seq(Word), offset \in START..END, i \in Nat, Exists(offset, Want),
           i < Want
    PROVE  /\ Len(Region(offset, Want)) = Want
           /\ offset + i - START < Len(Held)
           /\ Region(offset, Want)[i + 1] = Held[offset + i - START + 1]
           /\ Region(offset, Want)[i + 1] \in Word
<1>1. /\ START \in Nat /\ END \in Nat /\ CHUNK \in Nat /\ offset \in Nat /\ Want \in Nat
      /\ offset + Want <= END /\ offset + Want <= Len(rom) /\ START <= offset
    BY RegionAssumption DEF Want, Exists
<1>2. DEFINE last == IF END < Len(rom) THEN END ELSE Len(rom)
<1>3. last \in Nat /\ last <= Len(rom) /\ offset + Want <= last
    BY <1>1
<1>4. /\ Len(Region(offset, Want)) = Want
      /\ Region(offset, Want)[i + 1] = rom[offset + (i + 1)]
    BY <1>1, Cut DEF Region
<1>5. /\ Len(Held) = last - START
      /\ Held[offset + i - START + 1] = rom[START + (offset + i - START + 1)]
  <2>1. Held = SubSeq(rom, START + 1, last)
      BY DEF Held
  <2> HIDE DEF last
  <2>2. offset + i - START + 1 \in 1..(last - START) /\ START <= last
      BY <1>1, <1>3
  <2>3. Len(SubSeq(rom, START + 1, last)) = last - START
      BY <2>2, <1>1, <1>3, Cut
  <2>4. SubSeq(rom, START + 1, last)[offset + i - START + 1]
          = rom[START + (offset + i - START + 1)]
      BY <2>2, <1>1, <1>3, Cut
  <2>5. QED
      BY <2>1, <2>3, <2>4
<1>6. rom[offset + i + 1] \in Word
    BY <1>1
<1>7. START + (offset + i - START + 1) = offset + i + 1 /\ offset + (i + 1) = offset + i + 1
    BY <1>1
<1>8. offset + i - START < last - START
    BY <1>1, <1>3
<1> HIDE DEF last
<1>9. QED
    BY <1>4, <1>5, <1>6, <1>7, <1>8

(* A word added to the low half carries when the sum leaves the word. *)
LEMMA Carry ==
    ASSUME NEW lo \in Word, NEW d \in Word
    PROVE  /\ (lo + d) % WORD \in Word
           /\ Carries(lo, d) <=> lo + d >= WORD
           /\ (lo + d) % WORD = IF lo + d >= WORD THEN lo + d - WORD ELSE lo + d
<1>1. (lo + d) % WORD = IF lo + d >= WORD THEN lo + d - WORD ELSE lo + d
  <2>1. CASE lo + d >= WORD
      BY <2>1, WordAssumption, SMT DEF Word
  <2>2. CASE lo + d < WORD
      BY <2>2, WordAssumption, SMT DEF Word
  <2>3. QED
      BY <2>1, <2>2, WordAssumption DEF Word
<1>2. QED
    BY <1>1, WordAssumption DEF Word, Carries

(* The next value of a half, taken from the seed. *)
LEMMA High ==
    ASSUME NEW h \in Word
    PROVE  /\ (h + 1) % WORD \in Word
           /\ (h - SEED) % WORD \in Word
           /\ (((h + 1) % WORD) - SEED) % WORD =
                IF (h - SEED) % WORD = WORD - 1 THEN 0 ELSE ((h - SEED) % WORD) + 1
<1>1. (h + 1) % WORD = IF h = WORD - 1 THEN 0 ELSE h + 1
    BY WordAssumption DEF Word
<1>2. \A x \in Word : (x - SEED) % WORD = IF x >= SEED THEN x - SEED ELSE x - SEED + WORD
  <2> TAKE x \in Word
  <2>1. CASE x >= SEED
      BY <2>1, WordAssumption, SMT DEF Word
  <2>2. CASE x < SEED
      BY <2>2, WordAssumption, SMT DEF Word
  <2>3. QED
      BY <2>1, <2>2, WordAssumption DEF Word
<1>3. (h + 1) % WORD \in Word
    BY <1>1, WordAssumption DEF Word
<1>4. QED
    BY <1>1, <1>2, <1>3, WordAssumption DEF Word

(* Two halves add up like one number of twice the width. *)
LEMMA WideAdd ==
    ASSUME NEW hi \in Word, NEW lo \in Word, NEW d \in Word
    PROVE  (hi * WORD + lo + d) % (WORD * WORD) =
             IF lo + d < WORD THEN hi * WORD + (lo + d)
             ELSE (IF hi = WORD - 1 THEN 0 ELSE hi + 1) * WORD + (lo + d - WORD)
<1> DEFINE W2 == WORD * WORD
<1> DEFINE H == hi * WORD
<1>1. W2 \in Nat /\ W2 > 0 /\ H \in Nat
    BY WordAssumption DEF Word
<1>2. H <= W2 - WORD
  <2>1. hi * WORD <= (WORD - 1) * WORD
      BY WordAssumption DEF Word
  <2>2. (WORD - 1) * WORD = WORD * WORD - WORD
      BY WordAssumption
  <2>3. QED
      BY <2>1, <2>2
<1>3. hi # WORD - 1 => H <= W2 - 2 * WORD
  <2> HAVE hi # WORD - 1
  <2>1. hi * WORD <= (WORD - 2) * WORD
      BY WordAssumption DEF Word
  <2>2. (WORD - 2) * WORD = WORD * WORD - 2 * WORD
      BY WordAssumption
  <2>3. QED
      BY <2>1, <2>2
<1>4. hi = WORD - 1 => H = W2 - WORD
    BY WordAssumption
<1>5. (hi + 1) * WORD = H + WORD
    BY WordAssumption DEF Word
<1>6. \A x \in Nat : x < W2 => x % W2 = x
    BY <1>1
<1>7. \A x \in Nat : x >= W2 /\ x < W2 + WORD => x % W2 = x - W2
  <2>1. WORD <= W2
      BY WordAssumption
  <2>2. \A x \in Nat : x >= W2 /\ x < W2 + W2 => x % W2 = x - W2
    <3> HIDE DEF W2
    <3> TAKE x \in Nat
    <3>1. QED
        BY <1>1, SMT
  <2> HIDE DEF W2
  <2>3. QED
      BY <2>1, <2>2, <1>1, WordAssumption
<1> HIDE DEF W2, H
<1>8. (H + lo + d) % W2 = IF lo + d < WORD THEN H + (lo + d)
                          ELSE IF hi = WORD - 1 THEN lo + d - WORD
                          ELSE H + WORD + (lo + d - WORD)
    BY <1>1, <1>2, <1>3, <1>4, <1>6, <1>7, WordAssumption DEF Word
<1>9. (IF hi = WORD - 1 THEN 0 ELSE hi + 1) * WORD
        = IF hi = WORD - 1 THEN 0 ELSE H + WORD
  <2>1. CASE hi = WORD - 1
      BY <2>1, WordAssumption
  <2>2. CASE hi # WORD - 1
      BY <2>2, <1>5
  <2>3. QED
      BY <2>1, <2>2
<1>10. lo + d >= WORD =>
          (IF hi = WORD - 1 THEN 0 ELSE hi + 1) * WORD + (lo + d - WORD)
             = IF hi = WORD - 1 THEN lo + d - WORD ELSE H + WORD + (lo + d - WORD)
    BY <1>1, <1>9, WordAssumption DEF Word
<1>11. QED
    BY <1>8, <1>10, WordAssumption DEF W2, H, Word

-----------------------------------------------------------------------------
(* Nothing was read or added yet. *)
LEMMA InitInv == Init => IInv
BY RegionAssumption, WordAssumption
DEF Init, IInv, PositionInv, TruncatedInv, SumInv, Word

(* Reading the boot code keeps the invariant. *)
LEMMA ReadBootInv == IInv /\ ReadBoot => IInv'
<1> SUFFICES ASSUME IInv, ReadBoot PROVE IInv'
    OBVIOUS
<1> USE DEF IInv, ReadBoot, Fail, state
<1>1. PositionInv'
    BY DEF PositionInv
<1>2. TruncatedInv'
    BY RegionAssumption, WindowAssumption DEF TruncatedInv, Exists, rom, IsImage
<1>3. SumInv'
    BY DEF SumInv
<1>4. QED
    BY <1>1, <1>2, <1>3

(* Naming the chip starts the sum from the seed, or ends the call. *)
LEMMA DetectCicInv == IInv /\ DetectCic => IInv'
<1> SUFFICES ASSUME IInv, DetectCic PROVE IInv'
    OBVIOUS
<1> USE DEF IInv, DetectCic, Fail, state, check_code_init
<1>1. offset = START
    BY DEF PositionInv
<1>2. PositionInv'
    BY <1>1 DEF PositionInv
<1>3. TruncatedInv'
    BY DEF TruncatedInv
<1>4. SumInv'
    BY RegionAssumption, WordAssumption DEF SumInv
<1>5. QED
    BY <1>2, <1>3, <1>4

(* A chunk that was read is the image at the offset; one that is not there *)
(* means that the region is not.                                           *)
LEMMA ReadChunkInv == IInv /\ ReadChunk => IInv'
<1> SUFFICES ASSUME IInv, ReadChunk PROVE IInv'
    OBVIOUS
<1> USE DEF IInv, ReadChunk, Fail, boot, state
<1>1. /\ offset \in Nat /\ END \in Nat /\ Want \in Nat /\ offset + Want <= END
      /\ Len(rom) \in Nat
    BY RegionAssumption, RequestsAssumption DEF PositionInv, Want, rom, IsImage
<1>2. Want' = Want /\ rom' = rom /\ Exists(offset, Want)' = Exists(offset, Want)
      /\ Region(offset, Want)' = Region(offset, Want)
    BY DEF Want, rom, Exists, Region
<1>3. PositionInv'
    BY <1>1, <1>2 DEF PositionInv
<1>4. TruncatedInv'
    BY <1>1, <1>2 DEF TruncatedInv, Exists
<1>5. SumInv'
    BY DEF SumInv
<1>6. QED
    BY <1>3, <1>4, <1>5

(* What holds of the chunk while it is mixed. *)
LEMMA ChunkIsThere ==
    ASSUME IInv, pc = "mix"
    PROVE  /\ rom \in Seq(Word) /\ Exists(offset, Want)
           /\ START \in Nat /\ END \in Nat
           /\ offset \in Nat /\ offset \in START..END /\ offset < END
           /\ Want \in Nat /\ offset + Want <= END
           /\ chunk = Region(offset, Want) /\ Len(chunk) = Want
           /\ i \in 0..Want /\ at = offset + i
<1>1. /\ rom \in Seq(Word) /\ offset \in START..END /\ offset < END
      /\ Exists(offset, Want) /\ chunk = Region(offset, Want)
      /\ i \in 0..Want /\ at = offset + i
    BY RequestsAssumption DEF IInv, PositionInv, rom, IsImage
<1>2. /\ START \in Nat /\ END \in Nat /\ offset \in Nat
      /\ Want \in Nat /\ offset + Want <= END
    BY <1>1, RegionAssumption DEF Want
<1>3. offset + Want <= Len(rom)
    BY <1>1 DEF Exists
<1>4. Len(Region(offset, Want)) = Want
    BY <1>1, <1>2, <1>3, Cut DEF Region
<1>5. QED
    BY <1>1, <1>2, <1>4

(* The word that is mixed next, and what that does to the sum. *)
LEMMA MixWordSum ==
    ASSUME IInv, MixWord
    PROVE  /\ at - START < Len(Held)
           /\ Held[at - START + 1] \in Word
           /\ acc'[5] = (acc[5] + Held[at - START + 1]) % WORD
           /\ acc'[3] = IF Carries(acc[5], Held[at - START + 1])
                        THEN (acc[3] + 1) % WORD ELSE acc[3]
<1>1. i \in Nat /\ i < Want
    BY ChunkIsThere DEF MixWord
<1>2. /\ offset + i - START < Len(Held)
      /\ Region(offset, Want)[i + 1] = Held[offset + i - START + 1]
      /\ Region(offset, Want)[i + 1] \in Word
    BY <1>1, ChunkIsThere, ChunkInHeld DEF MixWord
<1>3. /\ at - START < Len(Held)
      /\ chunk[i + 1] = Held[at - START + 1]
      /\ chunk[i + 1] \in Word
  <2>1. at = offset + i /\ chunk = Region(offset, Want)
      BY ChunkIsThere DEF MixWord
  <2>2. chunk[i + 1] = Region(offset, Want)[i + 1]
      BY <2>1
  <2>3. at - START = offset + i - START /\ at - START + 1 = offset + i - START + 1
      BY <1>1, <2>1, ChunkIsThere DEF MixWord
  <2>4. at - START < Len(Held)
      BY <1>2, <2>3, Zenon
  <2>5. chunk[i + 1] = Held[at - START + 1]
      BY <1>2, <2>2, <2>3, Zenon
  <2>6. chunk[i + 1] \in Word
      BY <1>2, <2>2, Zenon
  <2>7. QED
      BY <2>4, <2>5, <2>6
<1>4. acc' = Mixed(chunk[i + 1])
    BY DEF MixWord
<1>5. /\ acc'[5] = (acc[5] + chunk[i + 1]) % WORD
      /\ acc'[3] = IF Carries(acc[5], chunk[i + 1]) THEN (acc[3] + 1) % WORD ELSE acc[3]
    BY <1>4 DEF Mixed
<1>6. QED
    BY <1>3, <1>5

(* Mixing a word keeps the invariant. *)
LEMMA MixWordInv == IInv /\ MixWord => IInv'
<1> SUFFICES ASSUME IInv, MixWord PROVE IInv'
    OBVIOUS
<1>1. /\ offset \in START..END /\ offset < END /\ i \in 0..Want /\ at = offset + i
      /\ chunk = Region(offset, Want) /\ Exists(offset, Want)
      /\ START \in Nat /\ END \in Nat /\ offset \in Nat
      /\ Want \in Nat /\ Len(chunk) = Want /\ offset + Want <= END
    BY ChunkIsThere DEF MixWord
<1> USE DEF IInv, MixWord, boot
<1>2. Want' = Want /\ rom' = rom /\ Exists(offset, Want)' = Exists(offset, Want)
      /\ Region(offset, Want)' = Region(offset, Want)
    BY DEF Want, rom, Exists, Region
<1>4. PositionInv'
    BY <1>1, <1>2 DEF PositionInv
<1>5. TruncatedInv'
    BY DEF TruncatedInv, rom
<1>6. SumInv'
  <2>1. (at \in {0} \cup START..END)'
      BY <1>1, RegionAssumption
  <2>2. acc'[5] \in Word /\ acc'[3] \in Word
      BY MixWordSum, Carry, High DEF SumInv
  <2>3. QED
      BY <2>1, <2>2 DEF SumInv
<1>7. QED
    BY <1>4, <1>5, <1>6

(* The end of a chunk: all of it was mixed. *)
LEMMA ChunkDoneInv == IInv /\ ChunkDone => IInv'
<1> SUFFICES ASSUME IInv, ChunkDone PROVE IInv'
    OBVIOUS
<1>1. /\ offset \in START..END /\ offset < END /\ i \in 0..Want /\ at = offset + i
      /\ chunk = Region(offset, Want) /\ Exists(offset, Want)
      /\ START \in Nat /\ END \in Nat /\ offset \in Nat
      /\ Want \in Nat /\ Len(chunk) = Want /\ offset + Want <= END
    BY ChunkIsThere DEF ChunkDone
<1> USE DEF IInv, ChunkDone, boot, state
<1>3. i = Want
    BY <1>1
<1>4. PositionInv'
    BY <1>1, <1>3 DEF PositionInv
<1>5. TruncatedInv' /\ SumInv'
    BY DEF TruncatedInv, SumInv, rom
<1>6. QED
    BY <1>4, <1>5

(* The invariant holds in every state. *)
THEOREM Invariance == Spec => []IInv
<1>1. IInv /\ Finish => IInv'
    BY DEF IInv, Finish, boot, state, PositionInv, TruncatedInv, SumInv, rom
<1>2. IInv /\ UNCHANGED vars => IInv'
    BY DEF IInv, vars, PositionInv, TruncatedInv, SumInv, rom, Want, Exists, Region
<1>3. IInv /\ [Next]_vars => IInv'
    BY <1>1, <1>2, ReadBootInv, DetectCicInv, ReadChunkInv, MixWordInv, ChunkDoneInv DEF Next
<1>4. QED
    BY InitInv, <1>3, PTL DEF Spec

(* An image with the whole region never lacks a code for want of bytes.    *)
THEOREM WholeImage == Spec => []WholeImageHasCode
<1>1. IInv => WholeImageHasCode
    BY DEF IInv, TruncatedInv, WholeImageHasCode
<1>2. QED
    BY <1>1, Invariance, PTL

-----------------------------------------------------------------------------
(* The two halves as one number, and how many words it holds. *)
added == IF at = 0 THEN 0 ELSE at - START
total == IF at = 0 THEN SEED ELSE ((acc[3] - SEED) % WORD) * WORD + acc[5]

(* Steps that leave the accumulators alone leave the sum alone. *)
LEMMA Stutter ==
    ASSUME UNCHANGED <<request, state>>
    PROVE  UNCHANGED <<Held, added, total>>
BY DEF state, Held, rom, added, total

(* Starting from the seed is the empty sum. *)
LEMMA DetectCicSum ==
    ASSUME IInv, DetectCic
    PROVE  UNCHANGED <<Held, added, total>>
<1>1. Held' = Held
    BY DEF DetectCic, Held, rom
<1>2. at = 0
    BY DEF IInv, PositionInv, DetectCic
<1>3. CASE UNCHANGED state
    BY <1>1, <1>3, Stutter DEF DetectCic
<1>4. CASE check_code_init
  <2>1. at' = START /\ acc'[3] = SEED /\ acc'[5] = SEED /\ START # 0
      BY <1>4, RegionAssumption DEF check_code_init
  <2>2. added' = 0
      BY <2>1, RegionAssumption DEF added
  <2>3. (SEED - SEED) % WORD = 0 /\ 0 * WORD + SEED = SEED
      BY WordAssumption DEF Word
  <2>4. total' = SEED
      BY <2>1, <2>3 DEF total
  <2>5. QED
      BY <1>1, <1>2, <2>2, <2>4 DEF added, total
<1>5. QED
    BY <1>3, <1>4 DEF DetectCic

(* Mixing a word adds it. *)
LEMMA MixWordAdds ==
    ASSUME IInv, MixWord
    PROVE  /\ added < Len(Held)
           /\ total' = (total + Held[added + 1]) % (WORD * WORD)
           /\ added' = added + 1
           /\ Held' = Held
<1> DEFINE d == Held[added + 1]
           hi == (acc[3] - SEED) % WORD
           lo == acc[5]
<1>1. /\ at \in START..END /\ at' = at + 1 /\ START \in Nat /\ START > 0
  <2>1. at # 0
      BY RegionAssumption DEF IInv, PositionInv, MixWord, Want
  <2>2. QED
      BY <2>1, RegionAssumption DEF IInv, SumInv, MixWord
<1>2. added = at - START /\ added' = added + 1
    BY <1>1 DEF added
<1>3. Held' = Held
    BY DEF MixWord, Held, rom
<1>4. /\ added < Len(Held) /\ d \in Word
      /\ acc'[5] = (lo + d) % WORD
      /\ acc'[3] = IF Carries(lo, d) THEN (acc[3] + 1) % WORD ELSE acc[3]
    BY <1>2, MixWordSum
<1>5. acc[3] \in Word /\ lo \in Word
    BY DEF IInv, SumInv
<1>6. hi \in Word
    BY <1>5, High
<1>7. total = hi * WORD + lo
    BY <1>1 DEF total
<1>8. total' = ((acc'[3] - SEED) % WORD) * WORD + acc'[5]
    BY <1>1 DEF total
<1> HIDE DEF d, lo
<1>9. (acc'[3] - SEED) % WORD =
         IF lo + d >= WORD THEN (IF hi = WORD - 1 THEN 0 ELSE hi + 1) ELSE hi
  <2>1. CASE lo + d >= WORD
    <3>1. acc'[3] = (acc[3] + 1) % WORD
        BY <2>1, <1>4, <1>5, Carry
    <3>2. QED
        BY <2>1, <3>1, <1>5, High
  <2>2. CASE ~(lo + d >= WORD)
    <3>1. acc'[3] = acc[3]
        BY <2>2, <1>4, <1>5, Carry
    <3>2. QED
        BY <2>2, <3>1
  <2>3. QED
      BY <2>1, <2>2
<1>10. acc'[5] = IF lo + d >= WORD THEN lo + d - WORD ELSE lo + d
    BY <1>4, <1>5, Carry
<1> HIDE DEF hi
<1>11. (hi * WORD + lo + d) % (WORD * WORD) =
          IF lo + d < WORD THEN hi * WORD + (lo + d)
          ELSE (IF hi = WORD - 1 THEN 0 ELSE hi + 1) * WORD + (lo + d - WORD)
    BY <1>4, <1>5, <1>6, WideAdd
<1>12. total' = (hi * WORD + lo + d) % (WORD * WORD)
  <2>1. CASE lo + d >= WORD
    <3>1. total' = (IF hi = WORD - 1 THEN 0 ELSE hi + 1) * WORD + (lo + d - WORD)
        BY <2>1, <1>8, <1>9, <1>10
    <3>2. ~(lo + d < WORD)
        BY <2>1, <1>4, <1>5, WordAssumption DEF Word
    <3>3. QED
        BY <3>1, <3>2, <1>11
  <2>2. CASE lo + d < WORD
      BY <2>2, <1>4, <1>5, <1>8, <1>9, <1>10, <1>11, WordAssumption DEF Word
  <2>3. QED
      BY <2>1, <2>2, <1>4, <1>5, WordAssumption DEF Word
<1>13. total' = (total + d) % (WORD * WORD)
    BY <1>7, <1>12
<1>14. QED
    BY <1>2, <1>3, <1>4, <1>13 DEF d

(* acc[3] and acc[5] implement the double-width sum of the words of the    *)
(* region: every word is added, once and in order, and no carry is lost,   *)
(* for every word width, region, chunk size and image.                     *)
THEOREM SumIsWide == Spec => ImplementsWideSum
<1> USE DEF Wide!vars, Wide!Add, Wide!Init
<1>1. Init => Wide!Init
  <2> SUFFICES ASSUME Init PROVE Wide!Init
      OBVIOUS
  <2>1. SEED \in Nat /\ SEED < WORD * WORD
    <3>1. WORD <= WORD * WORD
        BY WordAssumption
    <3>2. QED
        BY <3>1, WordAssumption DEF Word
  <2>2. WORD * WORD \in Nat
      BY WordAssumption
  <2>3. QED
      BY <2>1, <2>2 DEF Init
<1>2. IInv /\ [Next]_vars => [Wide!Add]_(Wide!vars)
  <2> SUFFICES ASSUME IInv, [Next]_vars
               PROVE  Wide!Add \/ UNCHANGED <<Held, added, total>>
      BY DEF added, total
  <2>1. CASE MixWord
      BY <2>1, MixWordAdds DEF added, total
  <2>2. CASE DetectCic
      BY <2>2, DetectCicSum
  <2>3. CASE ReadBoot \/ ReadChunk \/ ChunkDone \/ Finish \/ UNCHANGED vars
    <3>1. UNCHANGED <<request, state>>
        BY <2>3 DEF ReadBoot, ReadChunk, ChunkDone, Finish, vars, state, Fail
    <3>2. QED
        BY <3>1, Stutter
  <2>4. QED
      BY <2>1, <2>2, <2>3 DEF Next
<1>3. QED
    BY <1>1, <1>2, Invariance, PTL DEF Spec, ImplementsWideSum, Wide!Spec

-----------------------------------------------------------------------------
(* Functions defined by their value for the number before. *)

(* Every set of numbers that is not empty has a least one. *)
LEMMA LeastOf ==
    ASSUME NEW T \in SUBSET Nat, T # {}
    PROVE  \E m \in T : \A k \in T : m <= k
<1> DEFINE R == StrictSubsetOrdering(Nat)
           S == FiniteSubsetsOf(Nat)
           Q == {0..t : t \in T}
<1>1. IsWellFoundedOn(R, S)
    BY FS_StrictSubsetOrderingWellFounded, Zenon
<1>2. Q \subseteq S
  <2>1. ASSUME NEW t \in T
        PROVE  0..t \in S
    <3>1. IsFiniteSet(0..t) /\ 0..t \in SUBSET Nat
        BY FS_Interval
    <3>2. QED
        BY <3>1 DEF FiniteSubsetsOf
  <2>2. QED
    BY <2>1
<1>3. Q # {}
    OBVIOUS
<1>4. \E x \in Q : \A y \in Q : ~(<<y, x>> \in R)
  <2> HIDE DEF R, S, Q
  <2>1. QED
    BY <1>1, <1>2, <1>3, WFMin, Zenon
<1>5. PICK m \in T : \A k \in T : ~(<<0..k, 0..m>> \in R)
    BY <1>4
<1>6. ASSUME NEW k \in T
      PROVE  m <= k
  <2>1. k \in Nat /\ m \in Nat
    OBVIOUS
  <2>2. SUFFICES ASSUME k < m
                 PROVE  FALSE
    BY <2>1
  <2>3. 0..k \subseteq 0..m /\ 0..k # 0..m
    <3>1. 0..k \subseteq 0..m
        BY <2>1, <2>2
    <3>2. m \in 0..m /\ m \notin 0..k
        BY <2>1, <2>2
    <3>3. QED
        BY <3>1, <3>2
  <2>4. 0..k \in SUBSET Nat /\ 0..m \in SUBSET Nat
    OBVIOUS
  <2>5. <<0..k, 0..m>> \in R
    BY <2>3, <2>4, Zenon DEF StrictSubsetOrdering
  <2>6. QED
    BY <1>5, <2>5
<1>7. QED
    BY <1>6

(* Induction, over a set rather than a predicate. *)
LEMMA Induction ==
    ASSUME NEW G, 0 \in G, \A n \in Nat : n \in G => n + 1 \in G
    PROVE  Nat \subseteq G
<1> DEFINE T == {n \in Nat : n \notin G}
<1>1. SUFFICES ASSUME T # {}
               PROVE  FALSE
    OBVIOUS
<1>2. PICK m \in T : \A k \in T : m <= k
    BY <1>1, LeastOf
<1>3. m \in Nat /\ m \notin G /\ m # 0
    BY <1>2
<1>4. m - 1 \in Nat /\ m - 1 \notin T
    BY <1>2, <1>3
<1>5. (m - 1) + 1 \in G
    BY <1>4
<1>6. (m - 1) + 1 = m
    BY <1>3
<1>7. QED
    BY <1>3, <1>5, <1>6

(* A function of a number that is defined by its value for the number      *)
(* before exists, and keeps to the values that each round keeps to.        *)
IsFold(f, m, s, F) == f[0] = s /\ \A n \in 1..m : f[n] = F[n][f[n - 1]]

LEMMA FoldExists ==
    ASSUME NEW m \in Nat, NEW V, NEW s \in V, NEW F \in [1..m -> [V -> V]]
    PROVE  \E f \in [0..m -> V] : IsFold(f, m, s, F)
<1> DEFINE G == {k \in Nat : k <= m => \E f \in [0..k -> V] : IsFold(f, k, s, F)}
<1>1. 0 \in G
  <2> DEFINE f == [n \in 0..0 |-> s]
  <2>1. f \in [0..0 -> V] /\ IsFold(f, 0, s, F)
    BY DEF IsFold
  <2> HIDE DEF f
  <2>2. QED
    BY <2>1
<1>2. ASSUME NEW k \in Nat, k \in G
      PROVE  k + 1 \in G
  <2> SUFFICES ASSUME k + 1 <= m
               PROVE  \E f \in [0..(k + 1) -> V] : IsFold(f, k + 1, s, F)
    OBVIOUS
  <2>1. PICK g \in [0..k -> V] : IsFold(g, k, s, F)
    BY <1>2
  <2> DEFINE h == [n \in 0..(k + 1) |-> IF n = k + 1 THEN F[k + 1][g[k]] ELSE g[n]]
  <2>2. k \in 0..k /\ g[k] \in V /\ k + 1 \in 1..m
    BY <2>1
  <2>3. F[k + 1][g[k]] \in V
    BY <2>2
  <2>4. h \in [0..(k + 1) -> V]
    BY <2>1, <2>3
  <2>5. \A n \in 0..k : h[n] = g[n]
    OBVIOUS
  <2>6. h[k + 1] = F[k + 1][g[k]]
    OBVIOUS
  <2> HIDE DEF h
  <2>7. ASSUME NEW n \in 1..(k + 1)
        PROVE  h[n] = F[n][h[n - 1]]
    <3>1. CASE n = k + 1
      <4>1. n - 1 = k /\ h[k] = g[k]
          BY <2>2, <2>5, <3>1
      <4>2. QED
          BY <2>6, <3>1, <4>1
    <3>2. CASE n \in 1..k
      <4>1. n - 1 \in 0..k /\ n \in 0..k
          BY <3>2
      <4>2. h[n] = g[n] /\ h[n - 1] = g[n - 1] /\ g[n] = F[n][g[n - 1]]
          BY <2>1, <2>5, <3>2, <4>1 DEF IsFold
      <4>3. QED
          BY <4>2
    <3>3. QED
        BY <3>1, <3>2
  <2>8. h[0] = s
    BY <2>1, <2>5 DEF IsFold
  <2>9. QED
    BY <2>4, <2>7, <2>8 DEF IsFold
<1>3. Nat \subseteq G
  <2> HIDE DEF G
  <2>1. QED
    BY <1>1, <1>2, Induction
<1>4. QED
    BY <1>3

(* Two that go the same way are the same. *)
InStep(f, g, m) == f[0] = g[0] /\ \A n \in 1..m : f[n - 1] = g[n - 1] => f[n] = g[n]
Agree(f, g, m) == \A n \in 0..m : f[n] = g[n]

LEMMA SameFold ==
    ASSUME NEW m \in Nat, NEW f, NEW g, InStep(f, g, m)
    PROVE  Agree(f, g, m)
<1> DEFINE G == {n \in Nat : n <= m => f[n] = g[n]}
<1>1. 0 \in G
    BY DEF InStep
<1>2. ASSUME NEW n \in Nat, n \in G
      PROVE  n + 1 \in G
  <2>1. (n + 1) - 1 = n
    OBVIOUS
  <2>2. n + 1 <= m => n + 1 \in 1..m /\ f[n] = g[n]
    BY <1>2
  <2>3. n + 1 <= m => f[n + 1] = g[n + 1]
    BY <2>1, <2>2 DEF InStep
  <2>4. QED
    BY <2>3
<1>3. Nat \subseteq G
  <2> HIDE DEF G
  <2>1. QED
    BY <1>1, <1>2, Induction
<1>4. QED
    BY <1>3 DEF Agree

(* The powers of two that a word has bits for. *)
Doubled(f, n) == 2 * f[n - 1]
IsPowers(f) == f = [n \in 0..BITS |-> IF n = 0 THEN 1 ELSE Doubled(f, n)]

LEMMA Powers ==
    /\ Pow2[0] = 1
    /\ \A n \in 0..BITS : Pow2[n] \in Nat \ {0}
    /\ \A n \in 1..BITS : Pow2[n] = 2 * Pow2[n - 1]
<1> DEFINE V == Nat \ {0}
           F == [n \in 1..BITS |-> [v \in V |-> 2 * v]]
<1>1. BITS \in Nat \ {0}
    BY WidthAssumption
<1>2. F \in [1..BITS -> [V -> V]] /\ 1 \in V
    OBVIOUS
<1>3. PICK f \in [0..BITS -> V] : IsFold(f, BITS, 1, F)
  <2> HIDE DEF F, V
  <2>1. QED
    BY <1>1, <1>2, FoldExists
<1>4. f[0] = 1
    BY <1>3 DEF IsFold
<1>5. \A n \in 1..BITS : f[n] = Doubled(f, n)
  <2> TAKE n \in 1..BITS
  <2>1. f[n] = F[n][f[n - 1]]
    BY <1>3 DEF IsFold
  <2>2. n - 1 \in 0..BITS /\ f[n - 1] \in V
    BY <1>1, <1>3
  <2>3. QED
    BY <2>1, <2>2 DEF Doubled
<1>6. IsPowers(f)
  <2>1. f = [n \in 0..BITS |-> f[n]]
    BY <1>3
  <2>2. \A n \in 0..BITS : f[n] = IF n = 0 THEN 1 ELSE Doubled(f, n)
    BY <1>1, <1>4, <1>5
  <2>3. QED
    BY <2>1, <2>2 DEF IsPowers
<1>7. IsPowers(Pow2)
  <2>1. Pow2 = CHOOSE g : IsPowers(g)
    BY Zenon DEF Pow2, IsPowers, Doubled
  <2>2. QED
    BY <1>6, <2>1, Zenon
<1>8. Pow2[0] = 1
    BY <1>1, <1>7 DEF IsPowers
<1>9. \A n \in 1..BITS : Pow2[n] = Doubled(Pow2, n)
    BY <1>1, <1>7 DEF IsPowers
<1>10. InStep(Pow2, f, BITS)
    BY <1>4, <1>5, <1>8, <1>9 DEF Doubled, InStep
<1>11. Agree(Pow2, f, BITS)
    BY <1>1, <1>10, SameFold
<1>12. QED
    BY <1>3, <1>8, <1>9, <1>11 DEF Doubled, Agree

(* A shift to the left by what a shift to the right leaves fills the word. *)
LEMMA Complements == \A b \in 0..BITS : Pow2[b] * Pow2[BITS - b] = WORD
<1> DEFINE G == {b \in Nat : b <= BITS => Pow2[b] * Pow2[BITS - b] = WORD}
<1>1. BITS \in Nat /\ Pow2[BITS] = WORD
    BY WidthAssumption
<1>2. 0 \in G
  <2>1. BITS - 0 = BITS /\ 1 * WORD = WORD
    BY <1>1, WordAssumption
  <2>2. QED
    BY <1>1, <2>1, Powers
<1>3. ASSUME NEW b \in Nat, b \in G
      PROVE  b + 1 \in G
  <2> SUFFICES ASSUME b + 1 <= BITS
               PROVE  Pow2[b + 1] * Pow2[BITS - (b + 1)] = WORD
    OBVIOUS
  <2> DEFINE p == Pow2[b]
             q == Pow2[BITS - (b + 1)]
  <2>1. /\ b \in 0..BITS /\ b + 1 \in 1..BITS /\ (b + 1) - 1 = b
        /\ BITS - b \in 1..BITS /\ BITS - (b + 1) \in 0..BITS /\ (BITS - b) - 1 = BITS - (b + 1)
    BY <1>1
  <2>2. p \in Nat /\ q \in Nat
    BY <2>1, Powers
  <2>3. Pow2[b + 1] = 2 * p /\ Pow2[BITS - b] = 2 * q
    BY <2>1, Powers
  <2>4. p * (2 * q) = WORD
    BY <1>1, <1>3, <2>1, <2>3
  <2> HIDE DEF p, q
  <2>5. (2 * p) * q = p * (2 * q)
    BY <2>2
  <2>6. QED
    BY <2>3, <2>4, <2>5 DEF q
<1>4. Nat \subseteq G
  <2> HIDE DEF G
  <2>1. QED
    BY <1>2, <1>3, Induction
<1>5. QED
    BY <1>1, <1>4

(* A rotation of a word is a word: what was shifted out comes back below   *)
(* what was shifted up.                                                    *)
LEMMA RotationIsWord ==
    ASSUME NEW a \in Word, NEW b \in 0..(BITS - 1)
    PROVE  zelda64_rot32(a, b) \in Word
<1> DEFINE p == Pow2[b]
           q == Pow2[BITS - b]
           u == a \div q
           v == a % q
<1>1. BITS \in Nat /\ b \in 0..BITS /\ BITS - b \in 0..BITS
    BY WidthAssumption
<1>2. p \in Nat \ {0} /\ q \in Nat \ {0} /\ p * q = WORD /\ WORD \in Nat /\ a \in Nat /\ a < WORD
    BY <1>1, Powers, Complements, WordAssumption DEF Word
<1> HIDE DEF p, q
<1>3. u \in Nat /\ v \in 0..(q - 1) /\ a = q * u + v
    BY <1>2
<1> HIDE DEF u, v
<1>4. u < p
  <2>1. SUFFICES ASSUME u >= p PROVE FALSE
    BY <1>2, <1>3
  <2>2. q * u >= q * p
    BY <1>2, <1>3, <2>1
  <2>3. q * p = p * q
    BY <1>2
  <2>4. QED
    BY <1>2, <1>3, <2>2, <2>3
<1>5. a * p = WORD * u + p * v
  <2>1. a * p = (q * u + v) * p
    BY <1>3
  <2>2. (q * u + v) * p = (p * q) * u + p * v
    BY <1>2, <1>3
  <2>3. QED
    BY <1>2, <2>1, <2>2
<1>6. p * v \in 0..(WORD - p)
  <2>1. p * v <= p * (q - 1) /\ p * v \in Nat
    BY <1>2, <1>3
  <2>2. p * (q - 1) = p * q - p
    BY <1>2
  <2>3. QED
    BY <1>2, <2>1, <2>2
<1>7. (a * p) % WORD = p * v
  <2> DEFINE w == p * v
  <2>1. w \in Nat /\ w < WORD
    BY <1>2, <1>6
  <2> HIDE DEF w
  <2>2. (WORD * u + w) % WORD = w
    BY <1>2, <1>3, <2>1
  <2>3. QED
    BY <1>5, <2>2 DEF w
<1>8. p * v + u \in Word
    BY <1>2, <1>3, <1>4, <1>6 DEF Word
<1>9. CASE b = 0
    BY <1>9 DEF zelda64_rot32
<1>10. CASE b # 0
  <2>1. zelda64_rot32(a, b) = ((a * p) % WORD) + u
    BY <1>10, Zenon DEF zelda64_rot32, p, q, u
  <2>2. QED
    BY <1>7, <1>8, <2>1
<1>11. QED
    BY <1>9, <1>10

(* Xor is defined by halving both words, and keeps to their bits. *)
Square(k) == (0..(Pow2[k] - 1)) \X (0..(Pow2[k] - 1))
Half(p) == <<p[1] \div 2, p[2] \div 2>>
Bit(p) == (p[1] + p[2]) % 2
XorStep(f, p) == Bit(p) + 2 * f[Half(p)]
IsXor(f, k) == f = [p \in Square(k) |-> IF p = <<0, 0>> THEN 0 ELSE XorStep(f, p)]

LEMMA HalfIs ==
    ASSUME NEW k \in 1..BITS, NEW p \in Square(k)
    PROVE  Half(p) \in Square(k - 1) /\ Bit(p) \in {0, 1}
<1>1. /\ Pow2[k - 1] \in Nat \ {0} /\ Pow2[k] = 2 * Pow2[k - 1]
    BY Powers, WidthAssumption
<1> DEFINE a == p[1]
           b == p[2]
<1>2. a \in 0..(Pow2[k] - 1) /\ b \in 0..(Pow2[k] - 1)
    BY DEF Square
<1> HIDE DEF a, b
<1>3. a \div 2 \in 0..(Pow2[k - 1] - 1) /\ b \div 2 \in 0..(Pow2[k - 1] - 1)
    BY <1>1, <1>2
<1>4. (a + b) % 2 \in {0, 1}
    BY <1>1, <1>2
<1>5. QED
    BY <1>3, <1>4 DEF a, b, Half, Bit, Square

LEMMA XorExists == \A k \in 0..BITS : \E f : IsXor(f, k)
<1> DEFINE G == {k \in Nat : k <= BITS => \E f : IsXor(f, k)}
<1>1. 0 \in G
  <2> DEFINE f == [p \in Square(0) |-> 0]
  <2>1. \A p \in Square(0) : p = <<0, 0>>
    BY Powers DEF Square
  <2>2. IsXor(f, 0)
    BY <2>1 DEF IsXor
  <2>3. QED
    BY <2>2
<1>2. ASSUME NEW k \in Nat, k \in G
      PROVE  k + 1 \in G
  <2> SUFFICES ASSUME k + 1 <= BITS
               PROVE  \E f : IsXor(f, k + 1)
    OBVIOUS
  <2>1. k + 1 \in 1..BITS /\ (k + 1) - 1 = k /\ k \in 0..BITS
    BY WidthAssumption
  <2>2. PICK g : IsXor(g, k)
    BY <1>2, <2>1
  <2> DEFINE h == [p \in Square(k + 1) |-> IF p = <<0, 0>> THEN 0 ELSE XorStep(g, p)]
  <2>3. Square(k) \subseteq Square(k + 1)
    <3>1. Pow2[k] \in Nat /\ Pow2[k + 1] = 2 * Pow2[k]
        BY <2>1, Powers
    <3>2. QED
        BY <3>1 DEF Square
  <2>4. ASSUME NEW p \in Square(k)
        PROVE  h[p] = g[p]
    <3>1. g[p] = IF p = <<0, 0>> THEN 0 ELSE XorStep(g, p)
        BY <2>2 DEF IsXor
    <3>2. h[p] = IF p = <<0, 0>> THEN 0 ELSE XorStep(g, p)
        BY <2>3
    <3>3. QED
        BY <3>1, <3>2, Zenon
  <2>5. ASSUME NEW p \in Square(k + 1)
        PROVE  h[p] = IF p = <<0, 0>> THEN 0 ELSE XorStep(h, p)
    <3>1. h[p] = IF p = <<0, 0>> THEN 0 ELSE XorStep(g, p)
        OBVIOUS
    <3>2. Half(p) \in Square(k)
        BY <2>1, HalfIs
    <3>3. h[Half(p)] = g[Half(p)]
        BY <2>4, <3>2
    <3> HIDE DEF h
    <3>4. XorStep(h, p) = XorStep(g, p)
        BY <3>3 DEF XorStep
    <3>5. QED
        BY <3>1, <3>4
  <2>6. h = [p \in Square(k + 1) |-> h[p]]
    OBVIOUS
  <2> HIDE DEF h
  <2>7. IsXor(h, k + 1)
    BY <2>5, <2>6 DEF IsXor
  <2>8. QED
    BY <2>7
<1>3. Nat \subseteq G
  <2> HIDE DEF G
  <2>1. QED
    BY <1>1, <1>2, Induction
<1>4. QED
    BY <1>3

LEMMA XorIsWord == \A a, b \in Word : xor(a, b) \in Word
<1> DEFINE G == {k \in Nat : k <= BITS => \A p \in Square(k) : Xor[p] \in 0..(Pow2[k] - 1)}
<1>1. BITS \in Nat \ {0} /\ BITS \in 0..BITS
    BY WidthAssumption
<1>2. Square(BITS) = Word \X Word
    BY WidthAssumption DEF Square, Word
<1>3. IsXor(Xor, BITS)
  <2>1. Xor = CHOOSE f : IsXor(f, BITS)
    BY <1>2, Zenon DEF Xor, IsXor, XorStep, Bit, Half
  <2>2. QED
    BY <1>1, <2>1, XorExists, Zenon
<1>4. \A p \in Square(BITS) : Xor[p] = IF p = <<0, 0>> THEN 0 ELSE XorStep(Xor, p)
    BY <1>3 DEF IsXor
<1>5. ASSUME NEW k \in 0..BITS
      PROVE  Square(k) \subseteq Square(BITS)
  <2> DEFINE H == {n \in Nat : k + n <= BITS => Pow2[k] <= Pow2[k + n]}
  <2>1. Pow2[k] \in Nat
    BY Powers
  <2>2. 0 \in H
    BY <2>1
  <2>3. ASSUME NEW n \in Nat, n \in H
        PROVE  n + 1 \in H
    <3> SUFFICES ASSUME k + (n + 1) <= BITS
                 PROVE  Pow2[k] <= Pow2[k + (n + 1)]
        OBVIOUS
    <3>1. k + n \in 0..BITS /\ k + (n + 1) \in 1..BITS /\ (k + (n + 1)) - 1 = k + n
        BY <1>1
    <3>2. Pow2[k + (n + 1)] = 2 * Pow2[k + n] /\ Pow2[k + n] \in Nat /\ Pow2[k] <= Pow2[k + n]
        BY <2>3, <3>1, Powers
    <3>3. QED
        BY <2>1, <3>2
  <2>4. Nat \subseteq H
    <3> HIDE DEF H
    <3>1. QED
        BY <2>2, <2>3, Induction
  <2>5. BITS - k \in Nat /\ k + (BITS - k) = BITS
    BY <1>1
  <2>6. Pow2[k] <= Pow2[BITS]
    BY <2>4, <2>5
  <2>7. QED
    BY <1>1, <2>1, <2>6, Powers DEF Square
<1>6. 0 \in G
  <2>1. \A p \in Square(0) : p = <<0, 0>>
    BY Powers DEF Square
  <2>2. Square(0) \subseteq Square(BITS)
    BY <1>1, <1>5
  <2>3. QED
    BY <1>4, <2>1, <2>2, Powers
<1>7. ASSUME NEW k \in Nat, k \in G
      PROVE  k + 1 \in G
  <2> SUFFICES ASSUME k + 1 <= BITS, NEW p \in Square(k + 1)
               PROVE  Xor[p] \in 0..(Pow2[k + 1] - 1)
    OBVIOUS
  <2>1. k + 1 \in 1..BITS /\ (k + 1) - 1 = k /\ k \in 0..BITS /\ k + 1 \in 0..BITS
    BY <1>1
  <2>2. Pow2[k] \in Nat \ {0} /\ Pow2[k + 1] = 2 * Pow2[k]
    BY <2>1, Powers
  <2>3. p \in Square(BITS)
    BY <1>5, <2>1
  <2>4. Half(p) \in Square(k) /\ Bit(p) \in {0, 1}
    BY <2>1, HalfIs
  <2>5. Xor[Half(p)] \in 0..(Pow2[k] - 1)
    BY <1>7, <2>1, <2>4
  <2>6. XorStep(Xor, p) \in 0..(Pow2[k + 1] - 1)
    BY <2>2, <2>4, <2>5 DEF XorStep
  <2>7. 0 \in 0..(Pow2[k + 1] - 1)
    BY <2>2
  <2>8. QED
    BY <1>4, <2>3, <2>6, <2>7
<1>8. Nat \subseteq G
  <2> HIDE DEF G
  <2>1. QED
    BY <1>6, <1>7, Induction
<1>9. QED
  <2>1. \A p \in Square(BITS) : Xor[p] \in 0..(Pow2[BITS] - 1)
    BY <1>1, <1>8
  <2>2. 0..(Pow2[BITS] - 1) = Word
    BY WidthAssumption DEF Word
  <2>3. \A a, b \in Word : <<a, b>> \in Square(BITS)
    BY <1>2
  <2>4. QED
    BY <2>1, <2>2, <2>3 DEF xor

(* What goes the way of F keeps to the values that F keeps to. *)
Follows(g, m, V, s, F) ==
    g[0] = s /\ \A n \in 1..m : g[n - 1] \in V => g[n] = F[n][g[n - 1]]

LEMMA FoldKeeps ==
    ASSUME NEW m \in Nat, NEW V, NEW s \in V, NEW F \in [1..m -> [V -> V]],
           NEW g, Follows(g, m, V, s, F)
    PROVE  \A n \in 0..m : g[n] \in V
<1>1. PICK f \in [0..m -> V] : IsFold(f, m, s, F)
    BY FoldExists
<1>2. InStep(g, f, m)
  <2>1. g[0] = f[0]
    BY <1>1 DEF IsFold, Follows
  <2>2. ASSUME NEW n \in 1..m, g[n - 1] = f[n - 1]
        PROVE  g[n] = f[n]
    <3>1. f[n - 1] \in V
        BY <1>1
    <3>2. QED
        BY <1>1, <2>2, <3>1 DEF IsFold, Follows
  <2>3. QED
    BY <2>1, <2>2 DEF InStep
<1>3. Agree(g, f, m)
    BY <1>2, SameFold
<1>4. QED
    BY <1>1, <1>3 DEF Agree

(* The sums of the words of s. *)
Added(f, s, n) == f[n - 1] + s[n]
IsSums(f, s) == f = [n \in 0..Len(s) |-> IF n = 0 THEN SEED ELSE Added(f, s, n)]

LEMMA SumsAre ==
    ASSUME NEW s, Len(s) \in Nat, \A n \in 1..Len(s) : s[n] \in Word
    PROVE  /\ Sums(s)[0] = SEED
           /\ \A n \in 0..Len(s) : Sums(s)[n] \in Nat
           /\ \A n \in 1..Len(s) : Sums(s)[n] = Sums(s)[n - 1] + s[n]
<1> DEFINE m == Len(s)
           F == [n \in 1..m |-> [v \in Nat |-> v + s[n]]]
           sums == Sums(s)
<1>1. m \in Nat /\ SEED \in Nat /\ \A n \in 1..m : s[n] \in Nat
    BY WordAssumption DEF Word
<1>2. F \in [1..m -> [Nat -> Nat]]
    BY <1>1
<1>3. \A n \in 1..m : \A v \in Nat : F[n][v] = v + s[n]
    OBVIOUS
<1> HIDE DEF F, m
<1>4. PICK f \in [0..m -> Nat] : IsFold(f, m, SEED, F)
    BY <1>1, <1>2, FoldExists
<1>5. IsSums(f, s)
  <2>1. f = [n \in 0..m |-> f[n]]
    BY <1>4
  <2>2. ASSUME NEW n \in 1..m
        PROVE  f[n] = Added(f, s, n)
    <3>1. f[n] = F[n][f[n - 1]]
        BY <1>4 DEF IsFold
    <3>2. n - 1 \in 0..m /\ f[n - 1] \in Nat
        BY <1>1, <1>4
    <3>3. F[n][f[n - 1]] = f[n - 1] + s[n]
        BY <1>3, <3>2
    <3>4. QED
        BY <3>1, <3>3 DEF Added
  <2>3. \A n \in 0..m : f[n] = IF n = 0 THEN SEED ELSE Added(f, s, n)
    BY <1>1, <1>4, <2>2 DEF IsFold
  <2>4. QED
    BY <2>1, <2>3 DEF IsSums, m
<1>6. IsSums(sums, s)
  <2>1. sums = CHOOSE g : IsSums(g, s)
    BY Zenon DEF Sums, IsSums, Added
  <2> HIDE DEF sums
  <2>2. QED
    BY <1>5, <2>1, Zenon
<1> HIDE DEF sums
<1>7. sums[0] = SEED
    BY <1>1, <1>6 DEF IsSums, m
<1>8. \A n \in 1..m : sums[n] = Added(sums, s, n)
    BY <1>1, <1>6 DEF IsSums, m
<1>9. Follows(sums, m, Nat, SEED, F)
    BY <1>3, <1>7, <1>8 DEF Added, Follows
<1>10. \A n \in 0..m : sums[n] \in Nat
    BY <1>1, <1>2, <1>9, FoldKeeps
<1>11. QED
    BY <1>7, <1>8, <1>10 DEF Added, sums, m

(* The words of s xored. *)
Xored(f, s, n) == xor(f[n - 1], s[n])
IsXors(f, s) == f = [n \in 0..Len(s) |-> IF n = 0 THEN SEED ELSE Xored(f, s, n)]

LEMMA XorsAre ==
    ASSUME NEW s, Len(s) \in Nat, \A n \in 1..Len(s) : s[n] \in Word
    PROVE  /\ Xors(s)[0] = SEED
           /\ \A n \in 1..Len(s) : Xors(s)[n] = xor(Xors(s)[n - 1], s[n])
<1> DEFINE m == Len(s)
           F == [n \in 1..m |-> [v \in Word |-> xor(v, s[n])]]
           xors == Xors(s)
<1>1. m \in Nat /\ SEED \in Word /\ \A n \in 1..m : s[n] \in Word
    BY WordAssumption
<1>2. F \in [1..m -> [Word -> Word]]
    BY <1>1, XorIsWord
<1>3. \A n \in 1..m : \A v \in Word : F[n][v] = xor(v, s[n])
    OBVIOUS
<1> HIDE DEF F, m
<1>4. PICK f \in [0..m -> Word] : IsFold(f, m, SEED, F)
    BY <1>1, <1>2, FoldExists
<1>5. IsXors(f, s)
  <2>1. f = [n \in 0..m |-> f[n]]
    BY <1>4
  <2>2. \A n \in 1..m : f[n] = Xored(f, s, n)
    BY <1>1, <1>3, <1>4 DEF IsFold, Xored
  <2>3. \A n \in 0..m : f[n] = IF n = 0 THEN SEED ELSE Xored(f, s, n)
    BY <1>1, <1>4, <2>2 DEF IsFold
  <2>4. QED
    BY <2>1, <2>3 DEF IsXors, m
<1>6. IsXors(xors, s)
  <2>1. xors = CHOOSE g : IsXors(g, s)
    BY Zenon DEF Xors, IsXors, Xored
  <2> HIDE DEF xors
  <2>2. QED
    BY <1>5, <2>1, Zenon
<1> HIDE DEF xors
<1>7. xors[0] = SEED
    BY <1>1, <1>6 DEF IsXors, m
<1>8. \A n \in 1..m : xors[n] = Xored(xors, s, n)
    BY <1>1, <1>6 DEF IsXors, m
<1>9. QED
    BY <1>7, <1>8 DEF Xored, xors, m

(* acc[1], which each word changes in one of two ways, by its own value.   *)
Chosen(v, s, n) ==
    IF v > s[n] THEN zelda64_rot32(s[n], s[n] % BITS) ELSE xor(Sums(s)[n] % WORD, s[n])
Linked(f, s, n) == xor(f[n - 1], Chosen(f[n - 1], s, n))
IsChained(f, s) == f = [n \in 0..Len(s) |-> IF n = 0 THEN SEED ELSE Linked(f, s, n)]

LEMMA ChainedIs ==
    ASSUME NEW s, Len(s) \in Nat, \A n \in 1..Len(s) : s[n] \in Word
    PROVE  /\ Chained(s)[0] = SEED
           /\ \A n \in 1..Len(s) : Chained(s)[n] = Linked(Chained(s), s, n)
<1> DEFINE m == Len(s)
           F == [n \in 1..m |-> [v \in Word |-> xor(v, Chosen(v, s, n))]]
           chain == Chained(s)
<1>1. m \in Nat /\ SEED \in Word /\ \A n \in 1..m : s[n] \in Word
    BY WordAssumption
<1>2. \A n \in 1..m : \A v \in Word : Chosen(v, s, n) \in Word
  <2> TAKE n \in 1..m
  <2> TAKE v \in Word
  <2>1. s[n] \in Word /\ s[n] \in Nat /\ s[n] % BITS \in 0..(BITS - 1)
    BY <1>1, WidthAssumption DEF Word
  <2>2. zelda64_rot32(s[n], s[n] % BITS) \in Word
    BY <2>1, RotationIsWord
  <2>3. Sums(s)[n] \in Nat
    BY <1>1, SumsAre
  <2>4. Sums(s)[n] % WORD \in Word
    BY <2>3, WordAssumption DEF Word
  <2>5. xor(Sums(s)[n] % WORD, s[n]) \in Word
    BY <2>1, <2>4, XorIsWord
  <2>6. QED
    BY <2>2, <2>5 DEF Chosen
<1>3. F \in [1..m -> [Word -> Word]]
  <2> HIDE DEF m
  <2>1. \A n \in 1..m : \A v \in Word : xor(v, Chosen(v, s, n)) \in Word
    BY <1>2, XorIsWord
  <2>2. QED
    BY <2>1
<1>4. \A n \in 1..m : \A v \in Word : F[n][v] = xor(v, Chosen(v, s, n))
    OBVIOUS
<1> HIDE DEF F, m
<1>5. PICK f \in [0..m -> Word] : IsFold(f, m, SEED, F)
    BY <1>1, <1>3, FoldExists
<1>6. IsChained(f, s)
  <2>1. f = [n \in 0..m |-> f[n]]
    BY <1>5
  <2>2. \A n \in 1..m : f[n] = Linked(f, s, n)
    BY <1>1, <1>4, <1>5 DEF IsFold, Linked
  <2>3. \A n \in 0..m : f[n] = IF n = 0 THEN SEED ELSE Linked(f, s, n)
    BY <1>1, <1>5, <2>2 DEF IsFold
  <2>4. QED
    BY <2>1, <2>3 DEF IsChained, m
<1>7. IsChained(chain, s)
  <2>1. chain = CHOOSE g : IsChained(g, s)
    BY Zenon DEF Chained, IsChained, Linked, Chosen
  <2> HIDE DEF chain
  <2>2. QED
    BY <1>6, <2>1, Zenon
<1> HIDE DEF chain
<1>8. chain[0] = SEED
    BY <1>1, <1>7 DEF IsChained, m
<1>9. \A n \in 1..m : chain[n] = Linked(chain, s, n)
    BY <1>1, <1>7 DEF IsChained, m
<1>10. QED
    BY <1>8, <1>9 DEF chain, m

-----------------------------------------------------------------------------
-----------------------------------------------------------------------------
(* What the accumulators hold. *)

TypeInv ==
    /\ pc \in {"boot", "cic", "read", "mix", "done"}
    /\ error \in {"OK", "INVALID_ROM", "TRUNCATED", "ERRNO", "UNSUPPORTED_CIC"}
    /\ Len(ipl) \in {0, START - BOOT_START}
    /\ Len(chunk) <= CHUNK /\ i \in 0..Len(chunk)
    /\ \A k \in 0..5 : acc[k] \in Word

(* The window is the image's own boot code. *)
BootInv ==
    /\ pc = "cic" \/ at # 0 =>
          /\ Exists(BOOT_START, START - BOOT_START)
          /\ ipl = Region(BOOT_START, START - BOOT_START)
    /\ at # 0 => at <= Len(rom)

(* The first k words of s were mixed. *)
Mixes(a, s, k) ==
    /\ a[5] = Sums(s)[k] % WORD
    /\ a[3] = (SEED + Sums(s)[k] \div WORD) % WORD
    /\ a[2] = Xors(s)[k]
    /\ a[4] = Sums(Rotated(s))[k] % WORD
    /\ a[1] = Chained(s)[k]
    /\ a[0] = Sums(Windowed(s))[k] % WORD

MixInv == at # 0 => Mixes(acc, Held, at - START)

FoldInv == TypeInv /\ BootInv /\ MixInv /\ CodeIsOfTheRegion

LEMMA FoldInit == Init => FoldInv
<1> SUFFICES ASSUME Init
             PROVE  FoldInv
    OBVIOUS
<1>1. \A k \in 0..5 : acc[k] \in Word
    BY WordAssumption DEF Init, Word
<1>2. CHUNK \in Nat
    BY RegionAssumption
<1>3. QED
    BY <1>1, <1>2 DEF Init, FoldInv, TypeInv, BootInv, MixInv, CodeIsOfTheRegion

LEMMA ImageIs ==
    ASSUME IInv
    PROVE  rom \in Seq(Word) /\ Len(rom) \in Nat
BY RequestsAssumption DEF IInv, rom, IsImage

(* What the image holds of the region is words. *)
LEMMA HeldIs ==
    ASSUME IInv, START <= Len(rom)
    PROVE  /\ Len(Held) \in Nat
           /\ START + Len(Held) = IF END < Len(rom) THEN END ELSE Len(rom)
           /\ \A k \in 1..Len(Held) : Held[k] \in Word /\ Held[k] = rom[START + k]
<1> DEFINE last == IF END < Len(rom) THEN END ELSE Len(rom)
<1>1. START \in Nat /\ END \in Nat /\ START <= END /\ rom \in Seq(Word) /\ Len(rom) \in Nat
    BY RegionAssumption, ImageIs
<1>2. last \in Nat /\ START <= last /\ last <= Len(rom)
    BY <1>1
<1>3. Held = SubSeq(rom, START + 1, last)
    BY DEF Held
<1>4. \A k \in 1..Len(rom) : rom[k] \in Word
    BY <1>1
<1> HIDE DEF last
<1>5. Len(Held) = last - START /\ \A k \in 1..(last - START) : Held[k] = rom[START + k]
    BY <1>1, <1>2, <1>3, Cut
<1>6. \A k \in 1..(last - START) : START + k \in 1..Len(rom)
    BY <1>1, <1>2
<1>7. QED
    BY <1>1, <1>2, <1>4, <1>5, <1>6 DEF last

(* Adding up words modulo the word, and counting what that loses.          *)
LEMMA Wraps ==
    ASSUME NEW x \in Nat, NEW d \in Word
    PROVE  /\ ((x % WORD) + d) % WORD = (x + d) % WORD
           /\ (x + d) \div WORD = (x \div WORD) + (IF (x % WORD) + d >= WORD THEN 1 ELSE 0)
<1> DEFINE q == x \div WORD
           r == x % WORD
<1>1. WORD \in Nat /\ WORD > 1 /\ d \in Nat /\ d < WORD
    BY WordAssumption DEF Word
<1>2. q \in Nat /\ r \in 0..(WORD - 1) /\ x = WORD * q + r
    BY <1>1
<1> HIDE DEF q, r
<1>3. CASE r + d < WORD
  <2>1. (WORD * q + (r + d)) % WORD = r + d /\ (WORD * q + (r + d)) \div WORD = q
    BY <1>1, <1>2, <1>3
  <2>2. x + d = WORD * q + (r + d)
    BY <1>1, <1>2
  <2>3. (r + d) % WORD = r + d
    BY <1>1, <1>2, <1>3
  <2>4. (x + d) \div WORD = q /\ (x + d) % WORD = r + d
    BY <2>1, <2>2
  <2>5. QED
    BY <1>1, <1>2, <1>3, <2>3, <2>4 DEF q, r
<1>4. CASE r + d >= WORD
  <2> DEFINE e == r + d - WORD
  <2>1. e \in Nat /\ e < WORD /\ r + d = e + WORD
    BY <1>1, <1>2, <1>4
  <2> DEFINE u == q + 1
  <2>2. x + d = WORD * u + e
    <3>1. WORD * u = WORD * q + WORD
        BY <1>1, <1>2
    <3>2. WORD * q \in Nat
        BY <1>1, <1>2
    <3> HIDE DEF u
    <3>3. QED
        BY <1>1, <1>2, <3>1, <3>2
  <2>3. u \in Nat
    BY <1>2
  <2> HIDE DEF e, u
  <2>4. (WORD * u + e) % WORD = e /\ (WORD * u + e) \div WORD = u
    BY <1>1, <2>1, <2>3
  <2>5. (e + WORD) % WORD = e
    BY <1>1, <2>1
  <2>6. (x + d) \div WORD = q + 1 /\ (x + d) % WORD = e
    BY <2>2, <2>4 DEF u
  <2>7. (r + d) % WORD = e
    BY <2>1, <2>5
  <2>8. QED
    BY <1>4, <2>6, <2>7 DEF q, r
<1>5. QED
    BY <1>1, <1>2, <1>3, <1>4

(* The word of the boot code that goes with the next word.                 *)
LEMMA BootWordIs ==
    ASSUME IInv, BootInv, at \in Nat, at >= START
    PROVE  /\ BootWord = rom[BOOT_START + WINDOW_AT + (at % WINDOW) + 1]
           /\ BootWord \in Word
<1> DEFINE o == at % WINDOW
           n == START - BOOT_START
<1>1. /\ {BOOT_START, WINDOW_AT, WINDOW, START} \subseteq Nat /\ WINDOW > 0 /\ START > 0
      /\ WINDOW_AT + WINDOW <= START - BOOT_START
    BY WindowAssumption, RegionAssumption
<1>2. rom \in Seq(Word) /\ Len(rom) \in Nat
    BY ImageIs
<1>3. o \in 0..(WINDOW - 1)
    BY <1>1
<1>4. at # 0 /\ n \in Nat /\ BOOT_START + n = START
    BY <1>1
<1> HIDE DEF o, n
<1>5. BOOT_START + n <= Len(rom) /\ ipl = SubSeq(rom, BOOT_START + 1, BOOT_START + n)
    BY <1>4 DEF BootInv, Exists, Region, n
<1>6. WINDOW_AT + o + 1 \in 1..n
    BY <1>1, <1>3, <1>4 DEF n
<1>7. ipl[WINDOW_AT + o + 1] = rom[BOOT_START + (WINDOW_AT + o + 1)]
  <2> DEFINE b == BOOT_START + n
             w == WINDOW_AT + o + 1
  <2>1. b \in Nat /\ b - BOOT_START = n /\ BOOT_START \in Nat
    BY <1>1, <1>4
  <2>2. b <= Len(rom) /\ ipl = SubSeq(rom, BOOT_START + 1, b)
    BY <1>5
  <2>3. w \in 1..(b - BOOT_START)
    BY <1>6, <2>1
  <2> HIDE DEF b, w
  <2>4. \A k \in 1..(b - BOOT_START) : SubSeq(rom, BOOT_START + 1, b)[k] = rom[BOOT_START + k]
    BY <1>2, <2>1, <2>2, Cut
  <2>5. ipl[w] = rom[BOOT_START + w]
    BY <2>2, <2>3, <2>4
  <2>6. QED
    BY <2>5 DEF w
<1>8. BOOT_START + (WINDOW_AT + o + 1) = BOOT_START + WINDOW_AT + o + 1
    BY <1>1, <1>3
<1>9. BOOT_START + WINDOW_AT + o + 1 \in 1..Len(rom)
  <2>1. BOOT_START \in Nat /\ WINDOW_AT \in Nat /\ o \in Nat
    BY <1>1, <1>3
  <2>2. WINDOW_AT + o + 1 <= n
    BY <1>4, <1>6
  <2>3. QED
    BY <1>2, <1>4, <1>5, <2>1, <2>2
<1>10. QED
    BY <1>2, <1>7, <1>8, <1>9 DEF BootWord, o

(* The rotated words and those of the window are words as well. *)
LEMMA WordsOfRegion ==
    ASSUME IInv, START <= Len(rom)
    PROVE  /\ Len(Rotated(Held)) = Len(Held) /\ Len(Windowed(Held)) = Len(Held)
           /\ \A k \in 1..Len(Held) :
                 /\ Rotated(Held)[k] = zelda64_rot32(Held[k], Held[k] % BITS)
                 /\ Rotated(Held)[k] \in Word
<1>1. Len(Held) \in Nat /\ \A k \in 1..Len(Held) : Held[k] \in Word
    BY HeldIs
<1>2. \A d \in Word : zelda64_rot32(d, d % BITS) \in Word
  <2> TAKE d \in Word
  <2>1. d % BITS \in 0..(BITS - 1)
    BY WidthAssumption DEF Word
  <2>2. QED
    BY <2>1, RotationIsWord
<1>3. Len(Rotated(Held)) = Len(Held) /\ Len(Windowed(Held)) = Len(Held)
    BY <1>1 DEF Rotated, Windowed
<1>4. \A k \in 1..Len(Held) : Rotated(Held)[k] = zelda64_rot32(Held[k], Held[k] % BITS)
    BY <1>1 DEF Rotated
<1>5. QED
    BY <1>1, <1>2, <1>3, <1>4

LEMMA WindowIsWord ==
    ASSUME IInv, Exists(BOOT_START, START - BOOT_START)
    PROVE  \A k \in 1..Len(Held) :
              /\ Windowed(Held)[k] =
                    xor(rom[BOOT_START + WINDOW_AT + ((START + k - 1) % WINDOW) + 1], Held[k])
              /\ Windowed(Held)[k] \in Word
<1>1. /\ BOOT_START \in Nat /\ WINDOW_AT \in Nat /\ WINDOW \in Nat /\ START \in Nat /\ WINDOW > 0
      /\ WINDOW_AT + WINDOW <= START - BOOT_START
    BY WindowAssumption, RegionAssumption
<1>2. rom \in Seq(Word) /\ Len(rom) \in Nat
    BY ImageIs
<1>3. START <= Len(rom)
  <2>1. BOOT_START + (START - BOOT_START) <= Len(rom)
    BY DEF BootInv, Exists
  <2>2. QED
    BY <1>1, <2>1
<1>4. Len(Held) \in Nat /\ \A k \in 1..Len(Held) : Held[k] \in Word
    BY <1>3, HeldIs
<1>5. ASSUME NEW k \in 1..Len(Held)
      PROVE  rom[BOOT_START + WINDOW_AT + ((START + k - 1) % WINDOW) + 1] \in Word
  <2> DEFINE o == (START + k - 1) % WINDOW
  <2>1. START + k - 1 \in Nat
    BY <1>1, <1>4
  <2>2. o \in 0..(WINDOW - 1)
    BY <1>1, <2>1
  <2> HIDE DEF o
  <2>3. BOOT_START + WINDOW_AT + o + 1 \in 1..Len(rom)
    BY <1>1, <1>2, <1>3, <2>2
  <2>4. QED
    BY <1>2, <2>3 DEF o
<1>6. ASSUME NEW k \in 1..Len(Held)
      PROVE  Windowed(Held)[k] =
                xor(rom[BOOT_START + WINDOW_AT + ((START + k - 1) % WINDOW) + 1], Held[k])
    BY DEF Windowed
<1>7. QED
    BY <1>4, <1>5, <1>6, XorIsWord

(* What one round does, with the word it mixes. *)
LEMMA RoundMixes ==
    ASSUME IInv, TypeInv, BootInv, MixWord,
           NEW k, k = at - START, Mixes(acc, Held, k)
    PROVE  Mixes(acc', Held, k + 1)
<1> DEFINE s == Held
           d == s[k + 1]
           r == zelda64_rot32(d, d % BITS)
<1>1. /\ at \in START..END /\ START \in Nat \ {0} /\ at = offset + i /\ i \in Nat /\ offset \in Nat
      /\ i < Want /\ offset + Want <= Len(rom) /\ Want \in Nat
  <2>1. i < Want /\ i \in Nat
    BY ChunkIsThere DEF MixWord
  <2>2. QED
    BY <2>1, ChunkIsThere, RegionAssumption DEF Exists, MixWord
<1>2. at # 0 /\ k \in Nat /\ START <= Len(rom) /\ at = START + k
    BY <1>1, ImageIs
<1>3. Len(s) \in Nat /\ k + 1 \in 1..Len(s) /\ (k + 1) - 1 = k /\ k \in 0..Len(s)
  <2>1. k < Len(s)
    BY <1>2, MixWordSum
  <2>2. QED
    BY <1>2, <2>1, HeldIs
<1>4. d \in Word /\ \A n \in 1..Len(s) : s[n] \in Word
    BY <1>2, <1>3, HeldIs
<1>5. acc' = Mixed(d)
  <2>1. at = offset + i /\ chunk = Region(offset, Want)
    BY ChunkIsThere DEF MixWord
  <2>2. Region(offset, Want)[i + 1] = Held[offset + i - START + 1]
    BY <1>1, ChunkIsThere, ChunkInHeld DEF MixWord
  <2>3. offset + i - START + 1 = k + 1
    BY <1>1, <1>2
  <2>4. QED
    BY <2>1, <2>2, <2>3 DEF MixWord
<1> HIDE DEF s, d, r
<1>6. /\ acc'[5] = (acc[5] + d) % WORD
      /\ acc'[3] = IF Carries(acc[5], d) THEN (acc[3] + 1) % WORD ELSE acc[3]
      /\ acc'[2] = xor(acc[2], d)
      /\ acc'[4] = (acc[4] + r) % WORD
      /\ acc'[1] = IF acc[1] > d THEN xor(acc[1], r) ELSE xor(acc[1], xor((acc[5] + d) % WORD, d))
      /\ acc'[0] = (acc[0] + xor(BootWord, d)) % WORD
    BY <1>5 DEF Mixed, r
<1>7. /\ acc[5] = Sums(s)[k] % WORD
      /\ acc[3] = (SEED + Sums(s)[k] \div WORD) % WORD
      /\ acc[2] = Xors(s)[k]
      /\ acc[4] = Sums(Rotated(s))[k] % WORD
      /\ acc[1] = Chained(s)[k]
      /\ acc[0] = Sums(Windowed(s))[k] % WORD
    BY DEF Mixes, s
<1>8. Sums(s)[k] \in Nat /\ Sums(s)[k + 1] = Sums(s)[k] + d
    BY <1>3, <1>4, SumsAre DEF d
<1>9. acc'[5] = Sums(s)[k + 1] % WORD
    BY <1>4, <1>6, <1>7, <1>8, Wraps
<1>10. acc'[3] = (SEED + Sums(s)[k + 1] \div WORD) % WORD
  <2> DEFINE x == Sums(s)[k]
             q == x \div WORD
  <2>1. WORD \in Nat /\ WORD > 1 /\ SEED \in Nat /\ x \in Nat /\ q \in Nat /\ acc[5] \in Word
    <3>1. acc[5] \in Word
        BY DEF TypeInv
    <3>2. WORD \in Nat /\ WORD > 1 /\ SEED \in Nat
        BY WordAssumption DEF Word
    <3>3. QED
        BY <1>8, <3>1, <3>2
  <2>2. Carries(acc[5], d) <=> acc[5] + d >= WORD
    BY <1>4, <2>1, Carry
  <2>3. (x + d) \div WORD = q + (IF acc[5] + d >= WORD THEN 1 ELSE 0)
    BY <1>4, <1>7, <2>1, Wraps
  <2> HIDE DEF x, q
  <2>4. (((SEED + q) % WORD) + 1) % WORD = (SEED + (q + 1)) % WORD
    <3>1. 1 \in Word /\ SEED + q \in Nat
        BY <2>1 DEF Word
    <3>2. (((SEED + q) % WORD) + 1) % WORD = (SEED + q + 1) % WORD
        BY <3>1, Wraps
    <3>3. SEED + q + 1 = SEED + (q + 1)
        BY <2>1
    <3>4. QED
        BY <3>2, <3>3
  <2>5. acc[3] = (SEED + q) % WORD /\ Sums(s)[k + 1] = x + d
    BY <1>7, <1>8 DEF q, x
  <2>6. CASE Carries(acc[5], d)
    <3>1. (x + d) \div WORD = q + 1
        BY <2>2, <2>3, <2>6
    <3>2. QED
        BY <1>6, <2>4, <2>5, <2>6, <3>1
  <2>7. CASE ~Carries(acc[5], d)
    <3>1. (x + d) \div WORD = q
        BY <2>1, <2>2, <2>3, <2>7
    <3>2. QED
        BY <1>6, <2>5, <2>7, <3>1
  <2>8. QED
    BY <2>6, <2>7
<1>11. acc'[2] = Xors(s)[k + 1]
  <2>1. Xors(s)[k + 1] = xor(Xors(s)[k], d)
    BY <1>3, <1>4, XorsAre DEF d
  <2>2. QED
    BY <1>6, <1>7, <2>1
<1>12. acc'[4] = Sums(Rotated(s))[k + 1] % WORD
  <2> DEFINE t == Rotated(s)
  <2>1. Len(t) = Len(s) /\ t[k + 1] = r /\ \A n \in 1..Len(s) : t[n] \in Word
    BY <1>2, <1>3, WordsOfRegion DEF s, d, r
  <2> HIDE DEF t
  <2>2. Sums(t)[k] \in Nat /\ Sums(t)[k + 1] = Sums(t)[k] + r /\ r \in Word
    BY <1>3, <2>1, SumsAre
  <2>3. QED
    BY <1>6, <1>7, <2>2, Wraps DEF t
<1>13. acc'[0] = Sums(Windowed(s))[k + 1] % WORD
  <2> DEFINE t == Windowed(s)
  <2>1. Len(t) = Len(s)
    BY <1>2, WordsOfRegion DEF s
  <2>2. /\ t[k + 1] = xor(rom[BOOT_START + WINDOW_AT + ((START + (k + 1) - 1) % WINDOW) + 1], d)
        /\ \A n \in 1..Len(s) : t[n] \in Word
    BY <1>1, <1>2, <1>3, WindowIsWord DEF s, d, BootInv
  <2>3. START + (k + 1) - 1 = at
    BY <1>1, <1>2
  <2>4. BootWord = rom[BOOT_START + WINDOW_AT + (at % WINDOW) + 1]
    BY <1>1, BootWordIs
  <2>5. t[k + 1] = xor(BootWord, d)
    BY <2>2, <2>3, <2>4, Zenon
  <2> HIDE DEF t
  <2>6. /\ Sums(t)[k] \in Nat /\ Sums(t)[k + 1] = Sums(t)[k] + xor(BootWord, d)
        /\ xor(BootWord, d) \in Word
    BY <1>3, <2>1, <2>2, <2>5, SumsAre
  <2>7. QED
    BY <1>6, <1>7, <2>6, Wraps DEF t
<1>14. acc'[1] = Chained(s)[k + 1]
  <2>1. Chained(s)[k + 1] = xor(Chained(s)[k], Chosen(Chained(s)[k], s, k + 1))
    BY <1>3, <1>4, ChainedIs DEF Linked
  <2>2. Chosen(acc[1], s, k + 1) = IF acc[1] > d THEN r ELSE xor(acc'[5], d)
    BY <1>9 DEF Chosen, d, r
  <2>3. acc'[1] = xor(acc[1], IF acc[1] > d THEN r ELSE xor(acc'[5], d))
    BY <1>6
  <2>4. QED
    BY <1>7, <2>1, <2>2, <2>3
<1>15. QED
    BY <1>9, <1>10, <1>11, <1>12, <1>13, <1>14 DEF Mixes, s

LEMMA MixKeepsWords ==
    ASSUME IInv, TypeInv, BootInv, MixWord
    PROVE  \A k \in 0..5 : acc'[k] \in Word
<1> DEFINE d == Held[at - START + 1]
           r == zelda64_rot32(d, d % BITS)
<1>1. d \in Word /\ acc' = Mixed(d) /\ at \in Nat /\ at >= START
  <2>1. at = offset + i /\ chunk = Region(offset, Want) /\ i \in Nat /\ offset \in Nat
        /\ offset >= START /\ START \in Nat /\ i < Want
    BY ChunkIsThere DEF MixWord
  <2>2. Region(offset, Want)[i + 1] = Held[offset + i - START + 1]
        /\ Region(offset, Want)[i + 1] \in Word
    BY <2>1, ChunkIsThere, ChunkInHeld DEF MixWord
  <2>3. chunk[i + 1] = d /\ d \in Word
    BY <2>1, <2>2
  <2>4. QED
    BY <2>1, <2>3 DEF MixWord
<1>2. BootWord \in Word
    BY <1>1, BootWordIs
<1> HIDE DEF d, r
<1>3. r \in Word
  <2>1. d % BITS \in 0..(BITS - 1)
    BY <1>1, WidthAssumption DEF Word
  <2>2. QED
    BY <1>1, <2>1, RotationIsWord DEF r
<1>4. \A x, y \in Word : (x + y) % WORD \in Word /\ xor(x, y) \in Word
  <2>1. \A x, y \in Word : (x + y) % WORD \in Word
    BY WordAssumption DEF Word
  <2>2. QED
    BY <2>1, XorIsWord
<1>5. \A k \in 0..5 : acc[k] \in Word
    BY DEF TypeInv
<1>6. 1 \in Word
    BY WordAssumption DEF Word
<1>7. acc'[5] \in Word /\ acc'[5] = (acc[5] + d) % WORD
    BY <1>1, <1>4, <1>5 DEF Mixed
<1>8. acc'[3] \in Word
    BY <1>1, <1>4, <1>5, <1>6 DEF Mixed
<1>9. acc'[2] \in Word
    BY <1>1, <1>4, <1>5 DEF Mixed
<1>10. acc'[4] \in Word
  <2>1. acc'[4] = (acc[4] + r) % WORD
    BY <1>1 DEF Mixed, r
  <2>2. QED
    BY <1>3, <1>4, <1>5, <2>1
<1>11. acc'[1] \in Word
  <2>1. acc'[1] = IF acc[1] > d THEN xor(acc[1], r) ELSE xor(acc[1], xor((acc[5] + d) % WORD, d))
    BY <1>1 DEF Mixed, r
  <2>2. QED
    BY <1>1, <1>3, <1>4, <1>5, <2>1
<1>12. acc'[0] \in Word
  <2>1. acc'[0] = (acc[0] + xor(BootWord, d)) % WORD
    BY <1>1 DEF Mixed
  <2>2. QED
    BY <1>1, <1>2, <1>4, <1>5, <2>1
<1>13. QED
    BY <1>7, <1>8, <1>9, <1>10, <1>11, <1>12

(* Nothing was mixed yet. *)
LEMMA SeedMixes ==
    ASSUME IInv, Exists(BOOT_START, START - BOOT_START), START <= Len(rom)
    PROVE  \A a : (\A k \in 0..5 : a[k] = SEED) => Mixes(a, Held, 0)
<1>2. Len(Held) \in Nat /\ \A k \in 1..Len(Held) : Held[k] \in Word
    BY HeldIs
<1>3. Sums(Held)[0] = SEED /\ Xors(Held)[0] = SEED /\ Chained(Held)[0] = SEED
    BY <1>2, SumsAre, XorsAre, ChainedIs
<1>4. Sums(Rotated(Held))[0] = SEED
    BY <1>2, WordsOfRegion, SumsAre
<1>5. Sums(Windowed(Held))[0] = SEED
    BY <1>2, WordsOfRegion, WindowIsWord, SumsAre
<1>6. SEED % WORD = SEED /\ SEED \div WORD = 0 /\ SEED + 0 = SEED
    BY WordAssumption DEF Word
<1>7. QED
    BY <1>3, <1>4, <1>5, <1>6 DEF Mixes

(* When the whole region was mixed the code is the reference. *)
LEMMA FinishCode ==
    ASSUME IInv, BootInv, MixInv, Finish
    PROVE  code' = Reference
<1>1. START \in Nat \ {0} /\ END \in Nat /\ Len(rom) \in Nat
    BY RegionAssumption, ImageIs
<1>2. at = END /\ at # 0
    BY <1>1 DEF IInv, PositionInv, Finish
<1>3. END <= Len(rom)
    BY <1>2 DEF BootInv
<1>4. Held = Covered
  <2>1. START + (END - START) = END /\ (IF END < Len(rom) THEN END ELSE Len(rom)) = END
    BY <1>1, <1>3
  <2>2. QED
    BY <2>1 DEF Held, Covered, Region
<1>5. Mixes(acc, Covered, END - START)
    BY <1>2, <1>4 DEF MixInv
<1>6. code' = cic_check_code_end(acc)
    BY DEF Finish
<1>7. QED
    BY <1>5, <1>6 DEF Mixes, cic_check_code_end, Reference

(* The steps that neither move in the region nor mix keep the values. *)
LEMMA ValuesStay ==
    ASSUME BootInv, MixInv, UNCHANGED <<request, state>>,
           (pc = "cic" \/ at # 0)' => (pc = "cic" \/ at # 0) /\ ipl' = ipl
    PROVE  BootInv' /\ MixInv'
<1>1. rom' = rom /\ at' = at /\ acc' = acc /\ Held' = Held
    BY DEF rom, state, Held
<1>2. BootInv'
    BY <1>1 DEF BootInv, Exists, Region
<1>3. MixInv'
    BY <1>1 DEF MixInv, Mixes, Windowed
<1>4. QED
    BY <1>2, <1>3

LEMMA ReadBootFolds == IInv /\ FoldInv /\ ReadBoot => FoldInv'
<1> SUFFICES ASSUME IInv, FoldInv, ReadBoot
             PROVE  FoldInv'
    OBVIOUS
<1> DEFINE n == START - BOOT_START
<1>1. n \in Nat /\ BOOT_START \in Nat /\ rom \in Seq(Word) /\ Len(rom) \in Nat /\ rom' = rom
    BY WindowAssumption, RegionAssumption, ImageIs DEF ReadBoot, rom
<1>2. at = 0 /\ at' = 0
    BY DEF ReadBoot, IInv, PositionInv, state
<1>3. Exists(BOOT_START, n) => Len(Region(BOOT_START, n)) = n
  <2> SUFFICES ASSUME Exists(BOOT_START, n)
               PROVE  Len(Region(BOOT_START, n)) = n
    OBVIOUS
  <2> DEFINE b == BOOT_START + n
  <2>1. b \in Nat /\ b <= Len(rom) /\ b - BOOT_START = n /\ BOOT_START <= b
    BY <1>1 DEF Exists
  <2>2. Region(BOOT_START, n) = SubSeq(rom, BOOT_START + 1, b)
    BY DEF Region
  <2> HIDE DEF b, n
  <2>3. QED
    BY <1>1, <2>1, <2>2, Cut
<1>4. TypeInv'
    BY <1>3 DEF FoldInv, TypeInv, ReadBoot, Fail, state
<1>5. BootInv'
    BY <1>1, <1>2 DEF BootInv, ReadBoot, Fail, Exists, Region
<1>6. MixInv'
    BY <1>2 DEF MixInv
<1>7. CodeIsOfTheRegion'
    BY DEF CodeIsOfTheRegion, ReadBoot, Fail, IInv, TruncatedInv
<1>8. QED
    BY <1>4, <1>5, <1>6, <1>7 DEF FoldInv

LEMMA DetectCicFolds == IInv /\ FoldInv /\ DetectCic => FoldInv'
<1> SUFFICES ASSUME IInv, FoldInv, DetectCic
             PROVE  FoldInv'
    OBVIOUS
<1>1. rom' = rom /\ Held' = Held /\ at = 0 /\ ipl' = ipl
    BY DEF DetectCic, rom, Held, IInv, PositionInv
<1>2. TypeInv'
  <2>1. \A k \in 0..5 : acc'[k] \in Word
    BY WordAssumption DEF DetectCic, FoldInv, TypeInv, state, check_code_init
  <2>2. QED
    BY <2>1 DEF DetectCic, FoldInv, TypeInv, Fail
<1>3. CodeIsOfTheRegion'
    BY DEF CodeIsOfTheRegion, DetectCic, Fail
<1>4. Exists(BOOT_START, START - BOOT_START) /\ ipl = Region(BOOT_START, START - BOOT_START)
    BY DEF DetectCic, FoldInv, BootInv
<1>5. START <= Len(rom)
  <2>1. START \in Nat /\ BOOT_START \in Nat /\ BOOT_START + (START - BOOT_START) = START
    BY WindowAssumption, RegionAssumption
  <2>2. QED
    BY <1>4, <2>1 DEF Exists
<1>6. BootInv'
    BY <1>1, <1>4, <1>5 DEF BootInv, DetectCic, Exists, Region, check_code_init, state
<1>8. MixInv'
  <2>1. CASE at' = 0
    BY <2>1 DEF MixInv
  <2>2. CASE at' # 0
    <3>1. at' = START /\ \A k \in 0..5 : acc'[k] = SEED
        BY <1>1, <2>2 DEF DetectCic, check_code_init, state
    <3>2. Mixes(acc', Held, 0)
        BY <1>4, <1>5, <3>1, SeedMixes
    <3>3. at' - START = 0
        BY <3>1, RegionAssumption
    <3>4. QED
        BY <1>1, <3>2, <3>3 DEF MixInv, Mixes, Windowed
  <2>3. QED
    BY <2>1, <2>2
<1>9. QED
    BY <1>2, <1>3, <1>6, <1>8 DEF FoldInv

LEMMA ReadChunkFolds == IInv /\ FoldInv /\ ReadChunk => FoldInv'
<1> SUFFICES ASSUME IInv, FoldInv, ReadChunk
             PROVE  FoldInv'
    OBVIOUS
<1>1. offset \in Nat /\ END \in Nat /\ CHUNK \in Nat /\ CHUNK > 0 /\ offset < END
    BY RegionAssumption DEF ReadChunk, IInv, PositionInv
<1>2. Want \in Nat /\ Want <= CHUNK
    BY <1>1 DEF Want
<1>3. Exists(offset, Want) => Len(Region(offset, Want)) = Want
  <2> SUFFICES ASSUME Exists(offset, Want)
               PROVE  Len(Region(offset, Want)) = Want
    OBVIOUS
  <2> DEFINE b == offset + Want
  <2>1. b \in Nat /\ b <= Len(rom) /\ b - offset = Want /\ offset <= b
    BY <1>1, <1>2 DEF Exists
  <2>2. Region(offset, Want) = SubSeq(rom, offset + 1, b)
    BY DEF Region
  <2> HIDE DEF b
  <2>3. QED
    BY <1>1, <2>1, <2>2, ImageIs, Cut
<1>4. TypeInv'
    BY <1>2, <1>3 DEF FoldInv, TypeInv, ReadChunk, Fail, boot, state
<1>5. at # 0
    BY RegionAssumption DEF ReadChunk, IInv, PositionInv
<1>6. BootInv' /\ MixInv'
    BY <1>5, ValuesStay DEF FoldInv, ReadChunk, boot, state
<1>7. CodeIsOfTheRegion'
    BY DEF CodeIsOfTheRegion, ReadChunk, Fail
<1>8. QED
    BY <1>4, <1>6, <1>7 DEF FoldInv

LEMMA MixWordFolds == IInv /\ FoldInv /\ MixWord => FoldInv'
<1> SUFFICES ASSUME IInv, FoldInv, MixWord
             PROVE  FoldInv'
    OBVIOUS
<1> USE DEF FoldInv
<1>1. /\ rom' = rom /\ Held' = Held /\ ipl' = ipl /\ at' = at + 1
      /\ at \in Nat /\ at # 0 /\ START \in Nat /\ at < END /\ END \in Nat
  <2>1. at \in START..END
    BY RegionAssumption DEF MixWord, IInv, SumInv, PositionInv, Want
  <2>2. QED
    BY <2>1, RegionAssumption DEF MixWord, rom, Held, boot
<1>2. TypeInv'
  <2>1. (i \in 0..Len(chunk))'
    BY DEF TypeInv, MixWord
  <2>2. QED
    BY <2>1, MixKeepsWords DEF TypeInv, MixWord, boot
<1>3. at + 1 <= Len(rom)
  <2>1. i \in Nat /\ i < Want /\ offset \in Nat /\ offset + Want <= Len(rom) /\ at = offset + i
        /\ Want \in Nat
    BY ChunkIsThere DEF MixWord, Exists
  <2>2. QED
    BY <2>1, ImageIs
<1>4. BootInv'
    BY <1>1, <1>3 DEF BootInv, Exists, Region
<1>5. MixInv'
  <2> DEFINE k == at - START
  <2>1. Mixes(acc, Held, k)
    BY <1>1 DEF MixInv
  <2>2. Mixes(acc', Held, k + 1)
    BY <2>1, RoundMixes
  <2>3. at' - START = k + 1
    BY <1>1
  <2>4. Mixes(acc, Held, at - START)'
    BY <1>1, <2>2, <2>3 DEF Mixes, Windowed
  <2>5. QED
    BY <2>4 DEF MixInv
<1>6. CodeIsOfTheRegion'
    BY DEF CodeIsOfTheRegion, MixWord
<1>7. QED
    BY <1>2, <1>4, <1>5, <1>6

LEMMA ChunkDoneFolds == IInv /\ FoldInv /\ ChunkDone => FoldInv'
<1> SUFFICES ASSUME IInv, FoldInv, ChunkDone
             PROVE  FoldInv'
    OBVIOUS
<1>1. at # 0
    BY ChunkIsThere, RegionAssumption DEF ChunkDone
<1>2. BootInv' /\ MixInv'
    BY <1>1, ValuesStay DEF FoldInv, ChunkDone, boot, state
<1>3. TypeInv' /\ CodeIsOfTheRegion'
    BY DEF FoldInv, TypeInv, CodeIsOfTheRegion, ChunkDone, boot, state
<1>4. QED
    BY <1>2, <1>3 DEF FoldInv

LEMMA FinishFolds == IInv /\ FoldInv /\ Finish => FoldInv'
<1> SUFFICES ASSUME IInv, FoldInv, Finish
             PROVE  FoldInv'
    OBVIOUS
<1>1. at # 0
    BY RegionAssumption DEF Finish, IInv, PositionInv
<1>2. BootInv' /\ MixInv'
    BY <1>1, ValuesStay DEF FoldInv, Finish, boot, state
<1>3. TypeInv'
    BY DEF FoldInv, TypeInv, Finish, boot, state
<1>4. Reference' = Reference
    BY DEF Finish, Reference, Covered, Region, Windowed, rom
<1>5. code' = Reference
    BY FinishCode DEF FoldInv
<1>6. QED
    BY <1>2, <1>3, <1>4, <1>5 DEF FoldInv, CodeIsOfTheRegion

(* Every accumulator holds what the words mixed so far make of it.         *)
THEOREM Folds == Spec => [](IInv /\ FoldInv)
<1>1. IInv /\ FoldInv /\ UNCHANGED vars => FoldInv'
  <2> SUFFICES ASSUME IInv, FoldInv, UNCHANGED vars
               PROVE  FoldInv'
    OBVIOUS
  <2>1. BootInv' /\ MixInv'
    BY ValuesStay DEF FoldInv, vars, state
  <2>2. TypeInv'
    BY DEF FoldInv, TypeInv, vars
  <2>3. Reference' = Reference
    BY DEF vars, Reference, Covered, Region, Windowed, rom
  <2>4. CodeIsOfTheRegion'
    BY <2>3 DEF FoldInv, CodeIsOfTheRegion, vars
  <2>5. QED
    BY <2>1, <2>2, <2>4 DEF FoldInv
<1>2. IInv /\ FoldInv /\ [Next]_vars => FoldInv'
    BY <1>1, ReadBootFolds, DetectCicFolds, ReadChunkFolds, MixWordFolds, ChunkDoneFolds, FinishFolds
       DEF Next
<1>3. QED
    BY <1>2, FoldInit, Invariance, PTL DEF Spec

(* Every variable keeps its type: the accumulators never leave a word,     *)
(* whatever is xored and rotated into them.                                *)
THEOREM TypeCorrect == Spec => []TypeOK
<1>1. IInv /\ FoldInv => TypeOK
    BY DEF IInv, PositionInv, SumInv, FoldInv, TypeInv, TypeOK
<1>2. QED
    BY <1>1, Folds, PTL

(* However the region falls into chunks, the code is the one of the whole  *)
(* region: every word is mixed once, in order, with the word of the boot   *)
(* code its address selects.                                               *)
THEOREM CodeOfRegion == Spec => []CodeIsOfTheRegion
<1>1. IInv /\ FoldInv => CodeIsOfTheRegion
    BY DEF FoldInv
<1>2. QED
    BY <1>1, Folds, PTL

-----------------------------------------------------------------------------
(* The check code ends: what is left of the calls, of the region and of    *)
(* the chunk becomes less with every step.                                 *)

CallsLeft ==
    CASE pc = "boot" -> 3 [] pc = "cic" -> 2 [] pc \in {"read", "mix"} -> 1 [] OTHER -> 0
RegionLeft == END - offset
ChunksLeft == IF pc = "read" THEN 1 ELSE 0
WordsLeft == IF pc = "mix" /\ i < Len(chunk) THEN Len(chunk) - i ELSE 0

Left == <<CallsLeft, RegionLeft, ChunksLeft, WordsLeft>>

LEMMA LeftIsMeasure == IInv => IsMeasure(Left)
<1> SUFFICES ASSUME IInv PROVE IsMeasure(Left)
    OBVIOUS
<1>1. RegionLeft \in Nat
    BY RegionAssumption DEF RegionLeft, IInv, PositionInv
<1>2. WordsLeft \in Nat
  <2>1. CASE pc = "mix"
    <3>1. Len(chunk) \in Nat /\ i \in Nat
        BY <2>1, ChunkIsThere DEF IInv, PositionInv
    <3>2. QED
        BY <3>1 DEF WordsLeft
  <2>2. QED
      BY <2>1 DEF WordsLeft
<1>3. CallsLeft \in Nat /\ ChunksLeft \in Nat
    BY DEF CallsLeft, ChunksLeft
<1>4. QED
    BY <1>1, <1>2, <1>3 DEF Left, IsMeasure

(* Enough for a tuple of four to be less. *)
LEMMA IsLessIf ==
    ASSUME NEW u, NEW v, Len(v) = 4,
           \/ u[1] < v[1]
           \/ u[1] = v[1] /\ u[2] < v[2]
           \/ u[1] = v[1] /\ u[2] = v[2] /\ u[3] < v[3]
           \/ u[1] = v[1] /\ u[2] = v[2] /\ u[3] = v[3] /\ u[4] < v[4]
    PROVE  IsLess(u, v)
<1>1. CASE u[1] < v[1]
    BY <1>1 DEF IsLess
<1>2. CASE u[1] = v[1] /\ u[2] < v[2]
    BY <1>2 DEF IsLess
<1>3. CASE u[1] = v[1] /\ u[2] = v[2] /\ u[3] < v[3]
    BY <1>3 DEF IsLess
<1>4. CASE u[1] = v[1] /\ u[2] = v[2] /\ u[3] = v[3] /\ u[4] < v[4]
    BY <1>4 DEF IsLess
<1>5. QED
    BY <1>1, <1>2, <1>3, <1>4

LEMMA StepIsLess == IInv /\ Next => IsLess(Left', Left)
<1> SUFFICES ASSUME IInv, Next PROVE IsLess(Left', Left)
    OBVIOUS
<1>1. /\ Len(Left) = 4
      /\ Left[1] = CallsLeft /\ Left[2] = RegionLeft /\ Left[3] = ChunksLeft
      /\ Left[4] = WordsLeft
      /\ Left'[1] = CallsLeft' /\ Left'[2] = RegionLeft' /\ Left'[3] = ChunksLeft'
      /\ Left'[4] = WordsLeft'
    BY DEF Left
<1>2. CASE ReadBoot \/ DetectCic \/ Finish
    BY <1>1, <1>2, IsLessIf DEF ReadBoot, DetectCic, Finish, Fail, CallsLeft
<1>3. CASE ReadChunk
  <2>1. pc = "read" /\ pc' \in {"mix", "done"} /\ offset' = offset
      BY <1>3 DEF ReadChunk, Fail
  <2>2. QED
      BY <1>1, <2>1, IsLessIf DEF CallsLeft, RegionLeft, ChunksLeft
<1>4. CASE MixWord
  <2>1. /\ pc = "mix" /\ pc' = "mix" /\ offset' = offset /\ chunk' = chunk
        /\ i < Len(chunk) /\ i' = i + 1
      BY <1>4 DEF MixWord
  <2>2. Len(chunk) \in Nat /\ i \in Nat
      BY <2>1, ChunkIsThere
  <2>3. WordsLeft' < WordsLeft
      BY <2>1, <2>2 DEF WordsLeft
  <2>4. QED
      BY <1>1, <2>1, <2>3, IsLessIf DEF CallsLeft, RegionLeft, ChunksLeft
<1>5. CASE ChunkDone
  <2>1. pc = "mix" /\ pc' = "read" /\ offset' = offset + Len(chunk)
      BY <1>5 DEF ChunkDone
  <2>2. /\ END \in Nat /\ offset \in Nat /\ offset < END
        /\ Len(chunk) = Want /\ CHUNK \in Nat \ {0}
      BY <2>1, ChunkIsThere, RegionAssumption
  <2>3. RegionLeft' < RegionLeft
      BY <2>1, <2>2 DEF RegionLeft, Want
  <2>4. QED
      BY <1>1, <2>1, <2>3, IsLessIf DEF CallsLeft
<1>6. QED
    BY <1>2, <1>3, <1>4, <1>5 DEF Next

(* Detecting the CIC and calculating the check code end on every image:    *)
(* each step of their loops leaves less to do, for a chunk is never empty. *)
THEOREM CodeEnds == Spec => []IsMeasure(Left) /\ [][IsLess(Left', Left)]_vars
<1>1. IInv /\ [Next]_vars => [IsLess(Left', Left)]_vars
    BY StepIsLess
<1>2. QED
    BY <1>1, LeftIsMeasure, Invariance, PTL DEF Spec
=============================================================================
