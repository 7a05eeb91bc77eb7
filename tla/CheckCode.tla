----------------------------- MODULE CheckCode -----------------------------
(***************************************************************************)
(* Which CIC a ROM is made for, and the check code that the CIC compares   *)
(* with the header when the console boots (lib/rom_cic.c).  The boot code  *)
(* of the image names the chip; the code is then accumulated over a fixed  *)
(* region, which is read in chunks and mixed word by word with a window of *)
(* the boot code.                                                          *)
(*                                                                         *)
(* Addresses count words (4 bytes).  Words have BITS bits, so that carries *)
(* and rotations are met on small numbers.                                 *)
(***************************************************************************)
EXTENDS Integers, Sequences

CONSTANTS
    BITS, WORD,     \* the width of a word, and 2^BITS
    SEED,           \* CHECK_CODE_SEED_6105
    BOOT_START,     \* IPL3_BOOTCODE_START
    START, END,     \* the region the code covers; the boot code ends at START
    CHUNK,          \* words read at a time
    WINDOW_AT,      \* the window of the boot code that is mixed in:
    WINDOW,         \*   where it starts (0x710), and its length (0x100)
    Boot,           \* the boot code of each chip
    Requests,       \* [rom, makerom, call]: an image, the size of MAKEROM in
                    \*   its table, and the function called
    Faults          \* may the store fail?

Word == 0..(WORD - 1)
IsImage(rom) == rom \in Seq(Word)

(* A shift to the left by n multiplies by this, one to the right divides.  *)
Pow2[n \in 0..BITS] == IF n = 0 THEN 1 ELSE 2 * Pow2[n - 1]

ASSUME WordAssumption == WORD \in Nat /\ WORD > 1 /\ SEED \in Word
ASSUME WidthAssumption == BITS \in Nat \ {0} /\ WORD = Pow2[BITS]
ASSUME RegionAssumption ==
    /\ START \in Nat \ {0} /\ END \in Nat /\ START <= END
    /\ CHUNK \in Nat \ {0}
ASSUME WindowAssumption ==
    /\ {BOOT_START, WINDOW_AT, WINDOW} \subseteq Nat
    /\ WINDOW > 0 /\ WINDOW_AT + WINDOW <= START - BOOT_START
ASSUME RequestsAssumption ==
    \A q \in Requests : IsImage(q.rom) /\ q.makerom \in Nat /\ q.call \in {"detect", "code"}

VARIABLES
    request,
    pc,
    error,
    ipl,      \* the boot code of the image
    cic,
    offset,   \* where the next chunk starts
    chunk,
    i,        \* the word of the chunk that is mixed next
    acc,      \* state.acc
    at,       \* state.offset; 0 before check_code_init
    code      \* the two words returned

vars == <<request, pc, error, ipl, cic, offset, chunk, i, acc, at, code>>
boot == <<ipl, cic>>
state == <<acc, at>>

rom == request.rom

Init ==
    /\ request \in Requests
    /\ pc = "boot" /\ error = "OK"
    /\ ipl = <<>> /\ cic = "UNKNOWN"
    /\ offset = START /\ chunk = <<>> /\ i = 0
    /\ acc = [k \in 0..5 |-> 0] /\ at = 0
    /\ code = <<0, 0>>

-----------------------------------------------------------------------------
(* Words. *)

Xor[p \in Word \X Word] ==
    IF p = <<0, 0>> THEN 0
    ELSE ((p[1] + p[2]) % 2) + 2 * Xor[<<p[1] \div 2, p[2] \div 2>>]
xor(a, b) == Xor[<<a, b>>]

zelda64_rot32(a, b) ==
    IF b = 0 THEN a ELSE ((a * Pow2[b]) % WORD) + (a \div Pow2[BITS - b])

(* zelda64_io_read_exact of n words at a. *)
Exists(a, n) == a + n <= Len(rom)
Region(a, n) == SubSeq(rom, a + 1, a + n)

Fail(r) ==
    /\ pc' = "done"
    /\ error' = r

-----------------------------------------------------------------------------
(* read_ipl3_bootcode and detect_cic, which compares the CRC-32C of the    *)
(* boot code with the one it knows.                                        *)

ReadBoot ==
    /\ pc = "boot"
    /\ \/ /\ request.makerom < START
          /\ Fail("INVALID_ROM")
          /\ UNCHANGED ipl
       \/ /\ request.makerom >= START
          /\ Exists(BOOT_START, START - BOOT_START)
          /\ ipl' = Region(BOOT_START, START - BOOT_START)
          /\ pc' = "cic"
          /\ UNCHANGED error
       \/ /\ request.makerom >= START
          /\ ~Exists(BOOT_START, START - BOOT_START)
          /\ Fail("TRUNCATED")
          /\ UNCHANGED ipl
       \/ /\ Faults
          /\ request.makerom >= START
          /\ Fail("ERRNO")
          /\ UNCHANGED ipl
    /\ UNCHANGED <<request, cic, offset, chunk, i, state, code>>

detect_cic(b) == IF b = Boot["6105"] THEN "6105" ELSE "UNKNOWN"

check_code_init ==
    /\ acc' = [k \in 0..5 |-> SEED]
    /\ at' = START

DetectCic ==
    /\ pc = "cic"
    /\ cic' = detect_cic(ipl)
    /\ \/ /\ cic' = "UNKNOWN"
          /\ Fail("UNSUPPORTED_CIC")
          /\ UNCHANGED state
       \/ /\ cic' # "UNKNOWN"
          /\ request.call = "detect"
          /\ pc' = "done"
          /\ UNCHANGED <<error, state>>
       \/ /\ cic' # "UNKNOWN"
          /\ request.call = "code"
          /\ pc' = "read"
          /\ check_code_init
          /\ UNCHANGED error
    /\ UNCHANGED <<request, ipl, offset, chunk, i, code>>

-----------------------------------------------------------------------------
(* zelda64_calculate_check_code. *)

(* Mutant: the last chunk is not cut to the region. *)
WantWhole == CHUNK

Want == IF END - offset < CHUNK THEN END - offset ELSE CHUNK

ReadChunk ==
    /\ pc = "read"
    /\ offset < END
    /\ \/ /\ Exists(offset, Want)
          /\ chunk' = Region(offset, Want)
          /\ i' = 0
          /\ pc' = "mix"
          /\ UNCHANGED error
       \/ ~Exists(offset, Want) /\ Fail("TRUNCATED") /\ UNCHANGED <<chunk, i>>
       \/ Faults /\ Fail("ERRNO") /\ UNCHANGED <<chunk, i>>
    /\ UNCHANGED <<request, boot, offset, state, code>>

(* Mutants: the carry is missed when the low word comes out the same, the  *)
(* window is taken from the start of the chunk.                            *)
CarriesOnEqual(a, d) == (a + d) % WORD <= a

Carries(a, d) == (a + d) % WORD < a

BootWordOfChunk == ipl[WINDOW_AT + (i % WINDOW) + 1]

BootWord == ipl[WINDOW_AT + (at % WINDOW) + 1]   \* at = start + i

Mixed(d) ==
    LET sum == (acc[5] + d) % WORD
        r == zelda64_rot32(d, d % BITS)
    IN [k \in 0..5 |->
         CASE k = 5 -> sum
           [] k = 3 -> IF Carries(acc[5], d) THEN (acc[3] + 1) % WORD ELSE acc[3]
           [] k = 2 -> xor(acc[2], d)
           [] k = 4 -> (acc[4] + r) % WORD
           [] k = 1 -> IF acc[1] > d THEN xor(acc[1], r) ELSE xor(acc[1], xor(sum, d))
           [] k = 0 -> (acc[0] + xor(BootWord, d)) % WORD]

(* One round of check_code. *)
MixWord ==
    /\ pc = "mix"
    /\ at < END
    /\ i < Len(chunk)
    /\ acc' = Mixed(chunk[i + 1])
    /\ i' = i + 1
    /\ at' = at + 1
    /\ UNCHANGED <<request, pc, error, boot, offset, chunk, code>>

(* Mutant: the loop reads the same chunk again. *)
ChunkAgain ==
    /\ pc = "mix"
    /\ at >= END \/ i >= Len(chunk)
    /\ pc' = "read"
    /\ UNCHANGED <<request, error, boot, offset, chunk, i, state, code>>

(* Mutant: the offset advances by a whole chunk. *)
ChunkDoneWhole ==
    /\ pc = "mix"
    /\ at >= END \/ i >= Len(chunk)
    /\ offset' = offset + CHUNK
    /\ pc' = "read"
    /\ UNCHANGED <<request, error, boot, chunk, i, state, code>>

ChunkDone ==
    /\ pc = "mix"
    /\ at >= END \/ i >= Len(chunk)
    /\ offset' = offset + Len(chunk)
    /\ pc' = "read"
    /\ UNCHANGED <<request, error, boot, chunk, i, state, code>>

cic_check_code_end(a) == <<xor(xor(a[5], a[3]), a[2]), xor(xor(a[4], a[1]), a[0])>>

Finish ==
    /\ pc = "read"
    /\ offset >= END
    /\ code' = cic_check_code_end(acc)
    /\ pc' = "done"
    /\ UNCHANGED <<request, error, boot, offset, chunk, i, state>>

Next == ReadBoot \/ DetectCic \/ ReadChunk \/ MixWord \/ ChunkDone \/ Finish

Spec == Init /\ [][Next]_vars

(* One thread runs the loops; it waits for nothing. *)
FairSpec == Spec /\ WF_vars(Next)

-----------------------------------------------------------------------------
(* The reference: the code of an image that is all there, without chunks   *)
(* and, but for acc[1], as sums over the words of the region.              *)

Covered == Region(START, END - START)

(* The first n words of s, added up, and xored, for each n.                *)
Sums(s) == LET f[n \in 0..Len(s)] == IF n = 0 THEN SEED ELSE f[n - 1] + s[n] IN f
Xors(s) == LET f[n \in 0..Len(s)] == IF n = 0 THEN SEED ELSE xor(f[n - 1], s[n]) IN f

Rotated(s) == [k \in 1..Len(s) |-> zelda64_rot32(s[k], s[k] % BITS)]

(* Each word with the word of the boot code its address selects. *)
Windowed(s) ==
    [k \in 1..Len(s) |->
        xor(rom[BOOT_START + WINDOW_AT + ((START + k - 1) % WINDOW) + 1], s[k])]

Chained(s) ==
    LET f[n \in 0..Len(s)] ==
            IF n = 0 THEN SEED
            ELSE xor(f[n - 1], IF f[n - 1] > s[n] THEN zelda64_rot32(s[n], s[n] % BITS)
                               ELSE xor(Sums(s)[n] % WORD, s[n]))
    IN f

Reference ==
    LET n == END - START
        sum == Sums(Covered)[n]
    IN << xor(xor(sum % WORD, (SEED + sum \div WORD) % WORD), Xors(Covered)[n]),
          xor(xor(Sums(Rotated(Covered))[n] % WORD, Chained(Covered)[n]),
              Sums(Windowed(Covered))[n] % WORD) >>

-----------------------------------------------------------------------------
(* Properties. *)

(* Every variable keeps its type; the accumulators never leave a word. *)
TypeOK ==
    /\ request \in Requests
    /\ pc \in {"boot", "cic", "read", "mix", "done"}
    /\ error \in {"OK", "INVALID_ROM", "TRUNCATED", "ERRNO", "UNSUPPORTED_CIC"}
    /\ Len(ipl) \in {0, START - BOOT_START}
    /\ offset \in START..END
    /\ Len(chunk) <= CHUNK /\ i \in 0..Len(chunk)
    /\ \A k \in 0..5 : acc[k] \in Word
    /\ at \in {0} \cup START..END

(* However the region falls into chunks, the code is the one of the whole  *)
(* region: every word is mixed once, in order, with the word of the boot   *)
(* code its address selects.                                               *)
CodeIsOfTheRegion ==
    pc = "done" /\ error = "OK" /\ request.call = "code" => code = Reference

(* An image that holds the region, and nothing behind it, has a code: no   *)
(* read goes past the end of the region.                                   *)
WholeImageHasCode ==
    /\ pc = "done" /\ error = "TRUNCATED"
    => Len(rom) < (IF request.call = "code" THEN END ELSE START)

(* The loops end. *)
Terminates == <>(pc = "done")

(* What the image holds of the region. *)
Held == SubSeq(rom, START + 1, IF END < Len(rom) THEN END ELSE Len(rom))

(* acc[3] counts the carries out of acc[5]: together they are the double-  *)
(* width sum of the words of the region, each added once and in order,     *)
(* though neither ever holds more than a word.                             *)
Wide == INSTANCE WideSum
          WITH WIDTH <- WORD * WORD,
               words <- Held,
               added <- IF at = 0 THEN 0 ELSE at - START,
               total <- IF at = 0 THEN SEED
                        ELSE ((acc[3] - SEED) % WORD) * WORD + acc[5]

ImplementsWideSum == Wide!Spec
=============================================================================
