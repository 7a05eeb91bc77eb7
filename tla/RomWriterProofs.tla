-------------------------- MODULE RomWriterProofs --------------------------
(***************************************************************************)
(* What the writer does, proved for every job, width and chunk size.  The  *)
(* inductive invariant is built in layers, each kept by every step when    *)
(* those above it hold:                                                    *)
(*                                                                         *)
(*   - what is held, where the loops stand, what the new table and the     *)
(*     check code are: of every job;                                       *)
(*   - where the files lie, how long the image is, what it was promised    *)
(*     room for, and what it holds of each file and of the table: of the   *)
(*     jobs that are promised to go well (IsSound in RomWriter).           *)
(*                                                                         *)
(* The second half works on Step, which restates each action as what it    *)
(* leaves in the image and where it was allowed to write.                  *)
(*                                                                         *)
(* Every job ends, sound or not: Left says what is left of it.             *)
(***************************************************************************)
EXTENDS RomWriter, RomFilesProofs

(* What is held at each step of the code, and released behind it. *)
ResourcesInv ==
    /\ pc \in {"open", "alloc", "file", "copy", "read", "code", "entry", "pad",
               "table", "check", "close", "done"}
    /\ stream \in {"none", "open", "ended"}
    /\ stream = "open" <=> pc \in {"read", "code"}
    /\ memory \in {"none", "held", "freed"}
    /\ memory = "held" <=> pc \notin {"open", "alloc", "close", "done"}
    /\ output \in {"closed", "open"}
    /\ output = "open" <=> pc \notin {"open", "done"}

LEMMA ResourcesInit == Init => ResourcesInv
BY DEF Init, ResourcesInv

LEMMA ResourcesKept ==
    ASSUME ResourcesInv, [Next]_vars
    PROVE  ResourcesInv'
<1> USE DEF ResourcesInv
<1>1. ASSUME NEW r, Abort(r)
      PROVE  ResourcesInv'
    BY <1>1 DEF Abort
<1>2. CASE OpenOutput
    BY <1>1, <1>2 DEF OpenOutput, coding, holding
<1>3. CASE AllocTable
    BY <1>1, <1>3 DEF AllocTable, coding, holding
<1>4. CASE SkipFile
    BY <1>4 DEF SkipFile, holding, coding
<1>5. CASE BeginFile
    BY <1>1, <1>5 DEF BeginFile, holding
<1>6. CASE CopyChunk
    BY <1>1, <1>6 DEF CopyChunk, Write, holding, coding
<1>7. CASE CopyDone
    BY <1>7 DEF CopyDone, holding, coding
<1>8. CASE ReadChunk
    BY <1>1, <1>8 DEF ReadChunk, holding
<1>9. CASE CodeChunk
    BY <1>1, <1>9 DEF CodeChunk, Write, holding
<1>10. CASE EndFile
    BY <1>10 DEF EndFile, holding, coding
<1>11. CASE FilesDone
    BY <1>11 DEF FilesDone, holding, coding
<1>12. CASE PadChunk
    BY <1>1, <1>12 DEF PadChunk, Write, holding, coding
<1>13. CASE PadDone
    BY <1>13 DEF PadDone, holding, coding
<1>14. CASE WriteTable
    BY <1>1, <1>14 DEF WriteTable, Write, holding, coding
<1>15. CASE WriteCheckCode
    BY <1>1, <1>15 DEF WriteCheckCode, Write, holding, coding
<1>16. CASE CloseOutput
    BY <1>16 DEF CloseOutput, holding, coding
<1>17. CASE UNCHANGED vars
    BY <1>17 DEF vars
<1>18. QED
    BY <1>2, <1>3, <1>4, <1>5, <1>6, <1>7, <1>8, <1>9, <1>10, <1>11, <1>12, <1>13,
       <1>14, <1>15, <1>16, <1>17 DEF Next, WriteFiles, Finalise
-----------------------------------------------------------------------------
(* The job and what it says of the file at hand. *)

LEMMA JobIs ==
    ASSUME job \in Jobs
    PROVE  /\ IsRom(rom) /\ count \in Word /\ count \in Nat /\ count > 2
           /\ Files(rom) = 0..(count - 1)
           /\ DOMAIN job.layout = Files(rom)
           /\ \A f \in Files(rom) :
                 /\ job.layout[f].vrom_start = rom.dma[f].vrom_start
                 /\ job.layout[f].vrom_end = rom.dma[f].vrom_end
                 /\ job.layout[f].operation \in Operations
                 /\ job.layout[f].vrom_start \in Word /\ job.layout[f].vrom_end \in Word
                 /\ rom.plain[f] \in Word /\ rom.packed[f] \in Word
           /\ job.pack \in {"SPARSE", "DENSE"} /\ job.pad \in {"NONE", "ZERO", "RAMP"}
           /\ job.target \in {"FILE", "BUFFER"} /\ job.room \in Word
           /\ job.room \in Nat
<1>1. /\ IsRom(rom) /\ count \in Word /\ count > 2
      /\ Files(rom) = 0..(count - 1)
      /\ DOMAIN job.layout = Files(rom)
      /\ \A f \in Files(rom) :
            /\ job.layout[f].vrom_start = rom.dma[f].vrom_start
            /\ job.layout[f].vrom_end = rom.dma[f].vrom_end
            /\ job.layout[f].operation \in Operations
      /\ job.pack \in {"SPARSE", "DENSE"} /\ job.pad \in {"NONE", "ZERO", "RAMP"}
      /\ job.target \in {"FILE", "BUFFER"} /\ job.room \in Word
    BY JobsAssumption DEF rom, count
<1>2. \A f \in Files(rom) :
          {rom.dma[f].vrom_start, rom.dma[f].vrom_end, rom.dma[f].rom_start,
           rom.dma[f].rom_end, rom.plain[f], rom.packed[f]} \subseteq Word
    BY <1>1 DEF IsRom
<1>3. count \in Nat /\ job.room \in Nat
    BY <1>1, WordsAreNat
<1>4. QED
    BY <1>1, <1>2, <1>3

LEMMA SameJob ==
    ASSUME job' = job
    PROVE  /\ rom' = rom /\ count' = count /\ Faults' = Faults
           /\ i' = i => entry' = entry /\ stat' = stat /\ Stream' = Stream
           /\ i' = i /\ position' = position => rom_start' = rom_start
<1>1. rom' = rom /\ count' = count /\ Faults' = Faults
    BY DEF rom, count, Faults
<1>2. ASSUME i' = i
      PROVE  entry' = entry /\ stat' = stat /\ Stream' = Stream
  <2>1. entry' = entry /\ stat' = stat
    BY <1>1, <1>2 DEF entry, stat
  <2>2. form' = form
    BY <1>1, <1>2 DEF form
  <2>3. Stream' = Stream
    BY <1>1, <1>2, <2>1, <2>2 DEF Stream
  <2>4. QED
    BY <2>1, <2>3
<1>3. i' = i /\ position' = position => rom_start' = rom_start
    BY <1>2 DEF rom_start
<1>4. QED
    BY <1>1, <1>2, <1>3

(* The chunk the coder is given: the cells of the storage in front of the  *)
(* position that it has not taken.                                         *)
InputChunk == ChunkAt(rom, stat.offset + bytes_in - avail_in, avail_in)

(* The file at hand: its storage, and the stream the coder makes of it. *)
LEMMA FileIs ==
    ASSUME job \in Jobs, i \in 0..count, i < count
    PROVE  /\ i \in Files(rom)
           /\ entry.operation \in Operations
           /\ entry.vrom_start \in Word /\ entry.vrom_end \in Word
           /\ stat.result = "OK" => /\ stat.offset \in Word /\ stat.size \in Word
                                    /\ stat.file_size \in Word
           /\ Len(Stream.out) \in Word
<1>1. i \in Files(rom) /\ IsRom(rom)
    BY JobIs
<1>2. entry.operation \in Operations /\ entry.vrom_start \in Word /\ entry.vrom_end \in Word
    BY <1>1, JobIs DEF entry
<1>3. stat.result = "OK" => stat.offset \in Word /\ stat.size \in Word /\ stat.file_size \in Word
    BY <1>1, StatSays DEF stat
<1>4. Len(Stream.out) \in Word
  <2>1. \A k : Len(Content(rom, i, k)) \in Word
    BY <1>1, ContentIsSeq
  <2>2. Stream.out = Content(rom, i, form + 1) \/ Stream.out = Content(rom, i, 0)
    BY DEF Stream
  <2>3. QED
    BY <2>1, <2>2
<1>5. QED
    BY <1>1, <1>2, <1>3, <1>4

-----------------------------------------------------------------------------
(* Where the loops stand: no counter leaves its word, however the coder    *)
(* splits its work.                                                        *)
CountersInv ==
    /\ job \in Jobs
    /\ i \in 0..count
    /\ DOMAIN dma = 0..(i - 1)
    /\ position \in Word /\ rom_size \in Word /\ result \in Word
    /\ bytes_in \in Word /\ bytes_out \in Word
    /\ avail_in \in 0..CHUNK_SIZE /\ avail_in \in Word
    /\ pc \in {"copy", "read", "code", "entry"} =>
          i < count /\ ~Skipped(entry) /\ stat.result = "OK"
    /\ pc = "copy" => bytes_out <= stat.size
    /\ pc \in {"read", "code"} => /\ bytes_in <= stat.size /\ avail_in <= bytes_in
                                  /\ bytes_out <= Len(Stream.out)
                                  /\ entry.operation # "COPY"
    /\ pc = "pad" => rom_size + bytes_out \in Word
    /\ pc = "table" => bytes_out <= count
    /\ pc \in {"pad", "table", "check", "close"} => i = count

LEMMA CountersInit == Init => CountersInv
<1> SUFFICES ASSUME Init
             PROVE  CountersInv
    OBVIOUS
<1>1. job \in Jobs /\ count \in Nat
    BY JobIs DEF Init
<1>2. 0 \in Word /\ 0 \in 0..CHUNK_SIZE /\ 0 \in 0..count /\ 0..(0 - 1) = {}
    BY <1>1, WordsAssumption, SizesAssumption DEF Word
<1>3. QED
    BY <1>1, <1>2 DEF Init, CountersInv

LEMMA CountersAbort ==
    ASSUME CountersInv, NEW r, Abort(r)
    PROVE  CountersInv'
BY SameJob DEF CountersInv, Abort, placement

LEMMA CountersOpen ==
    ASSUME CountersInv, OpenOutput \/ AllocTable
    PROVE  CountersInv'
<1>1. CASE \E r : Abort(r)
    BY <1>1, CountersAbort
<1>2. CASE /\ pc' \in {"alloc", "file"}
           /\ UNCHANGED <<job, error, placement, coding, bytes_out, result>>
    BY <1>2, SameJob DEF CountersInv, placement, coding
<1>3. QED
    BY <1>1, <1>2 DEF OpenOutput, AllocTable

LEMMA CountersSkip ==
    ASSUME CountersInv, SkipFile
    PROVE  CountersInv'
<1>1. job' = job /\ i' = i + 1 /\ i < count /\ DOMAIN dma' = 0..i /\ pc' = "file"
    BY DEF SkipFile, AddEntry
<1>2. count \in Nat /\ count' = count
    BY <1>1, JobIs, SameJob DEF CountersInv
<1>3. i' \in 0..count' /\ DOMAIN dma' = 0..(i' - 1)
    BY <1>1, <1>2 DEF CountersInv
<1>4. QED
    BY <1>1, <1>3 DEF CountersInv, SkipFile, coding, holding

LEMMA CountersBegin ==
    ASSUME CountersInv, BeginFile
    PROVE  CountersInv'
<1>1. CASE \E r : Abort(r)
    BY <1>1, CountersAbort
<1>2. CASE /\ stat.result = "OK"
           /\ bytes_in' = 0 /\ avail_in' = 0 /\ taken' = <<>> /\ bytes_out' = 0
           /\ \/ /\ entry.operation = "COPY"
                 /\ pc' = "copy"
                 /\ UNCHANGED stream
              \/ /\ entry.operation # "COPY"
                 /\ pc' = IF stat.file_size = 0 THEN "entry" ELSE "read"
                 /\ stream' = IF stat.file_size = 0 THEN stream ELSE "open"
           /\ UNCHANGED <<job, error, image, placement, holding>>
  <2>1. 0 \in Word /\ 0 \in 0..CHUNK_SIZE
    BY WordsAssumption, SizesAssumption DEF Word
  <2>2. stat.size \in Nat /\ Len(Stream.out) \in Nat
    BY <1>2, FileIs, WordsAreNat DEF CountersInv, BeginFile
  <2>3. job' = job /\ i' = i /\ i < count /\ ~Skipped(entry)
    BY <1>2 DEF BeginFile, placement
  <2>4. entry' = entry /\ stat' = stat /\ Stream' = Stream /\ count' = count
    BY <2>3, SameJob
  <2>5. 0 <= stat.size /\ 0 <= Len(Stream.out)
    BY <2>2
  <2>6. QED
    BY <1>2, <2>1, <2>3, <2>4, <2>5 DEF CountersInv, placement, holding
<1>3. QED
    BY <1>1, <1>2 DEF BeginFile

(* A write that goes on leaves everything but what it says. *)
LEMMA CountersCopy ==
    ASSUME CountersInv, CopyChunk \/ CopyDone
    PROVE  CountersInv'
<1> DEFINE left == stat.size - bytes_out
           have == IF left < CHUNK_SIZE THEN left ELSE CHUNK_SIZE
<1>1. CASE \E r : Abort(r)
    BY <1>1, CountersAbort
<1>2. CASE /\ pc = "copy" /\ left > 0
           /\ bytes_out' = bytes_out + have
           /\ UNCHANGED <<job, pc, error, placement, coding, holding>>
  <2>1. job' = job /\ i' = i
    BY <1>2 DEF placement
  <2>2. entry' = entry /\ stat' = stat /\ Stream' = Stream /\ count' = count
    BY <2>1, SameJob
  <2>3. stat.size \in Word /\ bytes_out \in Word
    BY <1>2, FileIs DEF CountersInv
  <2>4. bytes_out' \in Word /\ bytes_out' <= stat.size
    BY <1>2, <2>3, SizesAssumption, WordsAssumption DEF Word
  <2> HIDE DEF have, left
  <2>5. QED
    BY <1>2, <2>1, <2>2, <2>4 DEF CountersInv, placement, coding, holding
<1>3. CASE CopyDone
    BY <1>3, SameJob DEF CountersInv, CopyDone, placement, coding, holding
<1>4. QED
    BY <1>1, <1>2, <1>3 DEF CopyChunk, Write

LEMMA CountersRead ==
    ASSUME CountersInv, ReadChunk
    PROVE  CountersInv'
<1> DEFINE left == stat.size - bytes_in
           want == IF left < CHUNK_SIZE THEN left ELSE CHUNK_SIZE
<1>1. CASE \E r : Abort(r)
    BY <1>1, CountersAbort
<1>2. CASE /\ avail_in' = want
           /\ bytes_in' = bytes_in + want
           /\ pc' = "code"
           /\ UNCHANGED <<job, error, image, placement, taken, stream, bytes_out, holding>>
  <2>1. job' = job /\ i' = i /\ pc = "read"
    BY <1>2 DEF ReadChunk, placement
  <2>2. entry' = entry /\ stat' = stat /\ Stream' = Stream /\ count' = count
    BY <2>1, SameJob
  <2>3. stat.size \in Word /\ bytes_in \in Word /\ bytes_in <= stat.size
    BY <2>1, FileIs DEF CountersInv
  <2>4. /\ bytes_in' \in Word /\ bytes_in' <= stat.size
        /\ avail_in' \in 0..CHUNK_SIZE /\ avail_in' \in Word /\ avail_in' <= bytes_in'
    BY <1>2, <2>3, SizesAssumption, WordsAssumption DEF Word
  <2> HIDE DEF want, left
  <2>5. QED
    BY <1>2, <2>1, <2>2, <2>4 DEF CountersInv, placement, holding
<1>3. QED
    BY <1>1, <1>2 DEF ReadChunk

(* A call of the coder that goes well and whose output is written. *)
CodeGoesOn(c, e, end) ==
    LET all == taken \o Prefix(InputChunk, c)
        done == end /\ ~CallAgain(c, e)
    IN /\ MayCode(Stream, taken, bytes_out, InputChunk, CHUNK_SIZE, Finish, c, e, end)
       /\ ~Malformed(Stream, taken, InputChunk, Finish, c)
       /\ Fits(rom_start + bytes_out, Len(Produced(Stream, all, bytes_out, e)))
       /\ image' = Overlay(rom_start + bytes_out, Produced(Stream, all, bytes_out, e))
       /\ taken' = all
       /\ avail_in' = avail_in - c
       /\ bytes_out' = bytes_out + e
       /\ pc' = IF CallAgain(c, e) THEN "code" ELSE IF done THEN "entry" ELSE "read"
       /\ stream' = IF done THEN "ended" ELSE stream
       /\ UNCHANGED <<job, error, placement, bytes_in, holding>>

LEMMA CodeSteps ==
    ASSUME CodeChunk
    PROVE  /\ pc = "code"
           /\ \/ \E c \in 0..avail_in, e \in 0..CHUNK_SIZE, end \in BOOLEAN :
                    CodeGoesOn(c, e, end)
              \/ \E r \in {CoderError, "OUT_OF_RANGE", "ERRNO"} : Abort(r)
<1>1. pc = "code"
    BY DEF CodeChunk
<1>2. CASE Abort(CoderError)
    BY <1>1, <1>2
<1>3. CASE ~Abort(CoderError)
  <2>1. PICK c \in 0..avail_in, e \in 0..CHUNK_SIZE, end \in BOOLEAN :
                LET s == Stream
                    chunk == ChunkAt(rom, stat.offset + bytes_in - avail_in, avail_in)
                    all == taken \o Prefix(chunk, c)
                    done == end /\ ~CallAgain(c, e)
                IN /\ MayCode(s, taken, bytes_out, chunk, CHUNK_SIZE, Finish, c, e, end)
                   /\ ~Malformed(s, taken, chunk, Finish, c)
                   /\ Write(rom_start + bytes_out, Produced(s, all, bytes_out, e),
                         /\ taken' = all
                         /\ avail_in' = avail_in - c
                         /\ bytes_out' = bytes_out + e
                         /\ pc' = IF CallAgain(c, e) THEN "code"
                                  ELSE IF done THEN "entry" ELSE "read"
                         /\ stream' = IF done THEN "ended" ELSE stream
                         /\ UNCHANGED <<job, error, placement, bytes_in, holding>>)
    BY <1>3 DEF CodeChunk
  <2>2. CodeGoesOn(c, e, end) \/ \E r \in {"OUT_OF_RANGE", "ERRNO"} : Abort(r)
    BY <2>1 DEF Write, CodeGoesOn, InputChunk
  <2>3. QED
    BY <1>1, <2>2
<1>4. QED
    BY <1>2, <1>3

LEMMA CountersCode ==
    ASSUME CountersInv, CodeChunk
    PROVE  CountersInv'
<1>1. CASE \E r : Abort(r)
    BY <1>1, CountersAbort
<1>2. ASSUME NEW c \in 0..avail_in, NEW e \in 0..CHUNK_SIZE, NEW end \in BOOLEAN,
             CodeGoesOn(c, e, end)
      PROVE  CountersInv'
  <2>1. /\ bytes_out + e <= Len(Stream.out)
        /\ avail_in' = avail_in - c
        /\ bytes_out' = bytes_out + e
        /\ pc' \in {"code", "entry", "read"}
        /\ UNCHANGED <<job, error, placement, bytes_in, holding>>
    <3>1. MayCode(Stream, taken, bytes_out, InputChunk, CHUNK_SIZE, Finish, c, e, end)
        BY <1>2 DEF CodeGoesOn
    <3>2. bytes_out + e <= Len(Stream.out)
        BY <3>1 DEF MayCode
    <3>3. QED
        BY <1>2, <3>2 DEF CodeGoesOn
  <2>2. job' = job /\ i' = i /\ pc = "code"
    BY <2>1 DEF CodeChunk, placement
  <2>3. entry' = entry /\ stat' = stat /\ Stream' = Stream /\ count' = count
    BY <2>2, SameJob
  <2>4. Len(Stream.out) \in Word /\ bytes_out \in Word /\ avail_in \in Word /\ bytes_in \in Word
    BY <2>2, FileIs DEF CountersInv
  <2>5. /\ bytes_out' \in Word /\ bytes_out' <= Len(Stream.out)
        /\ avail_in' \in Word /\ avail_in' \in 0..CHUNK_SIZE /\ avail_in' <= bytes_in
    <3> DEFINE all == Len(Stream.out)
    <3>1. avail_in \in 0..CHUNK_SIZE /\ avail_in <= bytes_in /\ all \in Word
        BY <2>2, <2>4 DEF CountersInv
    <3> HIDE DEF all
    <3>2. bytes_out' \in Word /\ bytes_out' <= all
        BY <2>1, <2>4, <3>1, SizesAssumption, WordsAssumption DEF Word, all
    <3>3. avail_in' \in Word /\ avail_in' \in 0..CHUNK_SIZE /\ avail_in' <= bytes_in
        BY <2>1, <2>4, <3>1, SizesAssumption, WordsAssumption DEF Word
    <3>4. QED
        BY <3>2, <3>3 DEF all
  <2>6. QED
    BY <2>1, <2>2, <2>3, <2>5 DEF CountersInv, placement, holding
<1>3. QED
    BY <1>1, <1>2, CodeSteps

LEMMA EndIsWord ==
    ASSUME CountersInv, pc = "entry"
    PROVE  End \in Word
<1>1. WORD \in Nat \ {0} /\ Word = 0..(WORD - 1)
    BY WordsAssumption DEF WORD, Word
<1>2. rom_start \in Nat /\ zelda64_align16(bytes_out) \in Nat
    BY FileIs, AlignRoundsUp, WordsAreNat DEF CountersInv, rom_start
<1>3. QED
    BY <1>1, <1>2 DEF End

LEMMA CountersEnd ==
    ASSUME CountersInv, EndFile
    PROVE  CountersInv'
<1>1. job' = job /\ i' = i + 1 /\ i < count /\ DOMAIN dma' = 0..i /\ pc' = "file"
    BY DEF EndFile, AddEntry, CountersInv
<1>2. count \in Nat /\ count' = count
    BY <1>1, JobIs, SameJob DEF CountersInv
<1>3. i' \in 0..count' /\ DOMAIN dma' = 0..(i' - 1)
    BY <1>1, <1>2 DEF CountersInv
<1>4. position' \in Word /\ rom_size' \in Word
    BY EndIsWord DEF EndFile, CountersInv
<1>5. QED
    BY <1>1, <1>3, <1>4 DEF CountersInv, EndFile, coding, holding

LEMMA CountersFinalise ==
    ASSUME CountersInv, Finalise
    PROVE  CountersInv'
<1>1. CASE \E r : Abort(r)
    BY <1>1, CountersAbort
<1>2. 0 \in Word /\ Word \subseteq Nat
    BY WordsAssumption, WordsAreNat DEF Word
<1>3. CASE FilesDone
  <2>1. job' = job /\ i' = i /\ bytes_out' = 0 /\ pc' \in {"pad", "table"}
    BY <1>3 DEF FilesDone, placement
  <2>2. i = count /\ rom_size + 0 \in Word /\ 0 <= count
    BY <1>2, <1>3, JobIs DEF FilesDone, CountersInv
  <2>3. QED
    BY <1>2, <1>3, <2>1, <2>2, SameJob DEF CountersInv, FilesDone, placement, coding, holding
<1>4. CASE PadChunk
  <2> DEFINE left == zelda64_ceil_pow2(rom_size) - (rom_size + bytes_out)
             want == IF left < CHUNK_SIZE THEN left ELSE CHUNK_SIZE
  <2>1. SUFFICES ASSUME bytes_out' = bytes_out + want,
                        UNCHANGED <<job, pc, error, placement, coding, holding>>
                 PROVE  CountersInv'
    BY <1>1, <1>4 DEF PadChunk, Write
  <2>2. pc = "pad" /\ left > 0
    BY <1>4 DEF PadChunk
  <2>3. /\ zelda64_ceil_pow2(rom_size) \in Word /\ rom_size \in Word /\ bytes_out \in Word
    BY CeilRoundsUp DEF CountersInv
  <2>4. bytes_out' \in Word /\ rom_size + bytes_out' \in Word
    BY <2>1, <2>2, <2>3, SizesAssumption, WordsAssumption DEF Word
  <2> HIDE DEF want, left
  <2>5. QED
    BY <2>1, <2>2, <2>4, SameJob DEF CountersInv, placement, coding, holding
<1>5. CASE PadDone
    BY <1>2, <1>5, SameJob, JobIs DEF CountersInv, PadDone, coding, holding
<1>6. CASE WriteTable
  <2> DEFINE left == count - bytes_out
             have == IF left < WRITE_COUNT THEN left ELSE WRITE_COUNT
  <2>1. SUFFICES ASSUME bytes_out' = bytes_out + have, pc' \in {"table", "check"},
                        UNCHANGED <<job, error, placement, coding, holding>>
                 PROVE  CountersInv'
    BY <1>1, <1>6 DEF WriteTable, Write
  <2>2. pc = "table" /\ left > 0
    BY <1>6 DEF WriteTable
  <2>3. bytes_out \in Word /\ count \in Word
    BY JobIs DEF CountersInv
  <2>4. bytes_out' \in Word /\ bytes_out' <= count
    BY <2>1, <2>2, <2>3, SizesAssumption, WordsAssumption DEF Word
  <2> HIDE DEF have, left
  <2>5. QED
    BY <2>1, <2>2, <2>4, SameJob DEF CountersInv, placement, coding, holding
<1>7. CASE WriteCheckCode
  <2>1. SUFFICES ASSUME pc' = "close",
                        UNCHANGED <<job, error, placement, coding, bytes_out, output, result>>
                 PROVE  CountersInv'
    BY <1>1, <1>7 DEF WriteCheckCode, Write
  <2>2. pc = "check"
    BY <1>7 DEF WriteCheckCode
  <2>3. QED
    BY <2>1, <2>2, SameJob DEF CountersInv, placement, coding
<1>8. QED
    BY <1>3, <1>4, <1>5, <1>6, <1>7 DEF Finalise

LEMMA CountersKept ==
    ASSUME CountersInv, [Next]_vars
    PROVE  CountersInv'
<1>1. CASE CloseOutput
    BY <1>1, SameJob DEF CountersInv, CloseOutput, placement, coding
<1>2. CASE UNCHANGED vars
    BY <1>2, SameJob DEF CountersInv, vars
<1>3. QED
    BY <1>1, <1>2, CountersOpen, CountersSkip, CountersBegin, CountersCopy, CountersRead,
       CountersCode, CountersEnd, CountersFinalise DEF Next, WriteFiles

-----------------------------------------------------------------------------
(* The image. *)

(* What a write of c at a leaves. *)
LEMMA OverlayIs ==
    ASSUME IsSeq(image), NEW a \in Nat, NEW c, IsSeq(c), NEW new, new = Overlay(a, c)
    PROVE  /\ IsSeq(new)
           /\ Len(new) = IF Len(c) = 0 THEN Len(image)
                         ELSE IF a + Len(c) > Len(image) THEN a + Len(c) ELSE Len(image)
           /\ \A k \in 1..Len(c) : new[a + k] = c[k]
           /\ \A k \in 1..Len(image) : k <= a \/ k > a + Len(c) => new[k] = image[k]
<1> DEFINE all == Len(image)
           n == Len(c)
           S == {image[k] : k \in DOMAIN image} \cup {c[k] : k \in DOMAIN c} \cup {Zero}
           gap == [k \in 1..(a - all) |-> Zero]
           wide == image \o gap
           front == SubSeq(wide, 1, a)
           back == SubSeq(image, a + n + 1, all)
<1>1. image \in Seq(S) /\ c \in Seq(S) /\ all \in Nat /\ n \in Nat
  <2>1. image \in Seq({image[k] : k \in DOMAIN image}) /\ c \in Seq({c[k] : k \in DOMAIN c})
    BY DEF IsSeq
  <2>2. QED
    BY <2>1
<1>2. CASE c = <<>>
  <2>1. new = image /\ n = 0
    BY <1>2 DEF Overlay
  <2>2. \A k \in 1..n : new[a + k] = c[k]
    BY <2>1
  <2>3. QED
    BY <2>1, <2>2
<1>3. CASE c # <<>>
  <2>1. new = front \o c \o back
    BY <1>3 DEF Overlay
  <2>2. n > 0
    BY <1>1, <1>3
  <2>3. gap \in Seq(S) /\ Len(gap) = IF a > all THEN a - all ELSE 0
    <3> DEFINE m == IF a > all THEN a - all ELSE 0
    <3>1. m \in Nat /\ 1..(a - all) = 1..m
        BY <1>1
    <3>2. Zero \in S
        OBVIOUS
    <3> HIDE DEF S, all, m
    <3>3. gap = [k \in 1..m |-> Zero]
        BY <3>1
    <3>4. gap \in Seq(S) /\ Len(gap) = m
      <4> HIDE DEF gap
      <4>1. gap \in [1..m -> S]
          BY <3>2, <3>3
      <4>2. QED
          BY <3>1, <4>1
    <3>5. QED
        BY <3>4 DEF m
  <2> HIDE DEF gap, S, all, n
  <2>4. /\ wide \in Seq(S) /\ Len(wide) = all + Len(gap)
        /\ \A k \in 1..all : wide[k] = image[k]
    <3>1. /\ wide \in Seq(S) /\ Len(wide) = Len(image) + Len(gap)
          /\ \A k \in 1..(Len(image) + Len(gap)) :
                wide[k] = IF k <= Len(image) THEN image[k] ELSE gap[k - Len(image)]
        BY <1>1, <2>3, ConcatIs
    <3>2. Len(image) = all /\ Len(gap) \in Nat
        BY <1>1, <2>3 DEF all
    <3>3. QED
        BY <1>1, <3>1, <3>2
  <2> HIDE DEF wide
  <2>5. a <= Len(wide) /\ Len(wide) \in Nat
    BY <1>1, <2>3, <2>4
  <2>6. front \in Seq(S) /\ Len(front) = a /\ \A k \in 1..a : front[k] = wide[k]
    <3>1. front = SubSeq(wide, 0 + 1, a)
        OBVIOUS
    <3>2. /\ front \in Seq(S) /\ Len(front) = IF 0 < a THEN a - 0 ELSE 0
          /\ \A k \in 1..Len(front) : front[k] = wide[0 + k]
        BY <2>4, <2>5, <3>1, SubSeqIs
    <3>3. QED
        BY <2>4, <3>2
  <2>7. /\ back \in Seq(S) /\ Len(back) = IF a + n < all THEN all - (a + n) ELSE 0
        /\ \A k \in 1..Len(back) : back[k] = image[a + n + k]
    <3>1. a + n \in Nat /\ all <= Len(image)
        BY <1>1 DEF all
    <3>2. QED
        BY <1>1, <3>1, SubSeqIs
  <2> HIDE DEF front, back
  <2> DEFINE mid == front \o c
  <2>8. /\ mid \in Seq(S) /\ Len(mid) = a + n
        /\ \A k \in 1..(a + n) : mid[k] = IF k <= a THEN front[k] ELSE c[k - a]
    BY <1>1, <2>6, ConcatIs DEF n
  <2> HIDE DEF mid
  <2>9. new = mid \o back
    BY <2>1 DEF mid
  <2>10. /\ new \in Seq(S) /\ Len(new) = a + n + Len(back)
         /\ \A k \in 1..(a + n + Len(back)) :
               new[k] = IF k <= a + n THEN mid[k] ELSE back[k - (a + n)]
    <3>1. /\ mid \o back \in Seq(S)
          /\ Len(mid \o back) = Len(mid) + Len(back)
          /\ \A k \in 1..(Len(mid) + Len(back)) :
                (mid \o back)[k] = IF k <= Len(mid) THEN mid[k] ELSE back[k - Len(mid)]
        BY <2>7, <2>8, ConcatIs
    <3>2. QED
        BY <2>8, <2>9, <3>1, Zenon
  <2>11. Len(new) = IF a + n > all THEN a + n ELSE all
    BY <1>1, <2>7, <2>10
  <2>12. ASSUME NEW k \in 1..n
         PROVE  new[a + k] = c[k]
    <3>1. a + k \in 1..(a + n) /\ ~(a + k <= a) /\ (a + k) - a = k /\ Len(back) \in Nat
        BY <1>1, <2>7
    <3>2. a + k \in 1..(a + n + Len(back)) /\ a + k <= a + n
        BY <1>1, <3>1
    <3>3. QED
        BY <2>8, <2>10, <3>1, <3>2
  <2>13. ASSUME NEW k \in 1..all, k <= a \/ k > a + n
         PROVE  new[k] = image[k]
    <3>1. Len(back) \in Nat
        BY <2>7
    <3>2. CASE k <= a
      <4>1. k \in 1..(a + n + Len(back)) /\ k <= a + n /\ k \in 1..(a + n) /\ k \in 1..a
          BY <1>1, <3>1, <3>2
      <4>2. QED
          BY <2>4, <2>6, <2>8, <2>10, <3>2, <4>1
    <3>3. CASE k > a + n
      <4>1. /\ a + n < all /\ Len(back) = all - (a + n) /\ k - (a + n) \in 1..Len(back)
            /\ a + n + (k - (a + n)) = k
            /\ k \in 1..(a + n + Len(back)) /\ ~(k <= a + n)
          BY <1>1, <2>7, <3>3
      <4>2. QED
          BY <2>7, <2>10, <4>1
    <3>4. QED
        BY <2>13, <3>2, <3>3
  <2>14. IsSeq(new)
    BY <2>10, SeqIs
  <2>15. QED
    BY <2>2, <2>11, <2>12, <2>13, <2>14 DEF n, all
<1>4. QED
    BY <1>2, <1>3

-----------------------------------------------------------------------------
(* The new table holds words, whatever is written where. *)
TableInv ==
    \A k \in 0..(i - 1) : {dma[k].vrom_start, dma[k].vrom_end, dma[k].rom_start,
                           dma[k].rom_end} \subseteq Word

LEMMA TableInit == Init => TableInv
BY DEF Init, TableInv

LEMMA AddEntryIs ==
    ASSUME i \in Nat, NEW e, AddEntry(e)
    PROVE  /\ i' = i + 1
           /\ DOMAIN dma' = 0..i
           /\ \A k \in 0..(i - 1) : dma'[k] = dma[k]
           /\ dma'[i] = e
           /\ \A k \in 0..(i' - 1) : k \in 0..(i - 1) \/ k = i
BY DEF AddEntry

LEMMA TableKept ==
    ASSUME CountersInv, TableInv, [Next]_vars
    PROVE  TableInv'
<1>1. i \in Nat /\ count \in Nat
    BY JobIs DEF CountersInv
<1>2. ASSUME NEW e, AddEntry(e),
             {e.vrom_start, e.vrom_end, e.rom_start, e.rom_end} \subseteq Word
      PROVE  TableInv'
    BY <1>1, <1>2, AddEntryIs DEF TableInv
<1>3. 0 \in Word /\ UINT32_MAX \in Word /\ Word \subseteq Nat
    BY WordsAssumption, WordsAreNat DEF Word
<1>4. CASE SkipFile
  <2>1. entry.vrom_start \in Word /\ entry.vrom_end \in Word
    BY <1>4, FileIs DEF SkipFile, CountersInv
  <2>2. CASE AddEntry([vrom_start |-> entry.vrom_start, vrom_end |-> entry.vrom_end,
                       rom_start |-> UINT32_MAX, rom_end |-> UINT32_MAX])
    BY <1>2, <1>3, <2>1, <2>2
  <2>3. CASE AddEntry([vrom_start |-> 0, vrom_end |-> 0, rom_start |-> 0, rom_end |-> 0])
    BY <1>2, <1>3, <2>3
  <2>4. QED
    BY <1>4, <2>2, <2>3 DEF SkipFile
<1>5. CASE EndFile
  <2>1. entry.vrom_start \in Word /\ entry.vrom_end \in Word /\ rom_start \in Word /\ End \in Word
    BY <1>5, FileIs, EndIsWord DEF EndFile, CountersInv, rom_start
  <2> DEFINE e == [vrom_start |-> entry.vrom_start, vrom_end |-> entry.vrom_end,
                   rom_start |-> rom_start,
                   rom_end |-> IF entry.operation = "COMPRESS" THEN End ELSE 0]
  <2>2. {e.vrom_start, e.vrom_end, e.rom_start, e.rom_end} \subseteq Word
    BY <1>3, <2>1
  <2>3. AddEntry(e)
    BY <1>5 DEF EndFile
  <2> HIDE DEF e
  <2>4. QED
    BY <1>2, <2>2, <2>3
<1>6. CASE i' = i /\ dma' = dma
    BY <1>6 DEF TableInv
<1>7. ASSUME NEW r, Abort(r)
      PROVE  i' = i /\ dma' = dma
    BY <1>7 DEF Abort, placement
<1>8. ASSUME Next, ~SkipFile, ~EndFile
      PROVE  i' = i /\ dma' = dma
  <2>1. CASE OpenOutput \/ AllocTable
    BY <1>7, <2>1 DEF OpenOutput, AllocTable, placement
  <2>2. CASE BeginFile
    BY <1>7, <2>2 DEF BeginFile, placement
  <2>3. CASE CopyChunk \/ CopyDone
    BY <1>7, <2>3 DEF CopyChunk, CopyDone, Write, placement
  <2>4. CASE ReadChunk
    BY <1>7, <2>4 DEF ReadChunk, placement
  <2>5. CASE CodeChunk
    BY <1>7, <2>5, Zenon DEF CodeChunk, Write, placement
  <2>6. CASE FilesDone \/ PadChunk \/ PadDone
    BY <1>7, <2>6 DEF FilesDone, PadChunk, PadDone, Write, placement
  <2>7. CASE WriteTable \/ WriteCheckCode
    BY <1>7, <2>7 DEF WriteTable, WriteCheckCode, Write, placement
  <2>8. CASE CloseOutput
    BY <2>8 DEF CloseOutput, placement
  <2>9. QED
    BY <1>8, <2>1, <2>2, <2>3, <2>4, <2>5, <2>6, <2>7, <2>8 DEF Next, WriteFiles, Finalise
<1>9. CASE UNCHANGED vars
    BY <1>6, <1>9 DEF vars
<1>10. QED
    BY <1>4, <1>5, <1>6, <1>8, <1>9

-----------------------------------------------------------------------------
(* The check code is that of the image as it is left: nothing is written   *)
(* behind it, and where it is put is outside of what it covers.            *)
CodeInv ==
    /\ IsSeq(image)
    /\ pc # "done" => error = "OK"
    /\ pc = "close" \/ Succeeded => image[CHECK_CODE + 1] = CheckCode(image)

LEMMA CodeInit == Init => CodeInv
<1>1. IsSeq(<<>>)
    BY ShortSeqs
<1>2. QED
    BY <1>1 DEF Init, CodeInv, Succeeded

LEMMA CodeAbort ==
    ASSUME CodeInv, NEW r, r # "OK", Abort(r)
    PROVE  CodeInv'
BY DEF CodeInv, Abort, Succeeded

(* Storing the code leaves the code as it is. *)
LEMMA CodeStored ==
    ASSUME IsSeq(image), Len(image) >= CHECK_CODE_END,
           image' = Overlay(CHECK_CODE, <<CheckCode(image)>>)
    PROVE  IsSeq(image') /\ image'[CHECK_CODE + 1] = CheckCode(image')
<1> DEFINE c == <<CheckCode(image)>>
           new == Overlay(CHECK_CODE, c)
           from == CHECK_CODE_START
           to == CHECK_CODE_END
<1>1. /\ CHECK_CODE \in Nat /\ from \in Nat /\ to \in Nat
      /\ CHECK_CODE < from /\ Len(image) >= to
    BY SizesAssumption DEF CHECK_CODE
<1>2. IsSeq(c) /\ Len(c) = 1 /\ c[1] = CheckCode(image)
    BY ShortSeqs
<1> HIDE DEF c, from, to
<1>3. /\ IsSeq(new)
      /\ Len(new) = IF Len(c) = 0 THEN Len(image)
                    ELSE IF CHECK_CODE + Len(c) > Len(image) THEN CHECK_CODE + Len(c)
                    ELSE Len(image)
      /\ \A k \in 1..Len(c) : new[CHECK_CODE + k] = c[k]
      /\ \A k \in 1..Len(image) :
            k <= CHECK_CODE \/ k > CHECK_CODE + Len(c) => new[k] = image[k]
  <2>1. CHECK_CODE \in Nat /\ IsSeq(c) /\ new = Overlay(CHECK_CODE, c)
    BY <1>1, <1>2
  <2> HIDE DEF new
  <2>2. QED
    BY <2>1, OverlayIs
<1> HIDE DEF new
<1>4. new[CHECK_CODE + 1] = CheckCode(image)
    BY <1>2, <1>3
<1>5. Len(image) \in Nat /\ Len(new) \in Nat /\ to <= Len(new)
    BY <1>1, <1>2, <1>3, SeqParts
<1>6. \A k \in 1..Len(image) : k > CHECK_CODE + 1 => new[k] = image[k]
    BY <1>2, <1>3
<1>7. SubSeq(new, from + 1, to) = SubSeq(image, from + 1, to)
  <2> DEFINE u == SubSeq(new, from + 1, to)
             v == SubSeq(image, from + 1, to)
             n == IF from < to THEN to - from ELSE 0
  <2>1. u \in Seq({new[k] : k \in DOMAIN new}) /\ Len(u) = n
        /\ \A k \in 1..Len(u) : u[k] = new[from + k]
    <3>1. new \in Seq({new[k] : k \in DOMAIN new})
        BY <1>3 DEF IsSeq
    <3>2. QED
        BY <1>1, <1>5, <3>1, SubSeqIs
  <2>2. v \in Seq({image[k] : k \in DOMAIN image}) /\ Len(v) = n
        /\ \A k \in 1..Len(v) : v[k] = image[from + k]
    <3>1. image \in Seq({image[k] : k \in DOMAIN image}) /\ to <= Len(image)
        BY <1>1, <1>5 DEF IsSeq
    <3>2. QED
        BY <1>1, <3>1, SubSeqIs
  <2>3. n \in Nat /\ \A k \in 1..n : from + k \in 1..Len(image) /\ from + k > CHECK_CODE + 1
    BY <1>1, <1>5
  <2> HIDE DEF u, v, n
  <2>4. \A k \in 1..n : u[k] = v[k]
    BY <1>6, <2>1, <2>2, <2>3
  <2>5. QED
    BY <2>1, <2>2, <2>4 DEF u, v
<1>8. CheckCode(new) = CheckCode(image)
    BY <1>7 DEF CheckCode, Region, from, to
<1>9. QED
    BY <1>3, <1>4, <1>8 DEF new, c

LEMMA RomStartIsNat ==
    ASSUME CountersInv, pc \in {"copy", "code", "entry"}
    PROVE  rom_start \in Word /\ rom_start \in Nat /\ bytes_out \in Nat
BY FileIs, WordsAreNat DEF CountersInv, rom_start

LEMMA CodeKept ==
    ASSUME CountersInv, TableInv, CodeInv, [Next]_vars
    PROVE  CodeInv'
<1>1. CASE \E r : r # "OK" /\ Abort(r)
    BY <1>1, CodeAbort
<1>2. ASSUME NEW a \in Nat, NEW c, IsSeq(c), image' = Overlay(a, c)
      PROVE  IsSeq(image')
    BY <1>2, OverlayIs DEF CodeInv
<1>3. ASSUME IsSeq(image'), error' = error, pc \notin {"close", "done"}, pc' \notin {"close", "done"}
      PROVE  CodeInv'
    BY <1>3 DEF CodeInv, Succeeded
<1>4. ASSUME image' = image, error' = error, pc \notin {"close", "done"},
             pc' \notin {"close", "done"}
      PROVE  CodeInv'
    BY <1>3, <1>4 DEF CodeInv
<1>5. CASE OpenOutput
  <2>1. CASE output' = "open"
    <3>1. /\ pc = "open" /\ pc' = "alloc" /\ error' = error
          /\ image' = IF job.target = "FILE" THEN <<>> ELSE [k \in 1..job.room |-> Old]
        BY <1>5, <2>1 DEF OpenOutput, Abort
    <3>2. job.room \in Nat
        BY JobIs DEF CountersInv
    <3>3. IsSeq(<<>>) /\ IsSeq([k \in 1..job.room |-> Old])
      <4>1. IsSeq(<<>>)
          BY ShortSeqs
      <4>2. IsSeq([k \in 1..job.room |-> Old])
          BY <3>2, FunctionIsIsSeq
      <4>3. QED
          BY <4>1, <4>2
    <3>4. IsSeq(image')
        BY <3>1, <3>3
    <3>5. QED
        BY <1>3, <3>1, <3>4
  <2>2. QED
    BY <1>1, <1>5, <2>1 DEF OpenOutput
<1>6. CASE AllocTable
    BY <1>1, <1>4, <1>6 DEF AllocTable
<1>7. CASE SkipFile \/ CopyDone \/ EndFile
    BY <1>4, <1>7 DEF SkipFile, CopyDone, EndFile
<1>8. CASE BeginFile \/ ReadChunk
    BY <1>1, <1>4, <1>8 DEF BeginFile, ReadChunk, CoderError
<1>9. CASE CopyChunk
  <2> DEFINE left == stat.size - bytes_out
             have == IF left < CHUNK_SIZE THEN left ELSE CHUNK_SIZE
             c == ChunkAt(rom, stat.offset + bytes_out, have)
  <2>1. have \in Nat /\ rom_start + bytes_out \in Nat
    <3>1. pc = "copy" /\ left > 0
        BY <1>9 DEF CopyChunk
    <3>2. stat.size \in Nat
        BY <3>1, FileIs, WordsAreNat DEF CountersInv
    <3>3. rom_start \in Nat /\ bytes_out \in Nat
        BY <3>1, RomStartIsNat
    <3>4. QED
        BY <3>1, <3>2, <3>3, SizesAssumption
  <2> HIDE DEF have
  <2>2. IsSeq(c)
    BY <2>1, FunctionIsIsSeq DEF ChunkAt
  <2> HIDE DEF c
  <2>3. CASE image' = Overlay(rom_start + bytes_out, c) /\ UNCHANGED <<pc, error>>
    BY <1>2, <1>3, <1>9, <2>1, <2>2, <2>3 DEF CopyChunk
  <2>4. QED
    BY <1>1, <1>9, <2>3 DEF CopyChunk, Write, c, have
<1>10. CASE CodeChunk
  <2>1. ASSUME NEW c \in 0..avail_in, NEW e \in 0..CHUNK_SIZE, NEW end \in BOOLEAN,
               CodeGoesOn(c, e, end)
        PROVE  CodeInv'
    <3>1. /\ image' = Overlay(rom_start + bytes_out,
                             Produced(Stream, taken \o Prefix(InputChunk, c), bytes_out, e))
          /\ pc' \in {"code", "entry", "read"}
          /\ UNCHANGED error
        BY <2>1 DEF CodeGoesOn
    <3>2. e \in Nat
        BY SizesAssumption
    <3>3. IsSeq(Produced(Stream, taken \o Prefix(InputChunk, c), bytes_out, e))
        BY <3>2, FunctionIsIsSeq DEF Produced
    <3>4. pc = "code"
        BY <1>10, CodeSteps
    <3>5. rom_start + bytes_out \in Nat
        BY <3>4, RomStartIsNat
    <3>6. IsSeq(image')
        BY <1>2, <3>1, <3>3, <3>5
    <3>7. QED
        BY <1>3, <3>1, <3>4, <3>6
  <2>2. CoderError # "OK"
    BY DEF CoderError
  <2>3. QED
    BY <1>1, <1>10, <2>1, <2>2, CodeSteps
<1>11. CASE FilesDone \/ PadDone
    BY <1>4, <1>11 DEF FilesDone, PadDone
<1>12. CASE PadChunk
  <2> DEFINE left == zelda64_ceil_pow2(rom_size) - (rom_size + bytes_out)
             want == IF left < CHUNK_SIZE THEN left ELSE CHUNK_SIZE
             c == [k \in 1..want |-> IF job.pad = "RAMP" THEN Ramp ELSE Zero]
  <2>1. want \in Nat /\ rom_size + bytes_out \in Nat
    <3>1. left > 0
        BY <1>12 DEF PadChunk
    <3>2. rom_size \in Nat /\ bytes_out \in Nat /\ zelda64_ceil_pow2(rom_size) \in Nat
        BY CeilRoundsUp, WordsAreNat DEF CountersInv
    <3>3. QED
        BY <3>1, <3>2, SizesAssumption
  <2> HIDE DEF want
  <2>2. IsSeq(c)
    BY <2>1, FunctionIsIsSeq
  <2> HIDE DEF c
  <2>3. CASE image' = Overlay(rom_size + bytes_out, c) /\ UNCHANGED <<pc, error>>
    BY <1>2, <1>3, <1>12, <2>1, <2>2, <2>3 DEF PadChunk
  <2>4. QED
    BY <1>1, <1>12, <2>3 DEF PadChunk, Write, c, want
<1>13. CASE WriteTable
  <2> DEFINE left == count - bytes_out
             have == IF left < WRITE_COUNT THEN left ELSE WRITE_COUNT
             c == [k \in 1..(have * ENTRY_CELLS) |->
                      TableCell(bytes_out + (k - 1) \div ENTRY_CELLS, (k - 1) % ENTRY_CELLS)]
             a == dma[2].vrom_start + bytes_out * ENTRY_CELLS
  <2>1. bytes_out \in Nat /\ count \in Nat /\ count > 2 /\ i = count
    BY <1>13, JobIs, WordsAreNat DEF CountersInv, WriteTable
  <2>2. have * ENTRY_CELLS \in Nat
    BY <1>13, <2>1, SizesAssumption DEF WriteTable, ENTRY_CELLS
  <2>3. a \in Nat
    <3>1. 2 \in 0..(i - 1)
        BY <2>1
    <3>2. dma[2].vrom_start \in Nat
        BY <3>1, WordsAreNat DEF TableInv
    <3>3. QED
        BY <2>1, <3>2 DEF ENTRY_CELLS
  <2> HIDE DEF have, a
  <2>4. IsSeq(c)
    BY <2>2, FunctionIsIsSeq
  <2> HIDE DEF c
  <2>5. CASE image' = Overlay(a, c) /\ pc' \in {"table", "check"} /\ UNCHANGED error
    BY <1>2, <1>3, <1>13, <2>3, <2>4, <2>5 DEF WriteTable
  <2>6. QED
    BY <1>1, <1>13, <2>5 DEF WriteTable, Write, a, c, have
<1>14. CASE WriteCheckCode
  <2>1. CASE /\ CheckCodeResult = "OK"
             /\ image' = Overlay(CHECK_CODE, <<CheckCode(image)>>)
             /\ pc' = "close" /\ UNCHANGED error
    <3>1. Len(image) >= CHECK_CODE_END
        BY <2>1, SeqParts, SizesAssumption DEF CheckCodeResult, CodeInv
    <3>2. IsSeq(image') /\ image'[CHECK_CODE + 1] = CheckCode(image')
        BY <2>1, <3>1, CodeStored DEF CodeInv
    <3>3. error = "OK"
        BY <1>14 DEF WriteCheckCode, CodeInv
    <3>4. QED
        BY <2>1, <3>2, <3>3 DEF CodeInv, Succeeded
  <2>2. QED
    BY <1>1, <1>14, <2>1 DEF WriteCheckCode, Write
<1>15. CASE CloseOutput
    BY <1>15 DEF CloseOutput, CodeInv, Succeeded
<1>16. CASE UNCHANGED vars
    BY <1>16 DEF vars, CodeInv, Succeeded
<1>17. QED
    BY <1>5, <1>6, <1>7, <1>8, <1>9, <1>10, <1>11, <1>12, <1>13, <1>14, <1>15, <1>16
       DEF Next, WriteFiles, Finalise

-----------------------------------------------------------------------------
(* What the properties claim follows. *)

IInv == ResourcesInv /\ CountersInv /\ TableInv /\ CodeInv

(* Every job reaches only states where the steps hold what they need, the  *)
(* counters and the table are words, and the code matches the image.       *)
THEOREM Invariance == Spec => []IInv
<1>1. Init => IInv
    BY ResourcesInit, CountersInit, TableInit, CodeInit DEF IInv
<1>2. IInv /\ [Next]_vars => IInv'
    BY ResourcesKept, CountersKept, TableKept, CodeKept DEF IInv
<1>3. QED
    BY <1>1, <1>2, PTL DEF Spec

(* No counter of write_rom leaves its word and no loop its file, however   *)
(* large the job: sizes and addresses wrap, they do not overflow into      *)
(* anything else.                                                          *)
THEOREM TypeCorrect == Spec => []TypeOK
<1>1. IInv => TypeOK
  <2>1. SUFFICES ASSUME IInv
                 PROVE  TypeOK
    OBVIOUS
  <2>2. i <= count /\ i \in Word
    BY <2>1, JobIs, WordsAssumption DEF IInv, CountersInv, Word
  <2>3. QED
    BY <2>1, <2>2, SizesAssumption DEF IInv, ResourcesInv, CountersInv, TypeOK
<1>2. QED
    BY <1>1, Invariance, PTL

(* However a write ends, the table it allocated is freed, a coder it       *)
(* started is ended and the output is closed.                              *)
THEOREM Released == Spec => []NothingLeaks
<1>1. IInv => NothingLeaks
    BY DEF IInv, ResourcesInv, NothingLeaks
<1>2. QED
    BY <1>1, Invariance, PTL

(* The check code in the header of a ROM that was written is that of the   *)
(* ROM as it is, with its new table and padding.                           *)
THEOREM CodeMatches == Spec => []CheckCodeMatches
<1>1. IInv => CheckCodeMatches
    BY DEF IInv, CodeInv, CheckCodeMatches
<1>2. QED
    BY <1>1, Invariance, PTL

-----------------------------------------------------------------------------
(* The steps, one by one: what each leaves in the image and where it may   *)
(* write.                                                                  *)

Place == /\ i' = i /\ dma' = dma
         /\ position' = position /\ rom_size' = rom_size
Frame == job' = job /\ error' = error /\ result' = result

(* Where the step at hand writes n cells at a. *)
InPlace(a, n) ==
    \/ /\ pc = "copy" /\ a = rom_start + bytes_out
       /\ bytes_out + n <= stat.size
    \/ /\ pc = "code" /\ a = rom_start + bytes_out
       /\ bytes_out + n <= Len(Stream.out)
    \/ /\ pc = "pad" /\ a = rom_size + bytes_out
       /\ a + n <= zelda64_ceil_pow2(rom_size)
    \/ /\ pc = "table" /\ a = dma[2].vrom_start + bytes_out * ENTRY_CELLS
       /\ bytes_out * ENTRY_CELLS + n <= count * ENTRY_CELLS
    \/ /\ pc = "check" /\ CheckCodeResult = "OK" /\ a = CHECK_CODE /\ n = 1

(* The cells c were written at a, and nothing else was. *)
Wrote(a, c) ==
    /\ a \in Nat /\ IsSeq(c) /\ InPlace(a, Len(c)) /\ Fits(a, Len(c))
    /\ IsSeq(image')
    /\ Len(image') = IF Len(c) = 0 THEN Len(image)
                     ELSE IF a + Len(c) > Len(image) THEN a + Len(c) ELSE Len(image)
    /\ \A k \in 1..Len(c) : image'[a + k] = c[k]
    /\ \A k \in 1..Len(image) : k <= a \/ k > a + Len(c) => image'[k] = image[k]

LEMMA WroteIs ==
    ASSUME IsSeq(image), NEW a \in Nat, NEW c, IsSeq(c), InPlace(a, Len(c)),
           Fits(a, Len(c)), image' = Overlay(a, c)
    PROVE  Wrote(a, c)
BY OverlayIs DEF Wrote

(* The steps that fail, and those that find no room. *)
Failures == {"ERRNO", "MEMORY_ERROR", "INVALID_ROM", "TRUNCATED", "UNSUPPORTED_CIC",
             "COMPRESS_ERROR", "DECOMPRESS_ERROR"}
Failed ==
    \/ \E r \in Failures : Abort(r)
    \/ pc = "file" /\ i < count /\ ~Skipped(entry) /\ stat.result # "OK" /\ Abort(stat.result)
Overrun ==
    /\ Abort("OUT_OF_RANGE")
    /\ \E a, n \in Nat : InPlace(a, n) /\ ~Fits(a, n)

Opened ==
    /\ pc = "open" /\ pc' = "alloc"
    /\ IsSeq(image')
    /\ Len(image') = IF job.target = "FILE" THEN 0 ELSE job.room
    /\ Frame /\ Place /\ UNCHANGED <<coding, bytes_out>>
Started ==
    /\ pc = "alloc" /\ pc' = "file"
    /\ Frame /\ Place /\ UNCHANGED <<image, coding, bytes_out>>
Begun ==
    /\ pc = "file" /\ i < count /\ ~Skipped(entry) /\ stat.result = "OK"
    /\ pc' = IF entry.operation = "COPY" THEN "copy"
             ELSE IF stat.file_size = 0 THEN "entry" ELSE "read"
    /\ bytes_in' = 0 /\ avail_in' = 0 /\ taken' = <<>> /\ bytes_out' = 0
    /\ Frame /\ Place /\ UNCHANGED image
Copied(n) ==
    /\ pc = "copy" /\ pc' = "copy"
    /\ Wrote(rom_start + bytes_out, ChunkAt(rom, stat.offset + bytes_out, n))
    /\ bytes_out' = bytes_out + n
    /\ Frame /\ Place /\ UNCHANGED coding
Coded(c, e, end) ==
    LET all == taken \o Prefix(InputChunk, c)
        done == end /\ ~CallAgain(c, e)
    IN /\ pc = "code"
       /\ pc' = IF CallAgain(c, e) THEN "code" ELSE IF done THEN "entry" ELSE "read"
       /\ MayCode(Stream, taken, bytes_out, InputChunk, CHUNK_SIZE, Finish, c, e, end)
       /\ ~Malformed(Stream, taken, InputChunk, Finish, c)
       /\ Wrote(rom_start + bytes_out, Produced(Stream, all, bytes_out, e))
       /\ taken' = all
       /\ avail_in' = avail_in - c
       /\ bytes_out' = bytes_out + e
       /\ Frame /\ Place /\ UNCHANGED bytes_in
PaddedOut(n) ==
    /\ pc = "pad" /\ pc' = "pad"
    /\ \E c : Len(c) = n /\ Wrote(rom_size + bytes_out, c)
    /\ bytes_out' = bytes_out + n
    /\ Frame /\ Place /\ UNCHANGED coding
TableCells(n) ==
    [k \in 1..(n * ENTRY_CELLS) |->
        TableCell(bytes_out + (k - 1) \div ENTRY_CELLS, (k - 1) % ENTRY_CELLS)]
Tabled(n) ==
    /\ pc = "table"
    /\ pc' = IF bytes_out + n = count THEN "check" ELSE "table"
    /\ Wrote(dma[2].vrom_start + bytes_out * ENTRY_CELLS, TableCells(n))
    /\ bytes_out' = bytes_out + n
    /\ Frame /\ Place /\ UNCHANGED coding
Checked ==
    /\ pc = "check" /\ pc' = "close" /\ CheckCodeResult = "OK"
    /\ Wrote(CHECK_CODE, <<CheckCode(image)>>)
    /\ Frame /\ Place /\ UNCHANGED <<coding, bytes_out>>
Closed ==
    /\ pc = "close" /\ pc' = "done" /\ result' = rom_size
    /\ job' = job /\ error' \in {error, "ERRNO"}
    /\ Place /\ UNCHANGED <<image, coding, bytes_out>>

(* What every layer of the invariant is kept by. *)
Step ==
    \/ Failed \/ Overrun \/ Opened \/ Started \/ SkipFile \/ Begun
    \/ (\E n \in 1..CHUNK_SIZE : Copied(n)) \/ CopyDone
    \/ ReadChunk /\ pc' = "code"
    \/ (\E c \in 0..avail_in, e \in 0..CHUNK_SIZE, end \in BOOLEAN : Coded(c, e, end))
    \/ EndFile \/ FilesDone
    \/ (\E n \in 1..CHUNK_SIZE : PaddedOut(n)) \/ PadDone
    \/ (\E n \in 1..WRITE_COUNT : Tabled(n)) \/ Checked \/ Closed
    \/ UNCHANGED vars

LEMMA CopySteps ==
    ASSUME CountersInv, IsSeq(image), CopyChunk
    PROVE  Failed \/ Overrun \/ \E n \in 1..CHUNK_SIZE : Copied(n)
<1> DEFINE left == stat.size - bytes_out
           n == IF left < CHUNK_SIZE THEN left ELSE CHUNK_SIZE
           c == ChunkAt(rom, stat.offset + bytes_out, n)
           a == rom_start + bytes_out
<1>1. pc = "copy" /\ left > 0
    BY DEF CopyChunk
<1>2. /\ stat.size \in Nat /\ bytes_out \in Nat /\ rom_start \in Nat
    BY <1>1, RomStartIsNat, FileIs, WordsAreNat DEF CountersInv
<1>3. n \in 1..CHUNK_SIZE /\ n \in Nat /\ a \in Nat /\ bytes_out + n <= stat.size
    BY <1>1, <1>2, SizesAssumption
<1>4. CASE Abort("ERRNO")
    BY <1>4 DEF Failed, Failures
<1>5. CASE ~Abort("ERRNO")
  <2>1. \/ /\ Fits(a, Len(c)) /\ image' = Overlay(a, c)
           /\ bytes_out' = bytes_out + n
           /\ UNCHANGED <<job, pc, error, placement, coding, holding>>
        \/ ~Fits(a, Len(c)) /\ Abort("OUT_OF_RANGE")
    BY <1>5 DEF CopyChunk, Write
  <2> HIDE DEF n
  <2>2. IsSeq(c) /\ Len(c) = n
    BY <1>3, FunctionIsIsSeq DEF ChunkAt
  <2> HIDE DEF c
  <2>3. InPlace(a, Len(c))
    BY <1>1, <1>3, <2>2 DEF InPlace
  <2>4. CASE ~Fits(a, Len(c)) /\ Abort("OUT_OF_RANGE")
    BY <1>3, <2>2, <2>3, <2>4 DEF Overrun
  <2>5. CASE /\ Fits(a, Len(c)) /\ image' = Overlay(a, c)
             /\ bytes_out' = bytes_out + n
             /\ UNCHANGED <<job, pc, error, placement, coding, holding>>
    <3>1. Wrote(a, c)
        BY <1>3, <2>2, <2>3, <2>5, WroteIs
    <3>2. Copied(n)
        BY <1>1, <2>5, <3>1 DEF Copied, Frame, Place, placement, holding, c
    <3>3. QED
        BY <1>3, <3>2
  <2>6. QED
    BY <2>1, <2>4, <2>5
<1>6. QED
    BY <1>4, <1>5

LEMMA CodeStepsAre ==
    ASSUME CountersInv, IsSeq(image), CodeChunk
    PROVE  Failed \/ Overrun \/
           \E c \in 0..avail_in, e \in 0..CHUNK_SIZE, end \in BOOLEAN : Coded(c, e, end)
<1>1. PICK c \in 0..avail_in, e \in 0..CHUNK_SIZE, end \in BOOLEAN :
            LET s == Stream
                chunk == ChunkAt(rom, stat.offset + bytes_in - avail_in, avail_in)
                all == taken \o Prefix(chunk, c)
                done == end /\ ~CallAgain(c, e)
            IN \/ /\ MayCode(s, taken, bytes_out, chunk, CHUNK_SIZE, Finish, c, e, end)
                  /\ ~Malformed(s, taken, chunk, Finish, c)
                  /\ Write(rom_start + bytes_out, Produced(s, all, bytes_out, e),
                        /\ taken' = all
                        /\ avail_in' = avail_in - c
                        /\ bytes_out' = bytes_out + e
                        /\ pc' = IF CallAgain(c, e) THEN "code"
                                 ELSE IF done THEN "entry" ELSE "read"
                        /\ stream' = IF done THEN "ended" ELSE stream
                        /\ UNCHANGED <<job, error, placement, bytes_in, holding>>)
               \/ Abort(CoderError)
  <2>1. 0 \in 0..avail_in /\ 0 \in 0..CHUNK_SIZE
    BY SizesAssumption DEF CountersInv
  <2>2. QED
    BY <2>1 DEF CodeChunk
<1> DEFINE all == taken \o Prefix(InputChunk, c)
           p == Produced(Stream, all, bytes_out, e)
           a == rom_start + bytes_out
<1>2. CASE Abort(CoderError)
    BY <1>2 DEF CoderError, Failed, Failures
<1>3. CASE ~Abort(CoderError)
  <2>1. /\ MayCode(Stream, taken, bytes_out, InputChunk, CHUNK_SIZE, Finish, c, e, end)
        /\ ~Malformed(Stream, taken, InputChunk, Finish, c)
        /\ \/ /\ Fits(a, Len(p)) /\ image' = Overlay(a, p)
              /\ taken' = all
              /\ avail_in' = avail_in - c
              /\ bytes_out' = bytes_out + e
              /\ pc' = IF CallAgain(c, e) THEN "code"
                       ELSE IF end /\ ~CallAgain(c, e) THEN "entry" ELSE "read"
              /\ UNCHANGED <<job, error, placement, bytes_in, holding>>
           \/ ~Fits(a, Len(p)) /\ Abort("OUT_OF_RANGE")
           \/ Abort("ERRNO")
    BY <1>1, <1>3 DEF Write, InputChunk
  <2>2. pc = "code"
    BY DEF CodeChunk
  <2>3. e \in Nat /\ a \in Nat
    BY <2>2, RomStartIsNat, SizesAssumption
  <2>4. IsSeq(p) /\ Len(p) = e
    BY <2>3, FunctionIsIsSeq DEF Produced
  <2>5. bytes_out + e <= Len(Stream.out)
    BY <2>1 DEF MayCode
  <2> HIDE DEF p
  <2>6. InPlace(a, Len(p))
    BY <2>2, <2>4, <2>5 DEF InPlace
  <2>7. CASE Abort("ERRNO")
    BY <2>7 DEF Failed, Failures
  <2>8. CASE ~Fits(a, Len(p)) /\ Abort("OUT_OF_RANGE")
    BY <2>3, <2>4, <2>6, <2>8 DEF Overrun
  <2>9. CASE /\ Fits(a, Len(p)) /\ image' = Overlay(a, p)
             /\ taken' = all
             /\ avail_in' = avail_in - c
             /\ bytes_out' = bytes_out + e
             /\ pc' = IF CallAgain(c, e) THEN "code"
                      ELSE IF end /\ ~CallAgain(c, e) THEN "entry" ELSE "read"
             /\ UNCHANGED <<job, error, placement, bytes_in, holding>>
    <3>1. Wrote(a, p)
        BY <2>3, <2>4, <2>6, <2>9, WroteIs
    <3>2. Coded(c, e, end)
        BY <2>1, <2>2, <2>9, <3>1 DEF Coded, Frame, Place, placement, holding, p
    <3>3. QED
        BY <3>2
  <2>10. QED
    BY <2>1, <2>7, <2>8, <2>9
<1>4. QED
    BY <1>2, <1>3

LEMMA PadSteps ==
    ASSUME CountersInv, IsSeq(image), PadChunk
    PROVE  Failed \/ Overrun \/ \E n \in 1..CHUNK_SIZE : PaddedOut(n)
<1> DEFINE left == zelda64_ceil_pow2(rom_size) - (rom_size + bytes_out)
           n == IF left < CHUNK_SIZE THEN left ELSE CHUNK_SIZE
           c == [k \in 1..n |-> IF job.pad = "RAMP" THEN Ramp ELSE Zero]
           a == rom_size + bytes_out
<1>1. pc = "pad" /\ left > 0
    BY DEF PadChunk
<1>2. rom_size \in Nat /\ bytes_out \in Nat /\ zelda64_ceil_pow2(rom_size) \in Nat
    BY CeilRoundsUp, WordsAreNat DEF CountersInv
<1>3. n \in 1..CHUNK_SIZE /\ n \in Nat /\ a \in Nat /\ a + n <= zelda64_ceil_pow2(rom_size)
    BY <1>1, <1>2, SizesAssumption
<1>4. \/ /\ Fits(a, Len(c)) /\ image' = Overlay(a, c)
         /\ bytes_out' = bytes_out + n
         /\ UNCHANGED <<job, pc, error, placement, coding, holding>>
      \/ ~Fits(a, Len(c)) /\ Abort("OUT_OF_RANGE")
      \/ Abort("ERRNO")
    BY DEF PadChunk, Write
<1> HIDE DEF n
<1>5. IsSeq(c) /\ Len(c) = n
    BY <1>3, FunctionIsIsSeq
<1> HIDE DEF c
<1>6. InPlace(a, Len(c))
    BY <1>1, <1>3, <1>5 DEF InPlace
<1>7. CASE Abort("ERRNO")
    BY <1>7 DEF Failed, Failures
<1>8. CASE ~Fits(a, Len(c)) /\ Abort("OUT_OF_RANGE")
    BY <1>3, <1>5, <1>6, <1>8 DEF Overrun
<1>9. CASE /\ Fits(a, Len(c)) /\ image' = Overlay(a, c)
           /\ bytes_out' = bytes_out + n
           /\ UNCHANGED <<job, pc, error, placement, coding, holding>>
  <2>1. Wrote(a, c)
    BY <1>3, <1>5, <1>6, <1>9, WroteIs
  <2>2. PaddedOut(n)
    BY <1>1, <1>5, <1>9, <2>1 DEF PaddedOut, Frame, Place, placement, holding
  <2>3. QED
    BY <1>3, <2>2
<1>10. QED
    BY <1>4, <1>7, <1>8, <1>9

LEMMA TableSteps ==
    ASSUME CountersInv, TableInv, IsSeq(image), WriteTable
    PROVE  Failed \/ Overrun \/ \E n \in 1..WRITE_COUNT : Tabled(n)
<1> DEFINE left == count - bytes_out
           n == IF left < WRITE_COUNT THEN left ELSE WRITE_COUNT
           c == TableCells(n)
           a == dma[2].vrom_start + bytes_out * ENTRY_CELLS
<1>1. pc = "table" /\ left > 0
    BY DEF WriteTable
<1>2. bytes_out \in Nat /\ count \in Nat /\ count > 2 /\ i = count
    BY <1>1, JobIs, WordsAreNat DEF CountersInv
<1>3. n \in 1..WRITE_COUNT /\ n \in Nat /\ bytes_out + n <= count
      /\ (n = left <=> bytes_out + n = count)
    BY <1>1, <1>2, SizesAssumption
<1>4. a \in Nat /\ n * ENTRY_CELLS \in Nat
      /\ bytes_out * ENTRY_CELLS + n * ENTRY_CELLS <= count * ENTRY_CELLS
  <2>1. 2 \in 0..(i - 1)
    BY <1>2
  <2>2. dma[2].vrom_start \in Nat
    BY <2>1, WordsAreNat DEF TableInv
  <2> HIDE DEF n
  <2>3. QED
    BY <1>2, <1>3, <2>2 DEF ENTRY_CELLS
<1>5. \/ /\ Fits(a, Len(c)) /\ image' = Overlay(a, c)
         /\ bytes_out' = bytes_out + n
         /\ pc' = IF n = left THEN "check" ELSE "table"
         /\ UNCHANGED <<job, error, placement, coding, holding>>
      \/ ~Fits(a, Len(c)) /\ Abort("OUT_OF_RANGE")
      \/ Abort("ERRNO")
    BY DEF WriteTable, Write, TableCells
<1> HIDE DEF n, a
<1>6. IsSeq(c) /\ Len(c) = n * ENTRY_CELLS
    BY <1>4, FunctionIsIsSeq DEF TableCells
<1> HIDE DEF c
<1>7. InPlace(a, Len(c))
    BY <1>1, <1>4, <1>6 DEF InPlace, a
<1>8. CASE Abort("ERRNO")
    BY <1>8 DEF Failed, Failures
<1>9. CASE ~Fits(a, Len(c)) /\ Abort("OUT_OF_RANGE")
    BY <1>4, <1>6, <1>7, <1>9 DEF Overrun
<1>10. CASE /\ Fits(a, Len(c)) /\ image' = Overlay(a, c)
            /\ bytes_out' = bytes_out + n
            /\ pc' = IF n = left THEN "check" ELSE "table"
            /\ UNCHANGED <<job, error, placement, coding, holding>>
  <2>1. Wrote(a, c)
    BY <1>4, <1>6, <1>7, <1>10, WroteIs
  <2>2. pc' = IF bytes_out + n = count THEN "check" ELSE "table"
    BY <1>3, <1>10
  <2>3. Tabled(n)
    BY <1>1, <1>10, <2>1, <2>2 DEF Tabled, Frame, Place, placement, holding, a, c
  <2>4. QED
    BY <1>3, <2>3
<1>11. QED
    BY <1>5, <1>8, <1>9, <1>10

LEMMA CheckSteps ==
    ASSUME IsSeq(image), WriteCheckCode
    PROVE  Failed \/ Overrun \/ Checked
<1> DEFINE c == <<CheckCode(image)>>
<1>1. CHECK_CODE \in Nat /\ 1 \in Nat
    BY DEF CHECK_CODE
<1>2. IsSeq(c) /\ Len(c) = 1
    BY ShortSeqs
<1>3. pc = "check"
    BY DEF WriteCheckCode
<1>4. CASE CheckCodeResult # "OK" /\ Abort(CheckCodeResult)
    BY <1>4 DEF CheckCodeResult, Failed, Failures
<1>5. CASE Abort("ERRNO")
    BY <1>5 DEF Failed, Failures
<1> HIDE DEF c
<1>6. CASE CheckCodeResult = "OK" /\ ~Fits(CHECK_CODE, Len(c)) /\ Abort("OUT_OF_RANGE")
    BY <1>1, <1>2, <1>3, <1>6 DEF Overrun, InPlace
<1>7. CASE /\ CheckCodeResult = "OK" /\ Fits(CHECK_CODE, Len(c))
           /\ image' = Overlay(CHECK_CODE, c)
           /\ pc' = "close"
           /\ UNCHANGED <<job, error, placement, coding, bytes_out, output, result>>
  <2>1. InPlace(CHECK_CODE, Len(c))
    BY <1>2, <1>3, <1>7 DEF InPlace
  <2>2. Wrote(CHECK_CODE, c)
    BY <1>1, <1>2, <1>7, <2>1, WroteIs
  <2>3. QED
    BY <1>3, <1>7, <2>2 DEF Checked, Frame, Place, placement, holding, c
<1>8. QED
    BY <1>4, <1>5, <1>6, <1>7 DEF WriteCheckCode, Write, c

LEMMA OtherSteps ==
    ASSUME CountersInv, OpenOutput \/ AllocTable \/ BeginFile \/ ReadChunk \/ CloseOutput
    PROVE  Failed \/ Opened \/ Started \/ Begun \/ (ReadChunk /\ pc' = "code") \/ Closed
<1>1. CASE OpenOutput
  <2>1. CASE \E r \in {"ERRNO", "MEMORY_ERROR"} : Abort(r)
    BY <2>1 DEF Failed, Failures
  <2>2. CASE /\ pc' = "alloc"
             /\ image' = IF job.target = "FILE" THEN <<>> ELSE [k \in 1..job.room |-> Old]
             /\ UNCHANGED <<job, error, placement, coding, bytes_out, memory, result>>
    <3>1. job.room \in Nat
        BY JobIs DEF CountersInv
    <3>2. IsSeq([k \in 1..job.room |-> Old]) /\ Len([k \in 1..job.room |-> Old]) = job.room
        BY <3>1, FunctionIsIsSeq
    <3>3. IsSeq(<<>>) /\ Len(<<>>) = 0
        BY ShortSeqs
    <3>4. IsSeq(image') /\ Len(image') = IF job.target = "FILE" THEN 0 ELSE job.room
      <4>1. CASE job.target = "FILE"
        <5>1. image' = <<>>
            BY <2>2, <4>1
        <5>2. IsSeq(image') /\ Len(image') = 0
            BY <3>3, <5>1, Zenon
        <5>3. QED
            BY <4>1, <5>2
      <4>2. CASE job.target # "FILE"
          BY <2>2, <3>2, <4>2, Zenon
      <4>3. QED
          BY <4>1, <4>2
    <3>5. QED
        BY <1>1, <2>2, <3>4 DEF OpenOutput, Opened, Frame, Place, placement, holding
  <2>3. QED
    BY <1>1, <2>1, <2>2 DEF OpenOutput
<1>2. CASE AllocTable
    BY <1>2 DEF AllocTable, Failed, Failures, Started, Frame, Place, placement
<1>3. CASE BeginFile
  <2>1. CASE \E r \in Failures : Abort(r)
    BY <2>1 DEF Failed
  <2>2. CASE stat.result # "OK" /\ Abort(stat.result)
    BY <1>3, <2>2 DEF BeginFile, Failed
  <2>3. CASE /\ stat.result = "OK"
             /\ bytes_in' = 0 /\ avail_in' = 0 /\ taken' = <<>> /\ bytes_out' = 0
             /\ \/ entry.operation = "COPY" /\ pc' = "copy"
                \/ /\ entry.operation # "COPY"
                   /\ pc' = IF stat.file_size = 0 THEN "entry" ELSE "read"
             /\ UNCHANGED <<job, error, image, placement, holding>>
    BY <1>3, <2>3 DEF BeginFile, Begun, Frame, Place, placement, holding
  <2>4. "ERRNO" \in Failures /\ CoderError \in Failures
    BY DEF CoderError, Failures
  <2>5. QED
    BY <1>3, <2>1, <2>2, <2>3, <2>4 DEF BeginFile
<1>4. CASE ReadChunk
    BY <1>4 DEF ReadChunk, Failed, Failures
<1>5. CASE CloseOutput
    BY <1>5 DEF CloseOutput, Closed, Place, placement
<1>6. QED
    BY <1>1, <1>2, <1>3, <1>4, <1>5

LEMMA Steps ==
    ASSUME CountersInv, TableInv, CodeInv, [Next]_vars
    PROVE  Step
<1>1. IsSeq(image)
    BY DEF CodeInv
<1>2. QED
    BY <1>1, CopySteps, CodeStepsAre, PadSteps, TableSteps, CheckSteps, OtherSteps
       DEF Next, WriteFiles, Finalise, Step

-----------------------------------------------------------------------------
(* What a sound job says of its files. *)

Own(f) == zelda64_layout_entry_bound(rom, job.layout, f)
Padded(f) == zelda64_align16(StoredSize(f))
StatOf(f) == zelda64_stat(rom, f)
FormOf(f) == IF zelda64_dmadata_kind(rom.dma[f]) = "STORED" THEN 0 ELSE 1

(* What is written of a file. *)
Stored(f) ==
    CASE job.layout[f].operation = "COPY" -> ChunkAt(rom, StatOf(f).offset, StatOf(f).size)
      [] job.layout[f].operation = "DECOMPRESS" -> Content(rom, f, 0)
      [] OTHER -> Content(rom, f, FormOf(f) + 1)

LEMMA StoredStat ==
    ASSUME NEW f, StatOf(f).result = "OK", zelda64_dmadata_kind(rom.dma[f]) = "STORED"
    PROVE  /\ StatOf(f).offset = rom.dma[f].rom_start
           /\ StatOf(f).size = rom.dma[f].vrom_end - rom.dma[f].vrom_start
BY DEF StatOf, zelda64_stat, Failure

LEMMA FileIsSound ==
    ASSUME job \in Jobs, IsSound(job), NEW f \in Files(rom), IsWritten(f),
           StatOf(f).result = "OK"
    PROVE  /\ StorageIsSound(rom, f)
           /\ StatOf(f).offset \in Nat /\ StatOf(f).size \in Nat \ {0}
           /\ rom.plain[f] \in Nat \ {0} /\ rom.plain[f] \in Word
           /\ rom.plain[f] = job.layout[f].vrom_end - job.layout[f].vrom_start
           /\ StatOf(f).file_size = rom.plain[f]
           /\ rom.packed[f] \in Nat /\ rom.packed[f] \in Word /\ rom.packed[f] >= HEADER
           /\ job.layout[f].vrom_start % ALIGN = 0
           /\ job.layout[f].operation \in Operations \ {"DELETE"}
<1> DEFINE st == StatOf(f)
           header == rom.cells[st.offset + 1]
<1>1. /\ IsRom(rom) /\ job.layout[f].operation \in Operations
      /\ job.layout[f].vrom_start = rom.dma[f].vrom_start
      /\ job.layout[f].vrom_end = rom.dma[f].vrom_end
      /\ rom.dma[f].vrom_start \in Nat /\ rom.dma[f].vrom_end \in Nat
      /\ rom.plain[f] \in Word /\ rom.packed[f] \in Word
      /\ rom.plain[f] \in Nat /\ rom.packed[f] \in Nat
    BY JobIs, WordsAreNat
<1>2. ~Skipped(job.layout[f]) /\ FilesAreSound(job)
    BY DEF IsSound, IsWritten
<1>3. /\ StorageIsSound(rom, f) /\ job.layout[f].vrom_start % ALIGN = 0
      /\ rom.packed[f] >= HEADER
    BY <1>2 DEF FilesAreSound, StatOf, rom
<1>4. /\ rom.plain[f] = rom.dma[f].vrom_end - rom.dma[f].vrom_start /\ rom.plain[f] # 0
      /\ job.layout[f].operation # "DELETE"
    BY <1>1, <1>2, <1>3 DEF StorageIsSound, Skipped
<1>5. st = zelda64_stat(rom, f)
    BY DEF StatOf
<1> HIDE DEF st
<1>6. st.result = "OK"
    BY DEF st
<1>7. st.offset \in Nat /\ st.size \in Nat
    BY <1>1, <1>5, <1>6, StatSays, WordsAreNat
<1>8. CASE /\ zelda64_dmadata_kind(rom.dma[f]) = "STORED"
           /\ st.file_size = st.size
  <2>1. st.size = rom.plain[f]
    BY <1>4, <1>6, <1>8, StoredStat DEF st
  <2>2. QED
    BY <1>1, <1>3, <1>4, <1>7, <1>8, <2>1 DEF st
<1>9. CASE /\ zelda64_dmadata_kind(rom.dma[f]) = "COMPRESSED"
           /\ st.size >= HEADER /\ st.offset + HEADER <= Len(rom.cells)
           /\ st.file_size = Len(Content(rom, header[2], header[3] - 1))
  <2> DEFINE c == Content(rom, f, 1)
  <2>1. Len(c) = rom.packed[f]
    BY <1>1, ContentLength
  <2>2. \A k \in 1..Len(c) : st.offset + k <= Len(rom.cells) => rom.cells[st.offset + k] = c[k]
    BY <1>3, <1>9 DEF StorageIsSound, st, StatOf
  <2>3. 1 \in 1..rom.packed[f] /\ Len(rom.cells) \in Nat
    BY <1>1, <1>3, CellsAreSeq DEF HEADER
  <2>4. c[1] = <<"file", f, 1, 1>>
    BY <1>1, <2>3 DEF Content
  <2>5. header = <<"file", f, 1, 1>>
    <3>1. st.offset + 1 <= Len(rom.cells)
        BY <1>7, <1>9, <2>3 DEF HEADER
    <3> HIDE DEF c
    <3>2. header = c[1]
        BY <2>1, <2>2, <2>3, <3>1
    <3>3. QED
        BY <2>4, <3>2
  <2>6. header[2] = f /\ header[3] - 1 = 0
    BY <2>5
  <2>7. Len(Content(rom, f, 0)) = rom.plain[f]
    BY <1>1, ContentLength
  <2> HIDE DEF c, header
  <2>8. st.file_size = rom.plain[f]
    BY <1>9, <2>6, <2>7
  <2>9. st.size # 0
    BY <1>7, <1>9 DEF HEADER
  <2>10. QED
    BY <1>1, <1>3, <1>4, <1>7, <2>8, <2>9 DEF st
<1>10. QED
    BY <1>1, <1>5, <1>6, <1>8, <1>9, StatSays

LEMMA StoredIs ==
    ASSUME job \in Jobs, IsSound(job), NEW f \in Files(rom), IsWritten(f),
           StatOf(f).result = "OK"
    PROVE  /\ StoredSize(f) \in Word /\ StoredSize(f) \in Nat \ {0}
           /\ IsSeq(Stored(f)) /\ Len(Stored(f)) = StoredSize(f)
           /\ Own(f).result = "OK" => Own(f).bound \in Nat /\ StoredSize(f) <= Own(f).bound
<1> DEFINE st == StatOf(f)
           op == job.layout[f].operation
<1>1. /\ st.offset \in Nat /\ st.size \in Nat \ {0} /\ st.size \in Word
      /\ rom.plain[f] \in Nat \ {0} /\ rom.plain[f] \in Word
      /\ rom.plain[f] = job.layout[f].vrom_end - job.layout[f].vrom_start
      /\ st.file_size = rom.plain[f]
      /\ rom.packed[f] \in Nat /\ rom.packed[f] \in Word /\ rom.packed[f] >= HEADER
      /\ op \in Operations \ {"DELETE"}
  <2>1. IsRom(rom) /\ st = zelda64_stat(rom, f)
    BY JobIs DEF StatOf
  <2>2. st.size \in Word
    BY <2>1, StatSays
  <2>3. QED
    BY <2>2, FileIsSound
<1>2. Own(f).result = "OK" /\ op = "COMPRESS" =>
          /\ Own(f).bound = yaz0_compress_bound(st.size)
          /\ rom.packed[f] <= yaz0_compress_bound(st.size)
          /\ yaz0_compress_bound(st.size) \in Nat
  <2>1. op = "COMPRESS" => rom.packed[f] <= yaz0_compress_bound(st.size)
    BY DEF IsSound, FilesAreSound, StatOf, rom, IsWritten
  <2>2. yaz0_compress_bound(st.size) \in Nat
    BY <1>1 DEF yaz0_compress_bound, HEADER
  <2>3. Own(f).result = "OK" /\ op = "COMPRESS" => Own(f).bound = yaz0_compress_bound(st.size)
    BY DEF Own, zelda64_layout_entry_bound, Bounded, StatOf
  <2>4. QED
    BY <2>1, <2>2, <2>3
<1>3. CASE op = "COPY"
  <2>1. StoredSize(f) = st.size /\ Stored(f) = ChunkAt(rom, st.offset, st.size)
    BY <1>3 DEF StoredSize, Stored, StatOf
  <2>2. IsSeq(Stored(f)) /\ Len(Stored(f)) = st.size
    BY <1>1, <2>1, FunctionIsIsSeq DEF ChunkAt
  <2>3. Own(f).result = "OK" => Own(f).bound = st.size
    BY <1>3 DEF Own, zelda64_layout_entry_bound, Bounded, StatOf
  <2>4. QED
    BY <1>1, <2>1, <2>2, <2>3
<1>4. CASE op = "DECOMPRESS"
  <2>1. StoredSize(f) = rom.plain[f] /\ Stored(f) = Content(rom, f, 0)
    BY <1>1, <1>4 DEF StoredSize, Stored, StatOf
  <2>2. IsSeq(Stored(f)) /\ Len(Stored(f)) = rom.plain[f]
    BY <2>1, JobIs, ContentLength
  <2>3. Own(f).bound = rom.plain[f]
    <3> DEFINE v == job.layout[f].vrom_start
               w == job.layout[f].vrom_end
    <3>1. v \in Word /\ w \in Word /\ w - v \in Nat
        BY <1>1, JobIs
    <3>2. (w - v + WORD) % WORD = w - v
      <4> HIDE DEF v, w
      <4>1. w - v < WORD /\ WORD \in Nat \ {0}
          BY <3>1, WordsAssumption DEF Word, WORD
      <4>2. QED
          BY <3>1, <4>1
    <3>3. Own(f).bound = (w - v + WORD) % WORD
        BY <1>4 DEF Own, zelda64_layout_entry_bound, Bounded
    <3>4. QED
        BY <1>1, <3>2, <3>3
  <2>4. QED
    BY <1>1, <2>1, <2>2, <2>3
<1>5. CASE op = "COMPRESS"
  <2>1. StoredSize(f) = rom.packed[f] /\ Stored(f) = Content(rom, f, FormOf(f) + 1)
    BY <1>5 DEF StoredSize, Stored
  <2>2. FormOf(f) + 1 \in Nat \ {0}
    BY DEF FormOf
  <2>3. IsSeq(Stored(f)) /\ Len(Stored(f)) = rom.packed[f]
    BY <2>1, <2>2, JobIs, ContentLength
  <2>4. QED
    BY <1>1, <1>2, <1>5, <2>1, <2>3 DEF HEADER
<1>6. QED
    BY <1>1, <1>3, <1>4, <1>5 DEF Operations

-----------------------------------------------------------------------------
(* The running bound of zelda64_write_bound, a recursive function: that it *)
(* exists is shown by induction on the number of files.                    *)

Adds(u, k) == AddBound(rom, job.layout, job.pack, u[k - 1], k - 1)
IsRunning(u, n) ==
    u = [k \in 0..n |-> IF k = 0 THEN Bounded("OK", 0)
                        ELSE AddBound(rom, job.layout, job.pack, u[k - 1], k - 1)]
Running == CHOOSE u : IsRunning(u, count)

LEMMA RunningExists == \A n \in Nat : \E u : IsRunning(u, n)
<1> DEFINE G == {n \in Nat : \E u : IsRunning(u, n)}
           zero == Bounded("OK", 0)
<1>1. 0 \in G
  <2>1. IsRunning([k \in 0..0 |-> zero], 0)
    BY DEF IsRunning
  <2>2. QED
    BY <2>1
<1>2. ASSUME NEW n \in Nat, n \in G
      PROVE  n + 1 \in G
  <2>1. PICK u : IsRunning(u, n)
    BY <1>2
  <2> DEFINE v == [k \in 0..(n + 1) |-> IF k = n + 1 THEN Adds(u, n + 1) ELSE u[k]]
  <2>2. ASSUME NEW k \in 0..(n + 1)
        PROVE  v[k] = IF k = 0 THEN zero ELSE Adds(v, k)
    <3>1. CASE k = n + 1
      <4>1. (n + 1) - 1 = n /\ n \in 0..(n + 1) /\ n # n + 1 /\ n + 1 # 0 /\ n + 1 \in 0..(n + 1)
          OBVIOUS
      <4>2. v[n + 1] = Adds(u, n + 1) /\ v[n] = u[n]
          BY <4>1
      <4> HIDE DEF v
      <4>3. QED
          BY <3>1, <4>1, <4>2 DEF Adds
    <3>2. CASE k # n + 1
      <4>1. k \in 0..n
          BY <3>2
      <4>2. u[k] = IF k = 0 THEN zero ELSE Adds(u, k)
          BY <2>1, <4>1 DEF IsRunning, Adds
      <4>3. k # 0 => k - 1 \in 0..(n + 1) /\ k - 1 # n + 1
          BY <4>1
      <4>4. v[k] = u[k] /\ (k # 0 => v[k - 1] = u[k - 1])
          BY <3>2, <4>3
      <4> HIDE DEF v, zero
      <4>5. QED
          BY <4>2, <4>4 DEF Adds
    <3>3. QED
        BY <3>1, <3>2
  <2>3. v = [k \in 0..(n + 1) |-> v[k]]
    OBVIOUS
  <2> HIDE DEF v
  <2>4. IsRunning(v, n + 1)
    BY <2>2, <2>3 DEF IsRunning, Adds
  <2>5. QED
    BY <2>4
<1>3. Nat \subseteq G
  <2> HIDE DEF G
  <2>1. QED
    BY <1>1, <1>2, Induction
<1>4. QED
    BY <1>3

LEMMA RunningIs ==
    ASSUME job \in Jobs
    PROVE  /\ Running[0] = Bounded("OK", 0)
           /\ \A k \in 1..count : Running[k] = Adds(Running, k)
           /\ zelda64_write_bound(rom, job.layout, job.pack, "NONE") = Running[count]
           /\ Bound = IF job.pack = "DENSE" /\ job.pad # "NONE" /\ Running[count].result = "OK"
                      THEN Bounded("OK", zelda64_ceil_pow2(Running[count].bound))
                      ELSE Running[count]
<1>1. count \in Nat /\ count > 2
    BY JobIs
<1>2. \E u : IsRunning(u, count)
    BY <1>1, RunningExists
<1>3. IsRunning(Running, count)
    BY <1>2 DEF Running
<1>4. Running[0] = Bounded("OK", 0)
    BY <1>1, <1>3 DEF IsRunning
<1>5. \A k \in 1..count : Running[k] = Adds(Running, k)
    BY <1>1, <1>3 DEF IsRunning, Adds
<1>6. ASSUME NEW pad
      PROVE  zelda64_write_bound(rom, job.layout, job.pack, pad) =
                IF job.pack = "DENSE" /\ pad # "NONE" /\ Running[count].result = "OK"
                THEN Bounded("OK", zelda64_ceil_pow2(Running[count].bound))
                ELSE Running[count]
    BY Zenon DEF zelda64_write_bound, Running, IsRunning, count
<1>7. QED
    BY <1>4, <1>5, <1>6, Zenon DEF Bound

LEMMA OwnIs ==
    ASSUME job \in Jobs, NEW f \in Files(rom), Own(f).result = "OK"
    PROVE  Own(f).bound \in Nat
<1> DEFINE st == zelda64_stat(rom, f)
           op == job.layout[f].operation
           v == job.layout[f].vrom_start
           w == job.layout[f].vrom_end
<1>1. IsRom(rom) /\ v \in Nat /\ w \in Nat /\ WORD \in Nat \ {0}
  <2>1. IsRom(rom) /\ v \in Word /\ w \in Word
    BY JobIs
  <2> HIDE DEF v, w
  <2>2. QED
    BY <2>1, WordsAreNat, WordsAssumption DEF WORD
<1>2. (w - v + WORD) % WORD \in Nat
  <2> HIDE DEF v, w
  <2>1. w - v + WORD \in Int
    BY <1>1
  <2>2. QED
    BY <1>1, <2>1
<1>3. st.result = "OK" => st.size \in Nat
    BY <1>1, StatSays, WordsAreNat
<1>4. st.size \in Nat => yaz0_compress_bound(st.size) \in Nat
  <2> HIDE DEF st
  <2>1. QED
    BY DEF yaz0_compress_bound, HEADER
<1>5. \/ Own(f).bound = 0
      \/ Own(f).bound = (w - v + WORD) % WORD
      \/ st.result = "OK" /\ Own(f).bound = st.size
      \/ st.result = "OK" /\ Own(f).bound = yaz0_compress_bound(st.size)
    BY Zenon DEF Own, zelda64_layout_entry_bound, Bounded
<1> HIDE DEF st, v, w
<1>6. QED
    BY <1>2, <1>3, <1>4, <1>5

(* Where a file begins when the running bound is b. *)
StartOf(f, b) == IF job.pack = "SPARSE" THEN job.layout[f].vrom_start ELSE b

(* What one round of the bound says of file f, when it goes well. *)
RoundIs(f, b, next) ==
    /\ b <= next
    /\ IsWritten(f) =>
          /\ Own(f).result = "OK" /\ Own(f).bound \in Word /\ Own(f).bound + ALIGN <= WORD
          /\ StartOf(f, b) + zelda64_align16(Own(f).bound) <= next

LEMMA OneRound ==
    ASSUME job \in Jobs, IsSound(job), NEW f \in Files(rom),
           NEW b, b.result = "OK", b.bound \in Word,
           NEW next, next = AddBound(rom, job.layout, job.pack, b, f), next.result = "OK"
    PROVE  next.bound \in Word /\ RoundIs(f, b.bound, next.bound)
<1> DEFINE own == Own(f)
           size == zelda64_align16(own.bound)
           start == StartOf(f, b.bound)
           end == start + size
<1>1. UINT32_MAX \in Nat /\ WORD = UINT32_MAX + 1 /\ Word = 0..UINT32_MAX /\ ALIGN \in Nat \ {0}
    BY WordsAssumption DEF WORD, Word
<1>2. CASE ~IsWritten(f)
  <2>1. next = b
    BY <1>2 DEF AddBound, IsWritten
  <2>2. QED
    BY <1>1, <1>2, <2>1 DEF RoundIs
<1>3. CASE IsWritten(f)
  <2>1. own.result = "OK" /\ ~(start > UINT32_MAX - size)
        /\ next = IF end > b.bound THEN Bounded("OK", end) ELSE b
    <3>1. \A x, y : Bounded(x, y).result = x
        BY DEF Bounded
    <3>2. ~Skipped(job.layout[f]) /\ b.result = "OK"
        BY <1>3 DEF IsWritten
    <3>3. next = IF own.result # "OK" THEN own
                 ELSE IF start > UINT32_MAX - size THEN Bounded("OUT_OF_RANGE", 0)
                 ELSE IF end > b.bound THEN Bounded("OK", end) ELSE b
        BY <3>2, Zenon DEF AddBound, Own, StartOf
    <3> HIDE DEF own, start, size, end
    <3>4. own.result = "OK"
        BY <3>3
    <3>5. ~(start > UINT32_MAX - size)
        BY <3>1, <3>3, <3>4
    <3>6. QED
        BY <3>3, <3>4, <3>5
  <2>2. own.bound + ALIGN <= WORD
    BY <1>3 DEF IsSound, SizesAreSound, Own, IsWritten, rom
  <2>3. own.bound \in Nat
    BY <2>1, OwnIs
  <2>4. start \in Nat
    BY <1>1, JobIs, WordsAreNat DEF StartOf
  <2> HIDE DEF own, start
  <2>5. own.bound \in Word
    BY <1>1, <2>2, <2>3
  <2>6. size \in Nat
    BY <1>1, <2>2, <2>5, AlignIs
  <2> HIDE DEF size
  <2>7. end \in Word
    BY <1>1, <2>1, <2>4, <2>6
  <2>8. next.bound = IF end > b.bound THEN end ELSE b.bound
    BY <2>1 DEF Bounded
  <2>9. next.bound \in Word /\ b.bound <= next.bound /\ end <= next.bound
    BY <1>1, <2>7, <2>8
  <2> HIDE DEF end
  <2>10. QED
    BY <2>1, <2>2, <2>5, <2>9 DEF RoundIs, own, start, size, end
<1>4. QED
    BY <1>2, <1>3

LEMMA RunningSays ==
    ASSUME job \in Jobs, IsSound(job)
    PROVE  /\ Running[0].bound = 0
           /\ \A k \in 0..count : /\ Running[k].result = "OK" /\ Running[k].bound \in Word
                                  /\ Running[k].bound <= Running[count].bound
           /\ \A f \in Files(rom) : RoundIs(f, Running[f].bound, Running[f + 1].bound)
<1> DEFINE u == Running
<1>1. /\ count \in Nat /\ count > 2 /\ Files(rom) = 0..(count - 1)
      /\ Word = 0..UINT32_MAX /\ UINT32_MAX \in Nat
    BY JobIs, WordsAssumption DEF Word
<1>2. /\ u[0] = Bounded("OK", 0) /\ \A k \in 1..count : u[k] = Adds(u, k)
      /\ u[count].result = "OK"
  <2>1. zelda64_write_bound(rom, job.layout, job.pack, "NONE").result = "OK"
    BY DEF IsSound, SizesAreSound, rom
  <2>2. QED
    BY <2>1, RunningIs
<1> HIDE DEF u
<1>3. \A k \in 0..count : u[k].result = "OK"
  <2> DEFINE G == {n \in Nat : n <= count => u[count - n].result = "OK"}
  <2>1. 0 \in G
    BY <1>1, <1>2
  <2>2. ASSUME NEW n \in Nat, n \in G
        PROVE  n + 1 \in G
    <3>1. CASE n + 1 <= count
      <4> DEFINE k == count - n
      <4>1. k \in 1..count /\ k - 1 = count - (n + 1) /\ u[k].result = "OK"
          BY <1>1, <2>2, <3>1
      <4> HIDE DEF k
      <4>2. u[k] = AddBound(rom, job.layout, job.pack, u[k - 1], k - 1)
          BY <1>2, <4>1 DEF Adds
      <4>3. u[k - 1].result = "OK"
          BY <4>1, <4>2 DEF AddBound
      <4>4. QED
          BY <4>1, <4>3
    <3>2. CASE ~(n + 1 <= count)
        BY <3>2
    <3>3. QED
        BY <3>1, <3>2
  <2>3. Nat \subseteq G
    <3> HIDE DEF G
    <3>1. QED
        BY <2>1, <2>2, Induction
  <2>4. ASSUME NEW k \in 0..count
        PROVE  u[k].result = "OK"
    <3>1. count - k \in G /\ count - k <= count /\ count - (count - k) = k
        BY <1>1, <2>3
    <3>2. QED
        BY <3>1
  <2>5. QED
    BY <2>4
<1>4. ASSUME NEW k \in Nat, k < count, u[k].bound \in Word
      PROVE  u[k + 1].bound \in Word /\ RoundIs(k, u[k].bound, u[k + 1].bound)
  <2>1. k \in 0..count /\ k + 1 \in 1..count /\ k + 1 \in 0..count /\ (k + 1) - 1 = k
        /\ k \in Files(rom)
    BY <1>1, <1>4
  <2>2. u[k + 1] = AddBound(rom, job.layout, job.pack, u[k], k)
    BY <1>2, <2>1 DEF Adds
  <2>3. u[k].result = "OK" /\ u[k + 1].result = "OK"
    BY <1>3, <2>1
  <2>4. QED
    BY <1>4, <2>1, <2>2, <2>3, OneRound
<1>5. \A k \in 0..count : u[k].bound \in Word
  <2> DEFINE G == {n \in Nat : n <= count => u[n].bound \in Word}
  <2>1. 0 \in G
    BY <1>1, <1>2 DEF Bounded
  <2>2. ASSUME NEW n \in Nat, n \in G
        PROVE  n + 1 \in G
    BY <1>1, <1>4, <2>2
  <2>3. Nat \subseteq G
    <3> HIDE DEF G
    <3>1. QED
        BY <2>1, <2>2, Induction
  <2>4. QED
    BY <1>1, <2>3
<1>6. \A k \in 0..(count - 1) : RoundIs(k, u[k].bound, u[k + 1].bound)
    BY <1>1, <1>4, <1>5
<1>7. \A k \in 0..count : u[k].bound <= u[count].bound
  <2> DEFINE G == {n \in Nat : n <= count => u[count - n].bound <= u[count].bound}
  <2>1. 0 \in G
    BY <1>1, <1>5
  <2>2. ASSUME NEW n \in Nat, n \in G
        PROVE  n + 1 \in G
    <3>1. CASE n + 1 <= count
      <4> DEFINE k == count - (n + 1)
      <4>1. /\ k \in 0..(count - 1) /\ k + 1 = count - n /\ u[k + 1].bound <= u[count].bound
            /\ k \in 0..count /\ k + 1 \in 0..count /\ count \in 0..count
          BY <1>1, <2>2, <3>1
      <4> HIDE DEF k
      <4>2. u[k].bound <= u[k + 1].bound
          BY <1>6, <4>1 DEF RoundIs
      <4>3. u[k].bound \in Nat /\ u[k + 1].bound \in Nat /\ u[count].bound \in Nat
          BY <1>1, <1>5, <4>1
      <4>4. u[k].bound <= u[count].bound
          BY <4>1, <4>2, <4>3
      <4>5. QED
          BY <4>4 DEF k
    <3>2. CASE ~(n + 1 <= count)
        BY <3>2
    <3>3. QED
        BY <3>1, <3>2
  <2>3. Nat \subseteq G
    <3> HIDE DEF G
    <3>1. QED
        BY <2>1, <2>2, Induction
  <2>4. ASSUME NEW k \in 0..count
        PROVE  u[k].bound <= u[count].bound
    <3>1. count - k \in G /\ count - k <= count /\ count - (count - k) = k
        BY <1>1, <2>3
    <3>2. QED
        BY <3>1
  <2>5. QED
    BY <2>4
<1>8. Running[0].bound = 0
    BY <1>2 DEF u, Bounded
<1>9. QED
    BY <1>1, <1>3, <1>5, <1>6, <1>7, <1>8 DEF u

-----------------------------------------------------------------------------
(* Where the files lie: the cursor, the file at hand and those that are    *)
(* done. *)

Filing == {"open", "alloc", "file", "copy", "read", "code", "entry"}
InFile == pc \in {"copy", "read", "code", "entry"}

(* The image never outgrows the running bound, and dense packing appends:  *)
(* the first files come to lie where they lie in VROM.                     *)
CursorInv ==
    /\ pc \in {"open", "alloc"} => i = 0 /\ position = 0 /\ rom_size = 0
    /\ pc \in Filing \cup {"pad"} => rom_size <= Running[i].bound
    /\ pc \in Filing /\ job.pack = "DENSE" =>
          /\ position = rom_size /\ position % ALIGN = 0
          /\ i = 0 => position = 0
          /\ i \in 1..2 => position = job.layout[i - 1].vrom_end
    /\ pc = "pad" => bytes_out = 0 \/ rom_size + bytes_out <= zelda64_ceil_pow2(rom_size)

(* What there is of the file at hand. *)
FileInv ==
    /\ InFile => /\ bytes_out <= StoredSize(i)
                 /\ bytes_out > 0 => rom_start + bytes_out <= Len(image)
    /\ pc = "copy" => entry.operation = "COPY"
    /\ pc = "entry" => bytes_out = StoredSize(i)

(* A file that was written lies, padding included, within the image, at    *)
(* the place its new entry names.                                          *)
Placed(f) ==
    /\ StatOf(f).result = "OK"
    /\ dma[f].vrom_start = job.layout[f].vrom_start
    /\ dma[f].vrom_end = job.layout[f].vrom_end
    /\ dma[f].rom_end = IF job.layout[f].operation = "COMPRESS"
                        THEN dma[f].rom_start + Padded(f) ELSE 0
    /\ dma[f].rom_start % ALIGN = 0
    /\ job.pack = "SPARSE" \/ f <= 2 => dma[f].rom_start = job.layout[f].vrom_start
    /\ dma[f].rom_start + Padded(f) <= rom_size
    /\ dma[f].rom_start + StoredSize(f) <= Len(image)

PlacedInv ==
    /\ \A f \in 0..(i - 1) : IsWritten(f) => Placed(f)
    /\ job.pack = "DENSE" =>
          \A f, g \in 0..(i - 1) : f < g /\ IsWritten(f) /\ IsWritten(g) =>
              dma[f].rom_start + StoredSize(f) <= dma[g].rom_start

LEMMA PaddedIs ==
    ASSUME job \in Jobs, IsSound(job), NEW f \in Files(rom), IsWritten(f),
           StatOf(f).result = "OK"
    PROVE  /\ StoredSize(f) \in Nat \ {0}
           /\ Padded(f) \in Nat /\ Padded(f) % ALIGN = 0
           /\ StoredSize(f) <= Padded(f) /\ Padded(f) < StoredSize(f) + ALIGN
           /\ StoredSize(f) % ALIGN = 0 => Padded(f) = StoredSize(f)
           /\ Running[f].bound \in Nat /\ Running[f + 1].bound \in Word
           /\ StartOf(f, Running[f].bound) + Padded(f) <= Running[f + 1].bound
<1> DEFINE n == StoredSize(f)
           own == Own(f).bound
           b == Running[f].bound
           next == Running[f + 1].bound
           start == StartOf(f, b)
<1>1. n \in Word /\ n \in Nat \ {0} /\ (Own(f).result = "OK" => n <= own)
    BY StoredIs
<1>2. /\ Own(f).result = "OK" /\ own \in Word /\ own + ALIGN <= WORD
      /\ start + zelda64_align16(own) <= next
    BY RunningSays DEF RoundIs
<1>3. /\ f \in 0..count /\ f + 1 \in 0..count
    BY JobIs
<1>4. b \in Nat /\ next \in Word /\ next \in Nat
    BY <1>3, RunningSays, WordsAreNat
<1>5. job.layout[f].vrom_start \in Nat
    BY JobIs, WordsAreNat
<1>6. start \in Nat
    BY <1>4, <1>5 DEF StartOf
<1> HIDE DEF n, own, b, next, start
<1>7. n <= own
    BY <1>1, <1>2
<1>8. /\ zelda64_align16(n) \in Nat /\ zelda64_align16(n) % ALIGN = 0
      /\ n <= zelda64_align16(n) /\ zelda64_align16(n) < n + ALIGN
      /\ zelda64_align16(n) <= zelda64_align16(own)
      /\ n % ALIGN = 0 => zelda64_align16(n) = n
    BY <1>1, <1>2, <1>7, AlignIs
<1>9. zelda64_align16(own) \in Nat
    BY <1>2, AlignRoundsUp, WordsAreNat
<1>10. Padded(f) = zelda64_align16(n)
    BY DEF Padded, n
<1> HIDE DEF n
<1>11. start + Padded(f) <= next
    BY <1>2, <1>4, <1>6, <1>8, <1>9, <1>10
<1>12. QED
    BY <1>1, <1>4, <1>8, <1>10, <1>11 DEF n, own, b, next, start

LEMMA HeadIs ==
    ASSUME job \in Jobs, IsSound(job)
    PROVE  /\ job.layout[0].vrom_start = 0
           /\ \A f \in 0..2 :
                 /\ f \in Files(rom) /\ IsWritten(f)
                 /\ job.layout[f].operation = "COPY"
                 /\ job.layout[f].vrom_start \in Nat /\ job.layout[f].vrom_end \in Nat
                 /\ job.layout[f].vrom_start < job.layout[f].vrom_end
                 /\ StatOf(f).result = "OK" =>
                       StoredSize(f) = job.layout[f].vrom_end - job.layout[f].vrom_start
           /\ \A f \in 0..1 : /\ job.layout[f].vrom_end = job.layout[f + 1].vrom_start
                              /\ job.layout[f].vrom_end % ALIGN = 0
           /\ job.layout[2].vrom_end - job.layout[2].vrom_start = count * ENTRY_CELLS
<1>1. HeadIsSound(job)
    BY DEF IsSound
<1>2. \A f \in 0..2 : f \in Files(rom)
    BY JobIs
<1>3. \A f \in 0..2 : /\ job.layout[f].vrom_start = rom.dma[f].vrom_start
                      /\ job.layout[f].vrom_end = rom.dma[f].vrom_end
                      /\ job.layout[f].vrom_start \in Nat /\ job.layout[f].vrom_end \in Nat
    BY <1>2, JobIs, WordsAreNat
<1>4. /\ rom.dma[0].vrom_start = 0
      /\ \A f \in 0..2 : /\ job.layout[f].operation = "COPY"
                         /\ rom.dma[f].rom_end = 0
                         /\ rom.dma[f].vrom_start < rom.dma[f].vrom_end
      /\ \A f \in 0..1 : /\ rom.dma[f].vrom_end = rom.dma[f + 1].vrom_start
                         /\ rom.dma[f].vrom_end % ALIGN = 0
      /\ rom.dma[2].vrom_end - rom.dma[2].vrom_start = count * ENTRY_CELLS
    BY <1>1 DEF HeadIsSound, rom, count
<1>5. ASSUME NEW f \in 0..2
      PROVE  /\ IsWritten(f)
             /\ StatOf(f).result = "OK" =>
                   StoredSize(f) = job.layout[f].vrom_end - job.layout[f].vrom_start
  <2>1. IsWritten(f)
    <3>1. job.layout[f].operation = "COPY" /\ job.layout[f].vrom_start # job.layout[f].vrom_end
        BY <1>3, <1>4
    <3>2. QED
        BY <3>1 DEF IsWritten, Skipped
  <2>2. zelda64_dmadata_kind(rom.dma[f]) = "STORED"
    BY <1>4, WordsAssumption DEF zelda64_dmadata_kind
  <2>3. StoredSize(f) = StatOf(f).size
    BY <1>4 DEF StoredSize, StatOf
  <2>4. StatOf(f).result = "OK" => StatOf(f).size = rom.dma[f].vrom_end - rom.dma[f].vrom_start
    BY <2>2, StoredStat
  <2>5. QED
    BY <1>3, <2>1, <2>3, <2>4
<1>6. 0 \in 0..2 /\ 2 \in 0..2 /\ (\A f \in 0..1 : f \in 0..2 /\ f + 1 \in 0..2)
    OBVIOUS
<1>7. QED
    BY <1>2, <1>3, <1>4, <1>5, <1>6

LEMMA SameFiles ==
    ASSUME job' = job
    PROVE  /\ Running' = Running
           /\ \A f : /\ StatOf(f)' = StatOf(f) /\ StoredSize(f)' = StoredSize(f)
                     /\ Padded(f)' = Padded(f) /\ IsWritten(f)' = IsWritten(f)
                     /\ Stored(f)' = Stored(f) /\ FormOf(f)' = FormOf(f)
<1>1. rom' = rom /\ count' = count
    BY SameJob
<1>2. Running' = Running
    BY <1>1 DEF Running, IsRunning
<1>3. ASSUME NEW f
      PROVE  /\ StatOf(f)' = StatOf(f) /\ StoredSize(f)' = StoredSize(f)
             /\ Padded(f)' = Padded(f) /\ IsWritten(f)' = IsWritten(f)
             /\ Stored(f)' = Stored(f) /\ FormOf(f)' = FormOf(f)
  <2>1. StatOf(f)' = StatOf(f)
    BY <1>1 DEF StatOf
  <2>2. StoredSize(f)' = StoredSize(f)
    BY <1>1 DEF StoredSize
  <2>3. Padded(f)' = Padded(f)
    BY <2>2 DEF Padded
  <2>4. IsWritten(f)' = IsWritten(f)
    BY DEF IsWritten
  <2>5. FormOf(f)' = FormOf(f)
    BY <1>1 DEF FormOf
  <2>6. Stored(f)' = Stored(f)
    BY <1>1, <2>1, <2>5 DEF Stored
  <2>7. QED
    BY <2>1, <2>2, <2>3, <2>4, <2>5, <2>6
<1>4. QED
    BY <1>2, <1>3

LEMMA AtFile ==
    ASSUME CountersInv, IsSound(job), CursorInv, InFile
    PROVE  /\ i \in Files(rom) /\ i \in Nat /\ i < count /\ IsWritten(i)
           /\ stat = StatOf(i) /\ StatOf(i).result = "OK"
           /\ StoredSize(i) \in Nat \ {0} /\ Padded(i) \in Nat
           /\ rom_start \in Nat /\ rom_start % ALIGN = 0
           /\ rom_start + Padded(i) <= Running[i + 1].bound
           /\ rom_start + Padded(i) \in Word
           /\ job.pack = "SPARSE" => rom_start = job.layout[i].vrom_start
           /\ job.pack = "DENSE" => rom_start = position /\ rom_start = rom_size
           /\ i <= 2 => rom_start = job.layout[i].vrom_start
<1>1. /\ job \in Jobs /\ i \in 0..count /\ i < count /\ ~Skipped(entry) /\ stat.result = "OK"
    BY DEF CountersInv, InFile
<1>2. /\ i \in Files(rom) /\ i \in Nat /\ IsWritten(i) /\ stat = StatOf(i) /\ count \in Nat
    BY <1>1, FileIs, JobIs DEF IsWritten, entry, stat, StatOf
<1>3. /\ StoredSize(i) \in Nat \ {0} /\ Padded(i) \in Nat
      /\ Running[i].bound \in Nat /\ Running[i + 1].bound \in Word
      /\ StartOf(i, Running[i].bound) + Padded(i) <= Running[i + 1].bound
    BY <1>1, <1>2, PaddedIs
<1>4. /\ job.layout[i].vrom_start \in Nat /\ job.layout[i].vrom_start % ALIGN = 0
    BY <1>1, <1>2, JobIs, WordsAreNat, FileIsSound
<1>5. /\ rom_size \in Nat /\ position \in Nat
    BY WordsAreNat DEF CountersInv
<1>6. /\ rom_size <= Running[i].bound
      /\ job.pack = "DENSE" => /\ position = rom_size /\ position % ALIGN = 0
                               /\ i = 0 => position = 0
                               /\ i \in 1..2 => position = job.layout[i - 1].vrom_end
    BY DEF CursorInv, InFile, Filing
<1>7. job.pack \in {"SPARSE", "DENSE"}
    BY <1>1, JobIs
<1>8. /\ job.pack = "SPARSE" => rom_start = job.layout[i].vrom_start
      /\ job.pack = "DENSE" => rom_start = position
    BY DEF rom_start, entry
<1>9. rom_start + Padded(i) <= Running[i + 1].bound /\ rom_start \in Nat /\ rom_start % ALIGN = 0
  <2>1. CASE job.pack = "SPARSE"
    BY <1>3, <1>4, <1>8, <2>1 DEF StartOf
  <2>2. CASE job.pack = "DENSE"
    <3>1. Running[i].bound + Padded(i) <= Running[i + 1].bound
        BY <1>3, <2>2 DEF StartOf
    <3>2. Running[i + 1].bound \in Nat
        BY <1>3, WordsAreNat
    <3>3. QED
        BY <1>3, <1>5, <1>6, <1>8, <2>2, <3>1, <3>2
  <2>3. QED
    BY <1>7, <2>1, <2>2
<1>10. rom_start + Padded(i) \in Word
  <2>1. Running[i + 1].bound \in 0..UINT32_MAX /\ UINT32_MAX \in Nat
    BY <1>3, WordsAssumption DEF Word
  <2>2. QED
    BY <1>3, <1>9, <2>1 DEF Word
<1>11. ASSUME i <= 2
       PROVE  rom_start = job.layout[i].vrom_start
  <2>1. CASE job.pack = "SPARSE"
    BY <1>8, <2>1
  <2>2. CASE job.pack = "DENSE" /\ i = 0
    BY <1>1, <1>6, <1>8, <2>2, HeadIs
  <2>3. CASE job.pack = "DENSE" /\ i \in 1..2
    <3>1. i - 1 \in 0..1 /\ (i - 1) + 1 = i
        BY <2>3
    <3>2. job.layout[i - 1].vrom_end = job.layout[(i - 1) + 1].vrom_start
        BY <1>1, <3>1, HeadIs
    <3>3. QED
        BY <1>6, <1>8, <2>3, <3>1, <3>2
  <2>4. QED
    BY <1>2, <1>7, <1>11, <2>1, <2>2, <2>3
<1>12. QED
    BY <1>1, <1>2, <1>3, <1>6, <1>8, <1>9, <1>10, <1>11

(* Where a file ends: no sum wraps, and the roundings stay in the bound.   *)
LEMMA EndSays ==
    ASSUME CountersInv, IsSound(job), CursorInv, FileInv, pc = "entry"
    PROVE  /\ End = rom_start + Padded(i) /\ End \in Nat
           /\ End <= Running[i + 1].bound /\ End % ALIGN = 0
           /\ rom_start + StoredSize(i) <= Len(image)
           /\ rom_start + StoredSize(i) <= End
           /\ End < rom_start + StoredSize(i) + ALIGN
           /\ i \in 0..1 => End = job.layout[i].vrom_end
<1>1. InFile
    BY DEF InFile
<1>2. /\ i \in Files(rom) /\ i \in Nat /\ i < count /\ IsWritten(i)
      /\ StatOf(i).result = "OK"
      /\ StoredSize(i) \in Nat \ {0} /\ Padded(i) \in Nat
      /\ rom_start \in Nat /\ rom_start % ALIGN = 0
      /\ rom_start + Padded(i) <= Running[i + 1].bound
      /\ rom_start + Padded(i) \in Word
      /\ i <= 2 => rom_start = job.layout[i].vrom_start
    BY <1>1, AtFile
<1>3. bytes_out = StoredSize(i) /\ (bytes_out > 0 => rom_start + bytes_out <= Len(image))
    BY <1>1 DEF FileInv
<1>4. job \in Jobs
    BY DEF CountersInv
<1>5. /\ Padded(i) % ALIGN = 0
      /\ StoredSize(i) <= Padded(i) /\ Padded(i) < StoredSize(i) + ALIGN
      /\ StoredSize(i) % ALIGN = 0 => Padded(i) = StoredSize(i)
    BY <1>2, <1>4, PaddedIs
<1>6. ALIGN \in Nat \ {0} /\ WORD \in Nat \ {0} /\ Word = 0..(WORD - 1)
    BY WordsAssumption DEF WORD, Word
<1>7. End = (rom_start + Padded(i)) % WORD
    BY <1>3 DEF End, Padded
<1> DEFINE s == rom_start
           p == Padded(i)
           n == StoredSize(i)
<1> HIDE DEF s, p, n
<1>8. End = s + p
  <2>1. s + p \in Nat /\ s + p < WORD
    BY <1>2, <1>6 DEF s, p
  <2>2. (s + p) % WORD = s + p
    BY <1>6, <2>1, SmallRemainder
  <2>3. QED
    BY <1>7, <2>2 DEF s, p
<1>9. (s + p) % ALIGN = 0
    BY <1>2, <1>5, <1>6, Multiples DEF s, p
<1>10. s + n <= Len(image)
    BY <1>2, <1>3 DEF s, n
<1>11. s + n <= s + p /\ s + p < s + n + ALIGN /\ s + p \in Nat
    BY <1>2, <1>5, <1>6 DEF s, p, n
<1>12. ASSUME i \in 0..1
       PROVE  s + p = job.layout[i].vrom_end
  <2> DEFINE v == job.layout[i].vrom_start
             w == job.layout[i].vrom_end
  <2>1. i \in 0..2
    BY <1>12
  <2>2. n = w - v /\ v \in Nat /\ w \in Nat /\ v < w /\ w % ALIGN = 0 /\ s = v
    BY <1>2, <1>4, <1>12, <2>1, HeadIs DEF n, s
  <2> HIDE DEF v, w
  <2>3. n % ALIGN = 0
    <3>1. v % ALIGN = 0
        BY <1>2, <2>2 DEF s
    <3>2. (w - v) % ALIGN = 0
        BY <1>6, <2>2, <3>1, Multiples
    <3>3. QED
        BY <2>2, <3>2
  <2>4. p = n
    BY <1>5, <2>3 DEF n, p
  <2>5. QED
    BY <2>2, <2>4 DEF w
<1>13. QED
    BY <1>2, <1>8, <1>9, <1>10, <1>11, <1>12 DEF s, p, n

-----------------------------------------------------------------------------
(* The steps keep the cursor and the file at hand. *)

LEMMA SkipIs ==
    ASSUME CountersInv, SkipFile
    PROVE  /\ i \in Nat /\ i < count /\ ~IsWritten(i) /\ i' = i + 1
           /\ pc = "file" /\ pc' = "file"
           /\ \A k \in 0..(i - 1) : dma'[k] = dma[k]
           /\ \A k \in 0..(i' - 1) : k \in 0..(i - 1) \/ k = i
           /\ UNCHANGED <<job, error, image, position, rom_size, coding, bytes_out, result>>
<1>1. i \in Nat
    BY JobIs DEF CountersInv
<1>2. \E e : AddEntry(e)
    BY DEF SkipFile
<1>3. /\ i' = i + 1 /\ \A k \in 0..(i - 1) : dma'[k] = dma[k]
      /\ \A k \in 0..(i' - 1) : k \in 0..(i - 1) \/ k = i
    BY <1>1, <1>2, AddEntryIs
<1>4. ~IsWritten(i)
    BY DEF SkipFile, entry, IsWritten, Skipped
<1>5. QED
    BY <1>1, <1>3, <1>4 DEF SkipFile, holding

LEMMA EndIs ==
    ASSUME CountersInv, EndFile
    PROVE  /\ i' = i + 1 /\ pc = "entry" /\ pc' = "file"
           /\ \A k \in 0..(i - 1) : dma'[k] = dma[k]
           /\ \A k \in 0..(i' - 1) : k \in 0..(i - 1) \/ k = i
           /\ dma'[i].vrom_start = entry.vrom_start /\ dma'[i].vrom_end = entry.vrom_end
           /\ dma'[i].rom_start = rom_start
           /\ dma'[i].rom_end = IF entry.operation = "COMPRESS" THEN End ELSE 0
           /\ position' = End
           /\ rom_size' = IF End > rom_size THEN End ELSE rom_size
           /\ UNCHANGED <<job, error, image, coding, bytes_out, result>>
<1>1. i \in Nat
    BY JobIs DEF CountersInv
<1> DEFINE e == [vrom_start |-> entry.vrom_start, vrom_end |-> entry.vrom_end,
                 rom_start |-> rom_start,
                 rom_end |-> IF entry.operation = "COMPRESS" THEN End ELSE 0]
<1>2. AddEntry(e)
    BY DEF EndFile
<1>3. /\ i' = i + 1 /\ \A k \in 0..(i - 1) : dma'[k] = dma[k]
      /\ \A k \in 0..(i' - 1) : k \in 0..(i - 1) \/ k = i
      /\ dma'[i] = e
  <2> HIDE DEF e
  <2>1. QED
    BY <1>1, <1>2, AddEntryIs
<1>4. /\ e.vrom_start = entry.vrom_start /\ e.vrom_end = entry.vrom_end
      /\ e.rom_start = rom_start
      /\ e.rom_end = IF entry.operation = "COMPRESS" THEN End ELSE 0
    OBVIOUS
<1> HIDE DEF e
<1>5. QED
    BY <1>3, <1>4 DEF EndFile, holding

LEMMA CursorKept ==
    ASSUME CountersInv, IsSound(job), CursorInv, FileInv, Step
    PROVE  CursorInv'
<1>1. /\ job \in Jobs /\ i \in 0..count /\ count \in Nat
      /\ rom_size \in Nat /\ bytes_out \in Nat /\ position \in Nat
    BY JobIs, WordsAreNat DEF CountersInv
<1>2. \A k \in 0..count : Running[k].bound \in Nat
    BY <1>1, RunningSays, WordsAreNat
<1>3. ASSUME NEW f \in Files(rom)
      PROVE  Running[f].bound <= Running[f + 1].bound
    BY <1>1, RunningSays DEF RoundIs
<1>4. CASE Failed \/ Overrun
  <2>1. pc' = "done"
    BY <1>4 DEF Failed, Overrun, Abort
  <2>2. QED
    BY <2>1 DEF CursorInv, Filing
<1>5. CASE job' = job /\ Place /\ pc \in Filing /\ pc' \in Filing /\ pc' \notin {"open"}
           /\ (pc' = "alloc" => pc = "open")
    BY <1>5, SameFiles DEF CursorInv, Place, Filing
<1>6. CASE UNCHANGED vars
    BY <1>6, SameFiles DEF CursorInv, vars
<1>7. CASE SkipFile
  <2>1. /\ i \in Nat /\ i < count /\ ~IsWritten(i) /\ i' = i + 1 /\ pc = "file" /\ pc' = "file"
        /\ job' = job /\ position' = position /\ rom_size' = rom_size
    BY <1>7, SkipIs
  <2>2. ~(i \in 0..2)
    BY <1>1, <2>1, HeadIs
  <2>3. i' > 2 /\ i \in Files(rom) /\ i \in 0..count /\ i + 1 \in 0..count
    BY <1>1, <2>1, <2>2, JobIs
  <2>4. rom_size <= Running[i'].bound
    BY <1>1, <1>2, <1>3, <2>1, <2>3 DEF CursorInv, Filing
  <2>5. ~(i' = 0) /\ ~(i' \in 1..2)
    BY <2>3
  <2>6. QED
    BY <2>1, <2>4, <2>5, SameFiles DEF CursorInv, Filing
<1>8. CASE EndFile
  <2>1. /\ i' = i + 1 /\ pc = "entry" /\ pc' = "file" /\ job' = job /\ position' = End
        /\ rom_size' = IF End > rom_size THEN End ELSE rom_size
    BY <1>8, EndIs
  <2>2. /\ End \in Nat /\ End <= Running[i + 1].bound /\ End % ALIGN = 0
        /\ rom_start + StoredSize(i) <= End
        /\ i \in 0..1 => End = job.layout[i].vrom_end
    BY <2>1, EndSays
  <2>3. /\ i \in Files(rom) /\ i < count /\ StoredSize(i) \in Nat \ {0} /\ rom_start \in Nat
        /\ job.pack = "DENSE" => rom_start = rom_size
    BY <2>1, AtFile DEF InFile
  <2>4. i \in 0..count /\ i + 1 \in 0..count
    BY <1>1, <2>3
  <2>5. rom_size <= Running[i].bound
    BY <2>1 DEF CursorInv, Filing
  <2>6. rom_size' <= Running[i + 1].bound
    BY <1>1, <1>2, <1>3, <2>1, <2>2, <2>3, <2>4, <2>5
  <2>7. job.pack = "DENSE" => rom_size' = End
    BY <1>1, <2>1, <2>2, <2>3
  <2>8. i' \in 1..2 => i' - 1 = i /\ i \in 0..1
    BY <1>1, <2>1
  <2>9. i' # 0
    BY <1>1, <2>1
  <2>10. QED
    BY <2>1, <2>2, <2>6, <2>7, <2>8, <2>9, SameFiles DEF CursorInv, Filing
<1>9. CASE FilesDone
  <2>1. /\ job' = job /\ Place /\ bytes_out' = 0 /\ pc = "file" /\ pc' \in {"pad", "table"}
    BY <1>9 DEF FilesDone, Place, placement
  <2>2. QED
    BY <2>1, SameFiles DEF CursorInv, Place, Filing
<1>10. ASSUME NEW n \in 1..CHUNK_SIZE, PaddedOut(n)
       PROVE  CursorInv'
  <2>1. PICK c : Len(c) = n /\ Wrote(rom_size + bytes_out, c)
    BY <1>10 DEF PaddedOut
  <2>2. /\ job' = job /\ Place /\ bytes_out' = bytes_out + n /\ pc = "pad" /\ pc' = "pad"
    BY <1>10 DEF PaddedOut, Frame
  <2>3. rom_size + bytes_out + n <= zelda64_ceil_pow2(rom_size)
    BY <2>1, <2>2 DEF Wrote, InPlace
  <2>4. rom_size + (bytes_out + n) <= zelda64_ceil_pow2(rom_size)
    BY <1>1, <2>3
  <2>5. QED
    BY <2>2, <2>4, SameFiles DEF CursorInv, Place, Filing
<1>11. CASE pc' \in {"table", "check", "close", "done"}
    BY <1>11 DEF CursorInv, Filing
<1>12. CASE Opened \/ Started \/ Begun \/ CopyDone \/ (ReadChunk /\ pc' = "code")
  <2>1. CASE Opened \/ Started
    BY <1>5, <2>1 DEF Opened, Started, Frame, Filing
  <2>2. CASE Begun
    <3>1. pc = "file" /\ pc' \in {"copy", "entry", "read"} /\ job' = job /\ Place
        BY <2>2 DEF Begun, Frame
    <3>2. QED
        BY <1>5, <3>1 DEF Filing
  <2>3. CASE CopyDone
    BY <1>5, <2>3 DEF CopyDone, Place, placement, Filing
  <2>4. CASE ReadChunk /\ pc' = "code"
    <3>1. pc = "read" /\ job' = job /\ Place
        BY <2>4 DEF ReadChunk, Abort, Place, placement
    <3>2. QED
        BY <1>5, <2>4, <3>1 DEF Filing
  <2>5. QED
    BY <1>12, <2>1, <2>2, <2>3, <2>4
<1>13. ASSUME NEW n, Copied(n)
       PROVE  CursorInv'
    BY <1>5, <1>13 DEF Copied, Frame, Filing
<1>14. ASSUME NEW c, NEW e, NEW end, Coded(c, e, end)
       PROVE  CursorInv'
    BY <1>5, <1>14 DEF Coded, Frame, Filing
<1>15. CASE PadDone \/ Checked \/ Closed \/ \E n : Tabled(n)
    BY <1>11, <1>15 DEF PadDone, Checked, Closed, Tabled
<1>16. QED
    BY <1>4, <1>6, <1>7, <1>8, <1>9, <1>10, <1>12, <1>13, <1>14, <1>15 DEF Step

LEMMA StreamIs ==
    ASSUME CountersInv, IsSound(job), CursorInv, pc \in {"read", "code"}
    PROVE  /\ Stream.out = Stored(i) /\ Len(Stream.out) = StoredSize(i)
           /\ entry.operation \in {"COMPRESS", "DECOMPRESS"}
<1>1. /\ job \in Jobs /\ entry.operation # "COPY" /\ InFile
    BY DEF CountersInv, InFile
<1>2. i \in Files(rom) /\ IsWritten(i) /\ StatOf(i).result = "OK"
    BY <1>1, AtFile
<1>3. entry.operation \in {"COMPRESS", "DECOMPRESS"}
    BY <1>1, <1>2, FileIsSound DEF entry, Operations
<1>4. form = FormOf(i)
    BY DEF form, FormOf
<1>5. Stream.out = Stored(i)
    BY <1>3, <1>4 DEF Stream, Stored, entry
<1>6. QED
    BY <1>1, <1>2, <1>3, <1>5, StoredIs

LEMMA CopyIs ==
    ASSUME CountersInv, IsSound(job), CursorInv, FileInv, pc = "copy"
    PROVE  /\ Stored(i) = ChunkAt(rom, stat.offset, stat.size)
           /\ StoredSize(i) = stat.size
           /\ stat.size \in Nat /\ stat.offset \in Nat
<1>1. job \in Jobs /\ InFile /\ entry.operation = "COPY"
    BY DEF CountersInv, InFile, FileInv
<1>2. i \in Files(rom) /\ IsWritten(i) /\ StatOf(i).result = "OK" /\ stat = StatOf(i)
    BY <1>1, AtFile
<1>3. StatOf(i).size \in Nat /\ StatOf(i).offset \in Nat
    BY <1>1, <1>2, FileIsSound
<1>4. QED
    BY <1>1, <1>2, <1>3 DEF Stored, StoredSize, entry, StatOf

LEMMA FileKept ==
    ASSUME CountersInv, IsSound(job), CursorInv, FileInv, IsSeq(image), Step
    PROVE  FileInv'
<1>1. /\ job \in Jobs /\ i \in 0..count /\ count \in Nat /\ bytes_out \in Nat
      /\ Len(image) \in Nat
    BY JobIs, WordsAreNat, SeqParts DEF CountersInv
<1>2. CASE ~InFile'
    BY <1>2 DEF FileInv, InFile
<1>3. ASSUME job' = job, i' = i, position' = position
      PROVE  /\ StoredSize(i)' = StoredSize(i) /\ rom_start' = rom_start
             /\ entry' = entry
    BY <1>3, SameFiles, SameJob DEF StoredSize
<1>4. CASE UNCHANGED vars
    BY <1>3, <1>4 DEF FileInv, InFile, vars
<1>5. CASE Begun
  <2>1. /\ job' = job /\ i' = i /\ position' = position /\ bytes_out' = 0 /\ image' = image
        /\ i < count /\ ~Skipped(entry) /\ stat.result = "OK"
        /\ pc' = IF entry.operation = "COPY" THEN "copy"
                 ELSE IF stat.file_size = 0 THEN "entry" ELSE "read"
    BY <1>5 DEF Begun, Frame, Place
  <2>2. i \in Files(rom) /\ IsWritten(i) /\ StatOf(i).result = "OK" /\ stat = StatOf(i)
    BY <1>1, <2>1, FileIs DEF IsWritten, entry, stat, StatOf
  <2>3. stat.file_size # 0 /\ StoredSize(i) \in Nat
    BY <1>1, <2>2, FileIsSound, StoredIs
  <2>4. QED
    BY <1>3, <2>1, <2>3 DEF FileInv
<1>6. ASSUME NEW n \in 1..CHUNK_SIZE, Copied(n)
      PROVE  FileInv'
  <2> DEFINE c == ChunkAt(rom, stat.offset + bytes_out, n)
             a == rom_start + bytes_out
  <2>1. /\ job' = job /\ i' = i /\ position' = position /\ bytes_out' = bytes_out + n
        /\ pc = "copy" /\ pc' = "copy" /\ Wrote(a, c)
    BY <1>6 DEF Copied, Frame, Place
  <2>2. n \in Nat /\ Len(c) = n
    <3>1. n \in Nat
        BY SizesAssumption
    <3>2. QED
        BY <3>1, FunctionIsIsSeq DEF ChunkAt
  <2> HIDE DEF c, a
  <2>3. Len(image') = IF Len(c) = 0 THEN Len(image)
                      ELSE IF a + Len(c) > Len(image) THEN a + Len(c) ELSE Len(image)
    BY <2>1 DEF Wrote
  <2>4. bytes_out + n <= stat.size /\ a \in Nat
    BY <2>1, <2>2 DEF Wrote, InPlace
  <2>5. a + n <= Len(image')
    BY <1>1, <2>2, <2>3, <2>4
  <2>6. rom_start \in Nat
    BY <2>1, RomStartIsNat
  <2>7. rom_start + bytes_out' <= Len(image')
    BY <1>1, <2>1, <2>2, <2>5, <2>6 DEF a
  <2>8. bytes_out' <= StoredSize(i)
    BY <2>1, <2>4, CopyIs
  <2>9. QED
    BY <1>3, <2>1, <2>7, <2>8 DEF FileInv
<1>7. CASE CopyDone
  <2>1. /\ job' = job /\ i' = i /\ position' = position /\ bytes_out' = bytes_out
        /\ image' = image /\ pc = "copy" /\ pc' = "entry" /\ bytes_out >= stat.size
    BY <1>7 DEF CopyDone, placement
  <2>2. StoredSize(i) = stat.size /\ stat.size \in Nat
    BY <2>1, CopyIs
  <2>3. bytes_out = StoredSize(i)
    BY <1>1, <2>1, <2>2 DEF FileInv, InFile
  <2>4. QED
    BY <1>3, <2>1, <2>3 DEF FileInv, InFile
<1>8. CASE ReadChunk /\ pc' = "code"
  <2>1. /\ job' = job /\ i' = i /\ position' = position /\ bytes_out' = bytes_out
        /\ image' = image /\ pc = "read"
    BY <1>8 DEF ReadChunk, Abort, placement
  <2>2. QED
    BY <1>3, <1>8, <2>1 DEF FileInv, InFile
<1>9. ASSUME NEW k \in 0..avail_in, NEW e \in 0..CHUNK_SIZE, NEW end \in BOOLEAN,
             Coded(k, e, end)
      PROVE  FileInv'
  <2> DEFINE c == Produced(Stream, taken \o Prefix(InputChunk, k), bytes_out, e)
             a == rom_start + bytes_out
             out == Len(Stream.out)
  <2>1. /\ job' = job /\ i' = i /\ position' = position /\ bytes_out' = bytes_out + e
        /\ pc = "code" /\ pc' \in {"code", "read", "entry"} /\ Wrote(a, c)
        /\ MayCode(Stream, taken, bytes_out, InputChunk, CHUNK_SIZE, Finish, k, e, end)
        /\ pc' = "entry" => end
    BY <1>9 DEF Coded, Frame, Place
  <2>2. e \in Nat /\ Len(c) = e
    <3>1. e \in Nat
        BY SizesAssumption
    <3>2. QED
        BY <3>1, FunctionIsIsSeq DEF Produced
  <2>3. bytes_out + e <= out /\ (end => bytes_out + e = out)
    BY <2>1 DEF MayCode
  <2>4. out = StoredSize(i)
    BY <2>1, StreamIs
  <2> HIDE DEF c, a, out
  <2>5. Len(image') = IF Len(c) = 0 THEN Len(image)
                      ELSE IF a + Len(c) > Len(image) THEN a + Len(c) ELSE Len(image)
    BY <2>1 DEF Wrote
  <2>6. rom_start \in Nat
    BY <2>1, RomStartIsNat
  <2>7. bytes_out > 0 => rom_start + bytes_out <= Len(image)
    BY <2>1 DEF FileInv, InFile
  <2>8. bytes_out' > 0 => rom_start + bytes_out' <= Len(image')
    BY <1>1, <2>1, <2>2, <2>5, <2>6, <2>7 DEF a
  <2>9. QED
    BY <1>3, <2>1, <2>3, <2>4, <2>8 DEF FileInv
<1>10. ASSUME Failed \/ Overrun \/ Opened \/ Started \/ SkipFile \/ EndFile \/ FilesDone
              \/ (\E n : PaddedOut(n)) \/ PadDone \/ (\E n : Tabled(n)) \/ Checked \/ Closed
       PROVE  ~InFile'
  <2>1. CASE Failed \/ Overrun
    BY <2>1 DEF Failed, Overrun, Abort, InFile
  <2>2. CASE Opened \/ Started \/ SkipFile \/ EndFile \/ FilesDone
    BY <2>2, SkipIs, EndIs DEF Opened, Started, FilesDone, InFile
  <2>3. CASE (\E n : PaddedOut(n)) \/ PadDone \/ (\E n : Tabled(n)) \/ Checked \/ Closed
    BY <2>3 DEF PaddedOut, PadDone, Tabled, Checked, Closed, InFile
  <2>4. QED
    BY <1>10, <2>1, <2>2, <2>3
<1>11. QED
    BY <1>2, <1>4, <1>5, <1>6, <1>7, <1>8, <1>9, <1>10 DEF Step

-----------------------------------------------------------------------------
(* The files that are done stay placed: the image only grows. *)

LEMMA WroteGrows ==
    ASSUME IsSeq(image), NEW a, NEW c, Wrote(a, c)
    PROVE  /\ Len(image) <= Len(image') /\ Len(image) \in Nat /\ Len(image') \in Nat
           /\ a \in Nat /\ Len(c) \in Nat
           /\ Len(c) > 0 => a + Len(c) <= Len(image')
           /\ Len(image') = Len(image) \/ (Len(c) > 0 /\ Len(image') = a + Len(c))
           /\ a + Len(c) <= Len(image) => Len(image') = Len(image)
<1>1. /\ Len(image) \in Nat /\ Len(image') \in Nat /\ a \in Nat /\ Len(c) \in Nat
    BY SeqParts DEF Wrote
<1>2. Len(image') = IF Len(c) = 0 THEN Len(image)
                    ELSE IF a + Len(c) > Len(image) THEN a + Len(c) ELSE Len(image)
    BY DEF Wrote
<1> DEFINE l == Len(image)
           m == Len(image')
           n == Len(c)
<1> HIDE DEF l, m, n
<1>3. /\ l <= m
      /\ n > 0 => a + n <= m
      /\ m = l \/ (n > 0 /\ m = a + n)
      /\ a + n <= l => m = l
    BY <1>1, <1>2 DEF l, m, n
<1>4. QED
    BY <1>1, <1>3 DEF l, m, n

LEMMA Grows ==
    ASSUME IsSeq(image), Step, ~Opened
    PROVE  image' = image \/ \E a, c : Wrote(a, c)
<1>1. CASE Failed \/ Overrun
    BY <1>1 DEF Failed, Overrun, Abort
<1>2. CASE Started \/ SkipFile \/ Begun \/ CopyDone \/ (ReadChunk /\ pc' = "code")
           \/ EndFile \/ FilesDone \/ PadDone \/ Closed \/ UNCHANGED vars
  <2>1. ReadChunk => image' = image
    BY DEF ReadChunk, Abort
  <2>2. QED
    BY <1>2, <2>1 DEF Started, SkipFile, Begun, CopyDone, EndFile, FilesDone, PadDone,
                      Closed, vars
<1>3. CASE (\E n : Copied(n)) \/ (\E k, e, end : Coded(k, e, end)) \/ (\E n : PaddedOut(n))
           \/ (\E n : Tabled(n)) \/ Checked
    BY <1>3 DEF Copied, Coded, PaddedOut, Tabled, Checked
<1>4. QED
    BY <1>1, <1>2, <1>3 DEF Step

LEMMA LengthGrows ==
    ASSUME IsSeq(image), Step, ~Opened
    PROVE  Len(image) \in Nat /\ Len(image') \in Nat /\ Len(image) <= Len(image')
<1>1. CASE image' = image
    BY <1>1, SeqParts
<1>2. CASE \E a, c : Wrote(a, c)
    BY <1>2, WroteGrows
<1>3. QED
    BY <1>1, <1>2, Grows

LEMMA PlacedSame ==
    ASSUME job \in Jobs, job' = job, IsSound(job), TableInv, NEW f \in Files(rom),
           f \in 0..(i - 1), IsWritten(f), dma'[f] = dma[f], Placed(f),
           rom_size \in Nat, rom_size' \in Nat, rom_size <= rom_size',
           Len(image) \in Nat, Len(image') \in Nat, Len(image) <= Len(image')
    PROVE  Placed(f)'
<1>1. /\ StatOf(f)' = StatOf(f) /\ StoredSize(f)' = StoredSize(f) /\ Padded(f)' = Padded(f)
    BY SameFiles
<1>2. StoredSize(f) \in Nat /\ Padded(f) \in Nat
    BY PaddedIs DEF Placed
<1>3. dma[f].rom_start \in Nat
    BY WordsAreNat DEF TableInv
<1>4. /\ dma[f].rom_start + Padded(f) <= rom_size'
      /\ dma[f].rom_start + StoredSize(f) <= Len(image')
    BY <1>2, <1>3 DEF Placed
<1>5. QED
    BY <1>1, <1>4 DEF Placed

LEMMA PlacedKept ==
    ASSUME CountersInv, TableInv, IsSeq(image), IsSound(job), CursorInv, FileInv, PlacedInv,
           rom_size' \in Word, Step
    PROVE  PlacedInv'
<1>1. /\ job \in Jobs /\ i \in 0..count /\ i \in Nat /\ count \in Nat
      /\ rom_size \in Nat /\ rom_size' \in Nat
      /\ Files(rom) = 0..(count - 1)
      /\ \A f \in 0..(i - 1) : f \in Files(rom)
  <2>1. job \in Jobs /\ i \in 0..count /\ rom_size \in Word
    BY DEF CountersInv
  <2>2. count \in Nat /\ Files(rom) = 0..(count - 1)
    BY <2>1, JobIs
  <2>3. rom_size \in Nat /\ rom_size' \in Nat
    BY <2>1, WordsAreNat
  <2>4. QED
    BY <2>1, <2>2, <2>3
<1>2. CASE Opened
  <2>1. i' = i /\ i = 0
    BY <1>2 DEF Opened, Place, CursorInv
  <2>2. 0..(i' - 1) = {}
    BY <2>1
  <2>3. QED
    BY <2>2 DEF PlacedInv
<1>3. ASSUME ~Opened, job' = job, i' = i, dma' = dma, rom_size <= rom_size'
      PROVE  PlacedInv'
  <2>1. Len(image) \in Nat /\ Len(image') \in Nat /\ Len(image) <= Len(image')
    BY <1>3, LengthGrows
  <2>2. \A f \in 0..(i - 1) : /\ IsWritten(f)' = IsWritten(f)
                              /\ StoredSize(f)' = StoredSize(f)
                              /\ IsWritten(f) => Placed(f)'
    BY <1>1, <1>3, <2>1, SameFiles, PlacedSame DEF PlacedInv
  <2>3. QED
    BY <1>3, <2>2 DEF PlacedInv
<1>4. CASE SkipFile
  <2>1. /\ ~IsWritten(i) /\ i' = i + 1
        /\ \A k \in 0..(i - 1) : dma'[k] = dma[k]
        /\ \A k \in 0..(i' - 1) : k \in 0..(i - 1) \/ k = i
        /\ job' = job /\ image' = image /\ rom_size' = rom_size
    BY <1>4, SkipIs
  <2>2. Len(image) \in Nat /\ Len(image') \in Nat /\ Len(image) <= Len(image')
    BY <2>1, SeqParts
  <2>3. \A f \in 0..(i' - 1) : IsWritten(f)' => f \in 0..(i - 1) /\ IsWritten(f)
    BY <2>1, SameFiles
  <2>4. \A f \in 0..(i - 1) : /\ StoredSize(f)' = StoredSize(f)
                              /\ IsWritten(f) => Placed(f)'
    BY <1>1, <2>1, <2>2, SameFiles, PlacedSame DEF PlacedInv
  <2>5. QED
    BY <2>1, <2>3, <2>4 DEF PlacedInv
<1>5. CASE EndFile
  <2>1. /\ i' = i + 1 /\ pc = "entry"
        /\ \A k \in 0..(i - 1) : dma'[k] = dma[k]
        /\ \A k \in 0..(i' - 1) : k \in 0..(i - 1) \/ k = i
        /\ dma'[i].vrom_start = entry.vrom_start /\ dma'[i].vrom_end = entry.vrom_end
        /\ dma'[i].rom_start = rom_start
        /\ dma'[i].rom_end = IF entry.operation = "COMPRESS" THEN End ELSE 0
        /\ rom_size' = IF End > rom_size THEN End ELSE rom_size
        /\ job' = job /\ image' = image
    BY <1>5, EndIs
  <2>2. /\ i \in Files(rom) /\ IsWritten(i) /\ StatOf(i).result = "OK"
        /\ StoredSize(i) \in Nat \ {0} /\ rom_start \in Nat /\ rom_start % ALIGN = 0
        /\ job.pack = "SPARSE" => rom_start = job.layout[i].vrom_start
        /\ job.pack = "DENSE" => rom_start = rom_size
        /\ i <= 2 => rom_start = job.layout[i].vrom_start
    BY <2>1, AtFile DEF InFile
  <2>3. /\ End = rom_start + Padded(i) /\ End \in Nat
        /\ rom_start + StoredSize(i) <= Len(image)
    BY <2>1, EndSays
  <2>4. rom_size <= rom_size' /\ End <= rom_size'
    BY <1>1, <2>1, <2>3
  <2>5. PICK n \in Nat : n = i
    BY <1>1
  <2>6. Placed(n)'
    BY <2>1, <2>2, <2>3, <2>4, <2>5, SameFiles DEF Placed, entry
  <2>7. Len(image) \in Nat /\ Len(image') \in Nat /\ Len(image) <= Len(image')
    BY <2>1, SeqParts
  <2>8. \A f \in 0..(i - 1) : /\ StoredSize(f)' = StoredSize(f)
                              /\ IsWritten(f)' = IsWritten(f)
                              /\ IsWritten(f) => Placed(f)'
    BY <1>1, <2>1, <2>4, <2>7, SameFiles, PlacedSame DEF PlacedInv
  <2>9. ASSUME NEW f \in 0..(i - 1), IsWritten(f), job.pack = "DENSE"
        PROVE  dma[f].rom_start + StoredSize(f) <= rom_start
    <3>1. Placed(f) /\ f \in Files(rom)
        BY <1>1, <2>9 DEF PlacedInv
    <3>2. /\ StoredSize(f) \in Nat /\ Padded(f) \in Nat /\ StoredSize(f) <= Padded(f)
          /\ dma[f].rom_start + Padded(f) <= rom_size
        BY <1>1, <2>9, <3>1, PaddedIs DEF Placed
    <3>3. dma[f].rom_start \in Nat
        BY WordsAreNat DEF TableInv
    <3>4. rom_start = rom_size /\ rom_size \in Nat
        BY <1>1, <2>2, <2>9
    <3> DEFINE x == dma[f].rom_start
               size == StoredSize(f)
               padded == Padded(f)
    <3>5. /\ x \in Nat /\ size \in Nat /\ padded \in Nat /\ size <= padded
          /\ x + padded <= rom_size
        BY <3>2, <3>3
    <3> HIDE DEF x, size, padded
    <3>6. x + size <= rom_start
        BY <3>4, <3>5
    <3>7. QED
        BY <3>6 DEF x, size
  <2>10. ASSUME NEW f \in 0..(i' - 1), IsWritten(f)'
         PROVE  Placed(f)'
    <3>1. f \in 0..(i - 1) \/ f = n
        BY <2>1, <2>5, <2>10
    <3>2. f \in 0..(i - 1) => Placed(f)'
        BY <2>8, <2>10
    <3>3. f = n => Placed(f)'
        BY <2>6
    <3>4. QED
        BY <3>1, <3>2, <3>3
  <2>11. ASSUME NEW f \in 0..(i' - 1), NEW g \in 0..(i' - 1), job'.pack = "DENSE", f < g,
                IsWritten(f)', IsWritten(g)'
         PROVE  dma'[f].rom_start + StoredSize(f)' <= dma'[g].rom_start
    <3>1. f \in 0..(i - 1)
        BY <1>1, <2>1, <2>11
    <3>2. CASE g = i
        BY <2>1, <2>8, <2>9, <2>11, <3>1, <3>2
    <3>3. CASE g \in 0..(i - 1)
        BY <2>1, <2>8, <2>11, <3>1, <3>3 DEF PlacedInv
    <3>4. QED
        BY <2>1, <3>2, <3>3
  <2>12. QED
    BY <2>10, <2>11 DEF PlacedInv
<1>6. CASE PadDone
  <2>1. /\ job' = job /\ i' = i /\ dma' = dma /\ image' = image
        /\ rom_size' = rom_size + bytes_out
    BY <1>6 DEF PadDone
  <2>2. bytes_out \in Nat
    BY WordsAreNat DEF CountersInv
  <2>3. Opened => PlacedInv'
    BY <1>2
  <2>4. QED
    BY <1>1, <1>3, <2>1, <2>2, <2>3
<1>7. CASE ~Opened /\ job' = job /\ i' = i /\ dma' = dma /\ rom_size' = rom_size
    BY <1>1, <1>3, <1>7
<1>8. CASE Failed \/ Overrun
    BY <1>2, <1>7, <1>8 DEF Failed, Overrun, Abort, placement
<1>9. CASE Started \/ Begun \/ CopyDone \/ (ReadChunk /\ pc' = "code") \/ FilesDone
           \/ Closed \/ UNCHANGED vars
  <2>1. ReadChunk /\ pc' = "code" => job' = job /\ i' = i /\ dma' = dma /\ rom_size' = rom_size
    BY DEF ReadChunk, Abort, placement
  <2>2. QED
    BY <1>2, <1>7, <1>9, <2>1 DEF Started, Begun, CopyDone, FilesDone, Closed, vars, Frame,
                                  Place, placement
<1>10. CASE (\E n : Copied(n)) \/ (\E k, e, end : Coded(k, e, end)) \/ (\E n : PaddedOut(n))
            \/ (\E n : Tabled(n)) \/ Checked
    BY <1>2, <1>7, <1>10 DEF Copied, Coded, PaddedOut, Tabled, Checked, Frame, Place
<1>11. QED
    BY <1>2, <1>4, <1>5, <1>6, <1>8, <1>9, <1>10 DEF Step

-----------------------------------------------------------------------------
(* No write touches a file that is done: what is stored of two files does  *)
(* not overlap, and every write but the last two lies behind or apart.     *)

SoundInv ==
    /\ IInv
    /\ IsSound(job)
    /\ CursorInv /\ FileInv /\ PlacedInv

Room == job.pack = "SPARSE" => RoomInPlace

LEMMA StepKeepsJob ==
    ASSUME Step
    PROVE  job' = job
<1>1. CASE Failed \/ Overrun \/ Opened \/ Started \/ SkipFile \/ Begun \/ CopyDone
    BY <1>1 DEF Failed, Overrun, Abort, Opened, Started, SkipFile, Begun, CopyDone, Frame
<1>2. CASE (ReadChunk /\ pc' = "code") \/ EndFile \/ FilesDone \/ PadDone \/ Closed
           \/ UNCHANGED vars
    BY <1>2 DEF ReadChunk, Abort, EndFile, FilesDone, PadDone, Closed, vars
<1>3. CASE (\E n : Copied(n)) \/ (\E k, e, end : Coded(k, e, end)) \/ (\E n : PaddedOut(n))
           \/ (\E n : Tabled(n)) \/ Checked
    BY <1>3 DEF Copied, Coded, PaddedOut, Tabled, Checked, Frame
<1>4. QED
    BY <1>1, <1>2, <1>3 DEF Step

LEMMA SoundKept ==
    ASSUME SoundInv, [Next]_vars
    PROVE  SoundInv'
<1>1. IInv'
    BY ResourcesKept, CountersKept, TableKept, CodeKept DEF IInv, SoundInv
<1>2. Step
    BY Steps DEF IInv, SoundInv
<1>3. job' = job
    BY <1>2, StepKeepsJob
<1>4. IsSeq(image) /\ rom_size' \in Word
    BY <1>1 DEF SoundInv, IInv, CodeInv, CountersInv
<1>5. CursorInv' /\ FileInv' /\ PlacedInv'
    BY <1>2, <1>4, CursorKept, FileKept, PlacedKept DEF SoundInv, IInv
<1>6. QED
    BY <1>1, <1>3, <1>5 DEF SoundInv

LEMMA SoundInit == Init /\ IsSound(job) => SoundInv
<1> SUFFICES ASSUME Init, IsSound(job)
             PROVE  SoundInv
    OBVIOUS
<1>1. IInv
    BY ResourcesInit, CountersInit, TableInit, CodeInit DEF IInv
<1>2. job \in Jobs /\ pc = "open" /\ i = 0 /\ position = 0 /\ rom_size = 0
    BY DEF Init
<1>3. CursorInv
  <2>1. Running[0].bound = 0
    BY <1>2, RunningSays
  <2>2. 0 % ALIGN = 0
    BY WordsAssumption
  <2>3. QED
    BY <1>2, <2>1, <2>2 DEF CursorInv, Filing
<1>4. FileInv
    BY <1>2 DEF FileInv, InFile
<1>5. PlacedInv
  <2>1. 0..(i - 1) = {}
    BY <1>2
  <2>2. QED
    BY <2>1 DEF PlacedInv
<1>6. QED
    BY <1>1, <1>3, <1>4, <1>5 DEF SoundInv

LEMMA FinishedIs ==
    ASSUME SoundInv, NEW f \in 0..(i - 1), IsWritten(f)
    PROVE  /\ Placed(f) /\ f \in Files(rom)
           /\ StoredSize(f) \in Nat \ {0} /\ dma[f].rom_start \in Nat
           /\ dma[f].rom_start + StoredSize(f) <= rom_size
           /\ dma[f].rom_start + StoredSize(f) <= Len(image)
<1>1. job \in Jobs /\ i \in 0..count /\ count \in Nat /\ rom_size \in Nat
    BY JobIs, WordsAreNat DEF SoundInv, IInv, CountersInv
<1>2. Placed(f) /\ f \in Files(rom)
    BY <1>1, JobIs DEF SoundInv, PlacedInv
<1>3. StoredSize(f) \in Nat \ {0} /\ Padded(f) \in Nat /\ StoredSize(f) <= Padded(f)
    BY <1>1, <1>2, PaddedIs DEF SoundInv, Placed
<1>4. dma[f].rom_start \in Nat
    BY WordsAreNat DEF SoundInv, IInv, TableInv
<1>5. dma[f].rom_start + Padded(f) <= rom_size /\ dma[f].rom_start + StoredSize(f) <= Len(image)
    BY <1>2 DEF Placed
<1>6. QED
    BY <1>1, <1>2, <1>3, <1>4, <1>5

LEMMA Apart ==
    ASSUME SoundInv, Room, NEW f \in 0..(i - 1), NEW g \in 0..(i - 1), f # g,
           IsWritten(f), IsWritten(g)
    PROVE  \/ dma[f].rom_start + StoredSize(f) <= dma[g].rom_start
           \/ dma[g].rom_start + StoredSize(g) <= dma[f].rom_start
<1>1. job \in Jobs
    BY DEF SoundInv, IInv, CountersInv
<1>2. CASE job.pack = "DENSE"
  <2>1. f < g \/ g < f
    OBVIOUS
  <2>2. QED
    BY <1>2, <2>1 DEF SoundInv, PlacedInv
<1>3. CASE job.pack = "SPARSE"
  <2>1. /\ dma[f].rom_start = job.layout[f].vrom_start
        /\ dma[g].rom_start = job.layout[g].vrom_start
        /\ f \in Files(rom) /\ g \in Files(rom)
    BY <1>3, FinishedIs DEF Placed
  <2>2. dma[f].rom_start \in Nat /\ dma[g].rom_start \in Nat
    BY FinishedIs
  <2>3. dma[f].rom_start <= dma[g].rom_start \/ dma[g].rom_start <= dma[f].rom_start
    BY <2>2
  <2>4. RoomInPlace
    BY <1>3 DEF Room
  <2>5. QED
    BY <2>1, <2>3, <2>4 DEF RoomInPlace
<1>4. QED
    BY <1>1, <1>2, <1>3, JobIs

LEMMA AheadOf ==
    ASSUME SoundInv, Room, InFile, NEW f \in 0..(i - 1), IsWritten(f)
    PROVE  \/ dma[f].rom_start + StoredSize(f) <= rom_start
           \/ rom_start + StoredSize(i) <= dma[f].rom_start
<1>1. job \in Jobs
    BY DEF SoundInv, IInv, CountersInv
<1>2. /\ i \in Files(rom) /\ i \in Nat /\ IsWritten(i) /\ rom_start \in Nat
      /\ job.pack = "SPARSE" => rom_start = job.layout[i].vrom_start
      /\ job.pack = "DENSE" => rom_start = rom_size
    BY AtFile DEF SoundInv, IInv
<1>3. CASE job.pack = "DENSE"
    BY <1>2, <1>3, FinishedIs
<1>4. CASE job.pack = "SPARSE"
  <2>1. /\ dma[f].rom_start = job.layout[f].vrom_start /\ f \in Files(rom) /\ f # i
        /\ dma[f].rom_start \in Nat
    BY <1>2, <1>4, FinishedIs DEF Placed
  <2>2. dma[f].rom_start <= rom_start \/ rom_start <= dma[f].rom_start
    BY <1>2, <2>1
  <2>3. RoomInPlace
    BY <1>4 DEF Room
  <2>4. QED
    BY <1>2, <1>4, <2>1, <2>2, <2>3 DEF RoomInPlace
<1>5. QED
    BY <1>1, <1>3, <1>4, JobIs

(* Where the last steps write: within the table, within the header. *)
LEMMA TablePlace ==
    ASSUME SoundInv, pc = "table", NEW a \in Nat, NEW n \in Nat, InPlace(a, n)
    PROVE  /\ 2 \in 0..(i - 1) /\ IsWritten(2)
           /\ dma[2].rom_start <= a /\ a + n <= dma[2].rom_start + StoredSize(2)
<1>1. job \in Jobs /\ i = count /\ bytes_out \in Nat
    BY WordsAreNat DEF SoundInv, IInv, CountersInv
<1>2. 2 \in 0..(i - 1) /\ count \in Nat
    BY <1>1, JobIs
<1>3. IsWritten(2) /\ job.layout[2].vrom_start \in Nat /\ job.layout[2].vrom_end \in Nat
      /\ job.layout[2].vrom_end - job.layout[2].vrom_start = count * ENTRY_CELLS
    BY <1>1, HeadIs DEF SoundInv
<1>4. Placed(2)
    BY <1>2, <1>3, FinishedIs
<1>5. /\ dma[2].rom_start = job.layout[2].vrom_start /\ dma[2].vrom_start = job.layout[2].vrom_start
      /\ StoredSize(2) = job.layout[2].vrom_end - job.layout[2].vrom_start
    BY <1>1, <1>4, HeadIs DEF Placed, SoundInv
<1>6. /\ a = dma[2].vrom_start + bytes_out * ENTRY_CELLS
      /\ bytes_out * ENTRY_CELLS + n <= count * ENTRY_CELLS
    BY DEF InPlace
<1>7. bytes_out * ENTRY_CELLS \in Nat /\ count * ENTRY_CELLS \in Nat
    BY <1>1, <1>2 DEF ENTRY_CELLS
<1>8. QED
    BY <1>2, <1>3, <1>5, <1>6, <1>7

LEMMA CheckPlace ==
    ASSUME SoundInv, pc = "check", CheckCodeResult = "OK"
    PROVE  /\ 0 \in 0..(i - 1) /\ IsWritten(0)
           /\ dma[0].rom_start <= CHECK_CODE
           /\ CHECK_CODE + 1 <= dma[0].rom_start + StoredSize(0)
           /\ CHECK_CODE + 1 <= dma[0].vrom_end
<1>1. job \in Jobs /\ i = count
    BY DEF SoundInv, IInv, CountersInv
<1>2. 0 \in 0..(i - 1)
    BY <1>1, JobIs
<1>3. /\ IsWritten(0) /\ job.layout[0].vrom_start = 0 /\ job.layout[0].vrom_end \in Nat
    BY <1>1, HeadIs DEF SoundInv
<1>4. Placed(0)
    BY <1>2, <1>3, FinishedIs
<1>5. /\ dma[0].rom_start = 0 /\ dma[0].vrom_start = 0
      /\ dma[0].vrom_end = job.layout[0].vrom_end
      /\ StoredSize(0) = job.layout[0].vrom_end - 0
    BY <1>1, <1>3, <1>4, HeadIs DEF Placed, SoundInv
<1>6. ~(dma[0].vrom_end - dma[0].vrom_start < CHECK_CODE_START)
    BY DEF CheckCodeResult
<1>7. QED
    BY <1>2, <1>3, <1>5, <1>6, SizesAssumption DEF CHECK_CODE

LEMMA InPlaceApart ==
    ASSUME SoundInv, Room, NEW a \in Nat, NEW n \in Nat, InPlace(a, n),
           NEW f \in 0..(i - 1), IsWritten(f), pc = "table" => f # 2, pc = "check" => f # 0
    PROVE  dma[f].rom_start + StoredSize(f) <= a \/ a + n <= dma[f].rom_start
<1>1. /\ bytes_out \in Nat /\ rom_size \in Nat
    BY WordsAreNat DEF SoundInv, IInv, CountersInv
<1>2. /\ StoredSize(f) \in Nat /\ dma[f].rom_start \in Nat
      /\ dma[f].rom_start + StoredSize(f) <= rom_size
    BY FinishedIs
<1>3. CASE pc \in {"copy", "code"}
  <2>1. a = rom_start + bytes_out /\ bytes_out + n <= StoredSize(i)
    <3>1. CASE pc = "copy"
        BY <3>1, CopyIs DEF InPlace, SoundInv, IInv
    <3>2. CASE pc = "code"
        BY <3>2, StreamIs DEF InPlace, SoundInv, IInv
    <3>3. QED
        BY <1>3, <3>1, <3>2
  <2>2. InFile
    BY <1>3 DEF InFile
  <2>3. rom_start \in Nat /\ StoredSize(i) \in Nat
    BY <2>2, AtFile DEF SoundInv, IInv
  <2>4. \/ dma[f].rom_start + StoredSize(f) <= rom_start
        \/ rom_start + StoredSize(i) <= dma[f].rom_start
    BY <2>2, AheadOf
  <2>5. QED
    BY <1>1, <1>2, <2>1, <2>3, <2>4
<1>4. CASE pc = "pad"
  <2>1. a = rom_size + bytes_out
    BY <1>4 DEF InPlace
  <2>2. QED
    BY <1>1, <1>2, <2>1
<1>5. CASE pc = "table"
  <2>1. /\ 2 \in 0..(i - 1) /\ IsWritten(2)
        /\ dma[2].rom_start <= a /\ a + n <= dma[2].rom_start + StoredSize(2)
    BY <1>5, TablePlace
  <2>2. \/ dma[f].rom_start + StoredSize(f) <= dma[2].rom_start
        \/ dma[2].rom_start + StoredSize(2) <= dma[f].rom_start
    BY <1>5, <2>1, Apart
  <2>3. dma[2].rom_start \in Nat /\ StoredSize(2) \in Nat
    BY <2>1, FinishedIs
  <2>4. QED
    BY <1>2, <2>1, <2>2, <2>3
<1>6. CASE pc = "check" /\ CheckCodeResult = "OK" /\ a = CHECK_CODE /\ n = 1
  <2>1. /\ 0 \in 0..(i - 1) /\ IsWritten(0)
        /\ dma[0].rom_start <= CHECK_CODE
        /\ CHECK_CODE + 1 <= dma[0].rom_start + StoredSize(0)
    BY <1>6, CheckPlace
  <2>2. \/ dma[f].rom_start + StoredSize(f) <= dma[0].rom_start
        \/ dma[0].rom_start + StoredSize(0) <= dma[f].rom_start
    BY <1>6, <2>1, Apart
  <2>3. dma[0].rom_start \in Nat /\ StoredSize(0) \in Nat
    BY <2>1, FinishedIs
  <2>4. QED
    BY <1>2, <1>6, <2>1, <2>2, <2>3
<1>7. QED
    BY <1>3, <1>4, <1>5, <1>6 DEF InPlace

LEMMA FileStays ==
    ASSUME SoundInv, Room, Step, NEW f \in 0..(i - 1), IsWritten(f),
           pc = "table" => f # 2, pc = "check" => f # 0
    PROVE  \A k \in 1..StoredSize(f) :
              image'[dma[f].rom_start + k] = image[dma[f].rom_start + k]
<1>1. ~Opened
  <2>1. pc = "open" => i = 0
    BY DEF SoundInv, CursorInv
  <2>2. i = 0 => FALSE
    OBVIOUS
  <2>3. QED
    BY <2>1, <2>2 DEF Opened
<1>2. IsSeq(image)
    BY DEF SoundInv, IInv, CodeInv
<1>3. /\ StoredSize(f) \in Nat /\ dma[f].rom_start \in Nat
      /\ dma[f].rom_start + StoredSize(f) <= Len(image)
    BY FinishedIs
<1>4. ASSUME NEW a, NEW c, Wrote(a, c), NEW k \in 1..StoredSize(f)
      PROVE  image'[dma[f].rom_start + k] = image[dma[f].rom_start + k]
  <2>1. a \in Nat /\ Len(c) \in Nat /\ InPlace(a, Len(c)) /\ Len(image) \in Nat
    BY <1>2, <1>4, WroteGrows DEF Wrote
  <2>2. dma[f].rom_start + StoredSize(f) <= a \/ a + Len(c) <= dma[f].rom_start
    BY <2>1, InPlaceApart
  <2> DEFINE m == dma[f].rom_start + k
             n == Len(c)
             all == Len(image)
  <2>3. \A h \in 1..all : h <= a \/ h > a + n => image'[h] = image[h]
    BY <1>4 DEF Wrote
  <2>4. m \in 1..all /\ (m <= a \/ m > a + n)
    <3> DEFINE s == dma[f].rom_start
               z == StoredSize(f)
    <3>1. /\ z \in Nat /\ s \in Nat /\ s + z <= all /\ a \in Nat /\ n \in Nat /\ all \in Nat
          /\ s + z <= a \/ a + n <= s
          /\ k \in 1..z /\ m = s + k
        BY <1>3, <2>1, <2>2
    <3> HIDE DEF s, z, m, n, all
    <3>2. QED
        BY <3>1
  <2> HIDE DEF m, n, all
  <2>5. image'[m] = image[m]
    BY <2>3, <2>4
  <2>6. QED
    BY <2>5 DEF m
<1>5. QED
    BY <1>1, <1>2, <1>4, Grows

(* Writing a file or the padding never touches a file already written,     *)
(* whatever the coder emits and however the image is packed.               *)
THEOREM FilesStay == Spec /\ IsSound(job) => FinishedFilesStay
<1>1. Init /\ IsSound(job) => SoundInv
    BY SoundInit
<1>2. SoundInv /\ [Next]_vars => SoundInv'
    BY SoundKept
<1>3. SoundInv /\ [Next]_vars =>
        [pc \notin {"table", "check"} /\ image' # image
         /\ (job.pack = "SPARSE" => RoomInPlace) =>
          \A f \in Finished : \A c \in Occupied(f) : image'[c + 1] = image[c + 1]]_vars
  <2>1. SUFFICES ASSUME SoundInv, [Next]_vars, pc \notin {"table", "check"}, Room,
                        NEW f \in Finished, NEW c \in Occupied(f)
                 PROVE  image'[c + 1] = image[c + 1]
    BY DEF Room
  <2>2. Step
    BY <2>1, Steps DEF IInv, SoundInv
  <2>3. f \in 0..(i - 1) /\ IsWritten(f)
    BY <2>1 DEF Finished, SoundInv, IInv, CountersInv
  <2>4. StoredSize(f) \in Nat /\ dma[f].rom_start \in Nat
    BY <2>1, <2>3, FinishedIs
  <2> DEFINE k == c + 1 - dma[f].rom_start
  <2>5. k \in 1..StoredSize(f) /\ dma[f].rom_start + k = c + 1
    BY <2>1, <2>4 DEF Occupied
  <2>6. \A h \in 1..StoredSize(f) : image'[dma[f].rom_start + h] = image[dma[f].rom_start + h]
    BY <2>1, <2>2, <2>3, FileStays
  <2> HIDE DEF k
  <2>7. image'[dma[f].rom_start + k] = image[dma[f].rom_start + k]
    BY <2>5, <2>6
  <2>8. QED
    BY <2>5, <2>7
<1>4. QED
    BY <1>1, <1>2, <1>3, PTL DEF Spec, FinishedFilesStay

-----------------------------------------------------------------------------
(* How long the image is. *)

(* The end of the image as the cursors have it. *)
Written == IF pc = "pad" THEN rom_size + bytes_out ELSE rom_size

LengthInv ==
    job.target = "FILE" =>
        /\ pc \notin {"open", "done"} =>
              /\ Len(image) <= Written \/ (InFile /\ Len(image) <= rom_start + bytes_out)
              /\ Written < Len(image) + ALIGN
        /\ Succeeded => Len(image) <= result /\ result - Len(image) < ALIGN

(* What InPlace says of the last writes: they do not make the image grow. *)
LEMMA LastWrites ==
    ASSUME SoundInv, pc \in {"table", "check"}, NEW a, NEW c, Wrote(a, c)
    PROVE  a + Len(c) <= Len(image) /\ Len(image') = Len(image)
<1>1. IsSeq(image)
    BY DEF SoundInv, IInv, CodeInv
<1>2. /\ a \in Nat /\ Len(c) \in Nat /\ Len(image) \in Nat
      /\ a + Len(c) <= Len(image) => Len(image') = Len(image)
    BY <1>1, WroteGrows
<1>3. InPlace(a, Len(c))
    BY DEF Wrote
<1>4. CASE pc = "table"
  <2>1. /\ 2 \in 0..(i - 1) /\ IsWritten(2) /\ a + Len(c) <= dma[2].rom_start + StoredSize(2)
    BY <1>2, <1>3, <1>4, TablePlace
  <2>2. /\ dma[2].rom_start + StoredSize(2) <= Len(image)
        /\ dma[2].rom_start \in Nat /\ StoredSize(2) \in Nat
    BY <2>1, FinishedIs
  <2>3. QED
    BY <1>2, <2>1, <2>2
<1>5. CASE pc = "check"
  <2>1. CheckCodeResult = "OK" /\ a = CHECK_CODE /\ Len(c) = 1
    BY <1>3, <1>5 DEF InPlace
  <2>2. /\ 0 \in 0..(i - 1) /\ IsWritten(0) /\ a + Len(c) <= dma[0].rom_start + StoredSize(0)
    BY <1>5, <2>1, CheckPlace
  <2>3. /\ dma[0].rom_start + StoredSize(0) <= Len(image)
        /\ dma[0].rom_start \in Nat /\ StoredSize(0) \in Nat
    BY <2>2, FinishedIs
  <2>4. QED
    BY <1>2, <2>2, <2>3
<1>6. QED
    BY <1>4, <1>5

LEMMA StepFailed ==
    ASSUME SoundInv, Failed \/ Overrun
    PROVE  /\ pc' = "done" /\ error' # "OK" /\ job' = job /\ image' = image /\ result' = result
           /\ Failed => error' # "OUT_OF_RANGE"
<1>1. ASSUME NEW r \in Failures, Abort(r)
      PROVE  pc' = "done" /\ error' \notin {"OK", "OUT_OF_RANGE"} /\ job' = job /\ image' = image
             /\ result' = result
    BY <1>1 DEF Abort, Failures
<1>2. ASSUME pc = "file", i < count, ~Skipped(entry), stat.result # "OK", Abort(stat.result)
      PROVE  pc' = "done" /\ error' \notin {"OK", "OUT_OF_RANGE"} /\ job' = job /\ image' = image
             /\ result' = result
  <2>1. i \in Files(rom) /\ ~Skipped(job.layout[i])
    BY <1>2, FileIs DEF SoundInv, IInv, CountersInv, entry
  <2>2. stat.result \in {"OK", "DELETED", "TRUNCATED"}
    BY <2>1 DEF SoundInv, IsSound, FilesAreSound, stat, rom
  <2>3. QED
    BY <1>2, <2>2 DEF Abort
<1>3. Failed => pc' = "done" /\ error' \notin {"OK", "OUT_OF_RANGE"} /\ job' = job /\ image' = image
                /\ result' = result
    BY <1>1, <1>2 DEF Failed
<1>4. Overrun => pc' = "done" /\ error' = "OUT_OF_RANGE" /\ job' = job /\ image' = image
                 /\ result' = result
    BY DEF Overrun, Abort
<1>5. QED
    BY <1>3, <1>4

LEMMA LengthKept ==
    ASSUME SoundInv, LengthInv, Step
    PROVE  LengthInv'
<1> DEFINE l == Len(image)
           m == Len(image')
<1>1. /\ job \in Jobs /\ i \in 0..count /\ rom_size \in Nat /\ bytes_out \in Nat
      /\ IsSeq(image) /\ l \in Nat /\ (pc # "done" => error = "OK")
    BY WordsAreNat, SeqParts DEF SoundInv, IInv, CountersInv, CodeInv
<1>2. job' = job
    BY StepKeepsJob
<1>3. ALIGN \in Nat \ {0}
    BY WordsAssumption
<1>4. SUFFICES ASSUME job.target = "FILE"
               PROVE  LengthInv'
    BY <1>2 DEF LengthInv
<1>5. pc \notin {"open", "done"} =>
          /\ l <= Written \/ (InFile /\ l <= rom_start + bytes_out)
          /\ Written < l + ALIGN
    BY <1>4 DEF LengthInv
<1>6. ASSUME pc' \notin {"open", "done"},
             m <= Written' \/ (InFile' /\ m <= (rom_start + bytes_out)'),
             Written' < m + ALIGN
      PROVE  LengthInv'
    BY <1>6 DEF LengthInv, Succeeded
<1>7. CASE Failed \/ Overrun
    BY <1>7, StepFailed DEF LengthInv, Succeeded
<1>8. CASE UNCHANGED vars
  <2>1. rom_start' = rom_start /\ image' = image
    BY <1>8, SameJob DEF vars
  <2>2. QED
    BY <1>8, <2>1 DEF LengthInv, vars, Written, InFile, Succeeded
<1>9. ASSUME job' = job, image' = image, Written' = Written, pc \notin {"open", "done"},
             pc' \notin {"open", "done"}, bytes_out' = bytes_out, i' = i, position' = position,
             InFile => InFile'
      PROVE  LengthInv'
  <2>1. rom_start' = rom_start
    BY <1>9, SameJob
  <2>2. QED
    BY <1>5, <1>6, <1>9, <2>1
<1>10. ASSUME job' = job, image' = image, Written' = Written, pc \notin {"open", "done"},
              pc' \notin {"open", "done"}, ~InFile
       PROVE  LengthInv'
    BY <1>5, <1>6, <1>10
<1>11. CASE Opened
  <2>1. rom_size = 0
    BY <1>11 DEF Opened, SoundInv, CursorInv
  <2>2. m = 0 /\ Written' = 0 /\ pc' = "alloc"
    BY <1>4, <1>11, <2>1 DEF Opened, Place, Written
  <2>3. QED
    BY <1>3, <1>6, <2>2
<1>12. CASE Started \/ Begun \/ SkipFile
  <2>1. ASSUME Started
        PROVE  LengthInv'
    BY <1>10, <2>1 DEF Started, Frame, Place, Written, InFile
  <2>2. ASSUME Begun
        PROVE  LengthInv'
    <3>1. pc' \in {"copy", "entry", "read"}
        BY <2>2 DEF Begun
    <3>2. QED
        BY <1>10, <2>2, <3>1 DEF Begun, Frame, Place, Written, InFile
  <2>3. ASSUME SkipFile
        PROVE  LengthInv'
    <3>1. CountersInv
        BY DEF SoundInv, IInv
    <3>2. QED
        BY <1>10, <2>3, <3>1, SkipIs DEF Written, InFile
  <2>4. QED
    BY <1>12, <2>1, <2>2, <2>3
<1>13. CASE CopyDone \/ (ReadChunk /\ pc' = "code")
  <2>1. ASSUME CopyDone
        PROVE  LengthInv'
    BY <1>9, <2>1 DEF CopyDone, placement, Written, InFile
  <2>2. ASSUME ReadChunk, pc' = "code"
        PROVE  LengthInv'
    BY <1>9, <2>2 DEF ReadChunk, Abort, placement, Written, InFile
  <2>3. QED
    BY <1>13, <2>1, <2>2
<1>14. ASSUME NEW c, NEW e \in Nat, Wrote(rom_start + bytes_out, c), Len(c) = e,
              bytes_out' = bytes_out + e, Place, pc \in {"copy", "code"},
              pc' \in {"copy", "code", "read", "entry"}
       PROVE  LengthInv'
  <2> DEFINE a == rom_start + bytes_out
  <2>1. /\ l <= m /\ m \in Nat /\ (m = l \/ m = a + e) /\ a \in Nat
    BY <1>1, <1>14, WroteGrows
  <2>2. rom_start' = rom_start /\ rom_start \in Nat
    BY <1>2, <1>14, SameJob, RomStartIsNat DEF Place, SoundInv, IInv
  <2>3. Written = rom_size /\ Written' = rom_size /\ InFile'
    BY <1>14 DEF Written, Place, InFile
  <2>4. (l <= rom_size \/ l <= a) /\ rom_size < l + ALIGN
    BY <1>5, <1>14, <2>3 DEF InFile
  <2>5. (rom_start + bytes_out)' = a + e
    BY <1>1, <1>14, <2>2
  <2> HIDE DEF a, l, m
  <2>6. m <= rom_size \/ m <= a + e
    BY <1>1, <1>14, <2>1, <2>4
  <2>7. rom_size < m + ALIGN
    BY <1>1, <1>3, <2>1, <2>4
  <2>8. QED
    BY <1>6, <1>14, <2>3, <2>5, <2>6, <2>7
<1>15. CASE \E n \in 1..CHUNK_SIZE : Copied(n)
  <2>1. PICK n \in 1..CHUNK_SIZE : Copied(n)
    BY <1>15
  <2>2. n \in Nat
    BY SizesAssumption
  <2>3. Len(ChunkAt(rom, stat.offset + bytes_out, n)) = n
    BY <2>2, FunctionIsIsSeq DEF ChunkAt
  <2>4. QED
    BY <1>14, <2>1, <2>2, <2>3 DEF Copied
<1>16. CASE \E k \in 0..avail_in, e \in 0..CHUNK_SIZE, end \in BOOLEAN : Coded(k, e, end)
  <2>1. PICK k \in 0..avail_in, e \in 0..CHUNK_SIZE, end \in BOOLEAN : Coded(k, e, end)
    BY <1>16
  <2>2. e \in Nat
    BY SizesAssumption
  <2> DEFINE c == Produced(Stream, taken \o Prefix(InputChunk, k), bytes_out, e)
  <2>3. Len(c) = e
    BY <2>2, FunctionIsIsSeq DEF Produced
  <2>4. /\ Wrote(rom_start + bytes_out, c) /\ bytes_out' = bytes_out + e /\ Place
        /\ pc = "code" /\ pc' \in {"code", "entry", "read"}
    BY <2>1 DEF Coded
  <2> HIDE DEF c
  <2>5. QED
    BY <1>14, <2>2, <2>3, <2>4
<1>17. CASE EndFile
  <2>1. CountersInv /\ IsSound(job) /\ CursorInv /\ FileInv
    BY DEF SoundInv, IInv
  <2>2. /\ pc = "entry" /\ pc' = "file" /\ image' = image
        /\ rom_size' = IF End > rom_size THEN End ELSE rom_size
    BY <1>17, <2>1, EndIs
  <2>3. /\ End \in Nat
        /\ rom_start + StoredSize(i) <= Len(image)
        /\ rom_start + StoredSize(i) <= End
        /\ End < rom_start + StoredSize(i) + ALIGN
    BY <2>1, <2>2, EndSays
  <2>4. bytes_out = StoredSize(i)
    BY <2>1, <2>2 DEF FileInv
  <2>5. Written = rom_size /\ Written' = rom_size' /\ pc \notin {"open", "done"}
    BY <2>2 DEF Written
  <2>6. rom_start \in Nat /\ StoredSize(i) \in Nat
    BY <2>1, <2>2, AtFile DEF InFile
  <2>7. m <= rom_size' /\ rom_size' < m + ALIGN
    BY <1>1, <1>3, <1>5, <2>2, <2>3, <2>4, <2>5, <2>6
  <2>8. QED
    BY <1>6, <2>2, <2>5, <2>7
<1>18. CASE FilesDone
  <2>1. /\ pc = "file" /\ pc' \in {"pad", "table"} /\ bytes_out' = 0 /\ rom_size' = rom_size
        /\ image' = image
    BY <1>18 DEF FilesDone, placement
  <2>2. Written' = Written
    BY <1>1, <2>1 DEF Written
  <2>3. QED
    BY <1>2, <1>10, <2>1, <2>2 DEF InFile
<1>19. CASE \E n \in 1..CHUNK_SIZE : PaddedOut(n)
  <2>1. PICK n \in 1..CHUNK_SIZE : PaddedOut(n)
    BY <1>19
  <2>2. PICK c : Len(c) = n /\ Wrote(rom_size + bytes_out, c)
    BY <2>1 DEF PaddedOut
  <2>3. n \in Nat \ {0}
    BY SizesAssumption
  <2>4. /\ l <= m /\ m \in Nat /\ (m = l \/ m = rom_size + bytes_out + n)
        /\ rom_size + bytes_out + n <= m
    BY <1>1, <2>2, <2>3, WroteGrows
  <2>5. pc = "pad" /\ pc' = "pad" /\ bytes_out' = bytes_out + n /\ rom_size' = rom_size
    BY <2>1 DEF PaddedOut, Place
  <2>6. Written = rom_size + bytes_out /\ Written' = rom_size + (bytes_out + n) /\ ~InFile
    BY <2>5 DEF Written, InFile
  <2>7. m <= Written' /\ Written' < m + ALIGN
    BY <1>1, <1>3, <1>5, <2>3, <2>4, <2>5, <2>6
  <2>8. QED
    BY <1>6, <2>5, <2>7
<1>20. CASE PadDone
  <2>1. /\ pc = "pad" /\ pc' = "table" /\ rom_size' = rom_size + bytes_out /\ image' = image
    BY <1>20 DEF PadDone
  <2>2. QED
    BY <1>2, <1>10, <2>1 DEF Written, InFile
<1>21. ASSUME NEW a, NEW c, Wrote(a, c), rom_size' = rom_size, pc \in {"table", "check"},
              pc' \in {"table", "check", "close"}
       PROVE  LengthInv'
  <2>1. m = l
    BY <1>21, LastWrites
  <2>2. Written = rom_size /\ Written' = rom_size /\ ~InFile
    BY <1>21 DEF Written, InFile
  <2>3. QED
    BY <1>5, <1>6, <1>21, <2>1, <2>2
<1>22. CASE (\E n : Tabled(n)) \/ Checked
  <2>1. ASSUME NEW n, Tabled(n)
        PROVE  LengthInv'
    <3>1. pc = "table" /\ pc' \in {"table", "check"} /\ rom_size' = rom_size
          /\ \E a, c : Wrote(a, c)
        BY <2>1 DEF Tabled, Place
    <3>2. QED
        BY <1>21, <3>1
  <2>2. ASSUME Checked
        PROVE  LengthInv'
    BY <1>21, <2>2 DEF Checked, Place
  <2>3. QED
    BY <1>22, <2>1, <2>2
<1>23. CASE Closed
  <2>1. /\ pc = "close" /\ pc' = "done" /\ image' = image /\ result' = rom_size
    BY <1>23 DEF Closed
  <2>2. l <= rom_size /\ rom_size < l + ALIGN
    BY <1>5, <2>1 DEF Written, InFile
  <2>3. m <= result' /\ result' - m < ALIGN
    BY <1>1, <1>3, <2>1, <2>2
  <2>4. QED
    BY <2>1, <2>3 DEF LengthInv
<1>24. QED
    BY <1>7, <1>8, <1>11, <1>12, <1>13, <1>15, <1>16, <1>17, <1>18, <1>19, <1>20, <1>22, <1>23
       DEF Step

-----------------------------------------------------------------------------
(* The bound of zelda64_write_bound holds, and so a buffer of that size is *)
(* never overrun. *)

(* The jobs zelda64_write_bound speaks of. *)
IsBounded == job.pack = "SPARSE" => job.pad = "NONE"
IsFitted == IsBounded /\ job.target = "BUFFER" /\ job.room >= Bound.bound

LEMMA BoundSays ==
    ASSUME job \in Jobs, IsSound(job), IsBounded
    PROVE  /\ Bound.result = "OK" /\ Bound.bound \in Nat
           /\ \A k \in 0..count : Running[k].bound <= Bound.bound
           /\ job.pad # "NONE" =>
                 /\ \A n \in Word : n <= Running[count].bound =>
                       n <= Bound.bound /\ zelda64_ceil_pow2(n) <= Bound.bound
<1> DEFINE all == Running[count]
<1>1. count \in 0..count
    BY JobIs
<1>2. /\ all.result = "OK" /\ all.bound \in Word /\ all.bound \in Nat
      /\ \A k \in 0..count : Running[k].bound \in Nat /\ Running[k].bound <= all.bound
    BY <1>1, RunningSays, WordsAreNat
<1>3. Bound = IF job.pack = "DENSE" /\ job.pad # "NONE" /\ all.result = "OK"
              THEN Bounded("OK", zelda64_ceil_pow2(all.bound)) ELSE all
    BY RunningIs
<1>4. job.pack \in {"SPARSE", "DENSE"} /\ (job.pad # "NONE" => job.pack = "DENSE")
    BY JobIs DEF IsBounded
<1>5. zelda64_write_bound(rom, job.layout, job.pack, "NONE") = all
    BY RunningIs
<1> HIDE DEF all
<1>6. CASE job.pad = "NONE"
  <2>1. Bound = all
    BY <1>3, <1>6
  <2>2. QED
    BY <1>2, <1>6, <2>1
<1>7. CASE job.pad # "NONE"
  <2>1. Bound = Bounded("OK", zelda64_ceil_pow2(all.bound))
    BY <1>2, <1>3, <1>4, <1>7
  <2>2. Bound.result = "OK" /\ Bound.bound = zelda64_ceil_pow2(all.bound)
    BY <2>1 DEF Bounded
  <2>3. \E p \in Word : all.bound <= p /\ IsPow2(p)
    BY <1>5, <1>7 DEF IsSound, SizesAreSound, rom
  <2>4. /\ Bound.bound \in Nat /\ all.bound <= Bound.bound
    BY <1>2, <2>2, <2>3, CeilGrows, CeilRoundsUp, WordsAreNat
  <2>5. ASSUME NEW n \in Word, n <= all.bound
        PROVE  n <= Bound.bound /\ zelda64_ceil_pow2(n) <= Bound.bound
    <3>1. zelda64_ceil_pow2(n) <= Bound.bound
        BY <1>2, <2>2, <2>3, <2>5, CeilGrows
    <3>2. n \in Nat
        BY WordsAreNat
    <3>3. QED
        BY <1>2, <2>4, <2>5, <3>1, <3>2
  <2>6. \A k \in 0..count : Running[k].bound <= Bound.bound
    BY <1>2, <2>4
  <2>7. QED
    BY <2>2, <2>4, <2>5, <2>6 DEF all
<1>8. QED
    BY <1>6, <1>7

LimitInv ==
    /\ pc = "pad" => job.pad # "NONE"
    /\ IsBounded => /\ pc \in {"table", "check", "close"} => rom_size <= Bound.bound
                    /\ result <= Bound.bound
    /\ IsFitted => /\ pc \notin {"open", "done"} => Len(image) = job.room
                   /\ error # "OUT_OF_RANGE"

LEMMA LimitInit ==
    ASSUME Init, IsSound(job)
    PROVE  LimitInv
<1>1. job \in Jobs /\ pc = "open" /\ result = 0 /\ error = "OK"
    BY DEF Init
<1>2. IsBounded => Bound.bound \in Nat
    BY <1>1, BoundSays
<1>3. QED
    BY <1>1, <1>2 DEF LimitInv

(* Every write has its place within the bound, or within the image. *)
LEMMA InPlaceFits ==
    ASSUME SoundInv, LimitInv, IsBounded, NEW a \in Nat, NEW n \in Nat, InPlace(a, n)
    PROVE  a + n <= Bound.bound \/ a + n <= Len(image)
<1>1. /\ job \in Jobs /\ i \in 0..count /\ bytes_out \in Nat /\ rom_size \in Word
      /\ count \in Nat /\ (pc = "pad" => i = count)
    BY JobIs, WordsAreNat DEF SoundInv, IInv, CountersInv
<1>2. /\ Bound.bound \in Nat
      /\ \A k \in 0..count : Running[k].bound <= Bound.bound
      /\ job.pad # "NONE" => \A m \in Word : m <= Running[count].bound =>
                                 zelda64_ceil_pow2(m) <= Bound.bound
    BY <1>1, BoundSays DEF SoundInv
<1>3. CASE pc \in {"copy", "code"}
  <2>1. a = rom_start + bytes_out /\ bytes_out + n <= StoredSize(i)
    <3>1. CASE pc = "copy"
        BY <3>1, CopyIs DEF InPlace, SoundInv, IInv
    <3>2. CASE pc = "code"
        BY <3>2, StreamIs DEF InPlace, SoundInv, IInv
    <3>3. QED
        BY <1>3, <3>1, <3>2
  <2>2. /\ i \in Files(rom) /\ i < count /\ IsWritten(i) /\ StatOf(i).result = "OK"
        /\ rom_start \in Nat /\ StoredSize(i) \in Nat /\ Padded(i) \in Nat
        /\ rom_start + Padded(i) <= Running[i + 1].bound
    BY <1>3, AtFile DEF InFile, SoundInv, IInv
  <2>3. StoredSize(i) <= Padded(i)
    BY <1>1, <2>2, PaddedIs DEF SoundInv
  <2>4. i + 1 \in 0..count
    BY <1>1, <2>2
  <2>5. Running[i + 1].bound \in Nat /\ Running[i + 1].bound <= Bound.bound
    BY <1>1, <1>2, <2>4, RunningSays, WordsAreNat DEF SoundInv
  <2>6. QED
    BY <1>1, <1>2, <2>1, <2>2, <2>3, <2>5
<1>4. CASE pc = "pad"
  <2>1. a + n <= zelda64_ceil_pow2(rom_size)
    BY <1>4 DEF InPlace
  <2>2. job.pad # "NONE" /\ rom_size <= Running[count].bound
    BY <1>1, <1>4 DEF LimitInv, SoundInv, CursorInv
  <2>3. zelda64_ceil_pow2(rom_size) <= Bound.bound /\ zelda64_ceil_pow2(rom_size) \in Nat
    BY <1>1, <1>2, <2>2, CeilRoundsUp, WordsAreNat
  <2>4. QED
    BY <1>2, <2>1, <2>3
<1>5. CASE pc = "table"
  <2>1. /\ 2 \in 0..(i - 1) /\ IsWritten(2) /\ a + n <= dma[2].rom_start + StoredSize(2)
    BY <1>5, TablePlace
  <2>2. /\ dma[2].rom_start + StoredSize(2) <= Len(image) /\ Len(image) \in Nat
        /\ dma[2].rom_start \in Nat /\ StoredSize(2) \in Nat
    BY <2>1, FinishedIs, SeqParts DEF SoundInv, IInv, CodeInv
  <2>3. QED
    BY <2>1, <2>2
<1>6. CASE pc = "check" /\ CheckCodeResult = "OK" /\ a = CHECK_CODE /\ n = 1
  <2>1. /\ 0 \in 0..(i - 1) /\ IsWritten(0)
        /\ CHECK_CODE + 1 <= dma[0].rom_start + StoredSize(0)
    BY <1>6, CheckPlace
  <2>2. /\ dma[0].rom_start + StoredSize(0) <= Len(image) /\ Len(image) \in Nat
        /\ dma[0].rom_start \in Nat /\ StoredSize(0) \in Nat
    BY <2>1, FinishedIs, SeqParts DEF SoundInv, IInv, CodeInv
  <2>3. QED
    BY <1>6, <2>1, <2>2
<1>7. QED
    BY <1>3, <1>4, <1>5, <1>6 DEF InPlace

LEMMA NoOverrun ==
    ASSUME SoundInv, LimitInv, IsFitted
    PROVE  ~Overrun
<1> SUFFICES ASSUME Overrun
             PROVE  FALSE
    OBVIOUS
<1>1. PICK a \in Nat, n \in Nat : InPlace(a, n) /\ ~Fits(a, n)
    BY DEF Overrun
<1>2. pc \notin {"open", "done"}
    BY <1>1 DEF InPlace
<1>3. Len(image) = job.room /\ job.room >= Bound.bound /\ IsBounded
    BY <1>2 DEF LimitInv, IsFitted
<1>4. a + n <= Bound.bound \/ a + n <= Len(image)
    BY <1>1, <1>3, InPlaceFits
<1>5. job.room \in Nat /\ Bound.bound \in Nat
    BY <1>3, JobIs, BoundSays DEF SoundInv, IInv, CountersInv
<1>6. a + n <= Len(image)
    BY <1>3, <1>4, <1>5
<1>7. QED
    BY <1>1, <1>6 DEF Fits

LEMMA Edges ==
    ASSUME Step, pc \in {"open", "done"}
    PROVE  Opened \/ Failed \/ Overrun \/ UNCHANGED vars
<1>1. ~(ReadChunk \/ EndFile \/ FilesDone \/ PadDone \/ SkipFile \/ CopyDone)
    BY DEF ReadChunk, EndFile, FilesDone, PadDone, SkipFile, CopyDone
<1>2. /\ ~(Started \/ Begun \/ Checked \/ Closed)
      /\ \A n : ~(Copied(n) \/ PaddedOut(n) \/ Tabled(n))
      /\ \A k, e, end : ~Coded(k, e, end)
    BY DEF Started, Begun, Checked, Closed, Copied, PaddedOut, Tabled, Coded
<1>3. QED
    BY <1>1, <1>2, Zenon DEF Step

LEMMA RoomKept ==
    ASSUME SoundInv, LimitInv, IsFitted, Step, pc' \notin {"open", "done"}
    PROVE  Len(image') = job.room
<1>1. IsSeq(image) /\ job.target # "FILE"
    BY DEF SoundInv, IInv, CodeInv, IsFitted
<1>2. CASE Opened
    BY <1>1, <1>2 DEF Opened
<1>3. CASE pc \in {"open", "done"} /\ ~Opened
  <2>1. UNCHANGED vars
    BY <1>3, Edges, StepFailed
  <2>2. QED
    BY <1>3, <2>1 DEF vars
<1>4. CASE pc \notin {"open", "done"} /\ ~Opened
  <2>1. Len(image) = job.room
    BY <1>4 DEF LimitInv
  <2>2. ASSUME NEW a, NEW c, Wrote(a, c)
        PROVE  Len(image') = job.room
    <3>1. a + Len(c) <= Len(image)
        BY <1>1, <2>2 DEF Wrote, Fits
    <3>2. QED
        BY <1>1, <2>1, <2>2, <3>1, WroteGrows
  <2>3. QED
    BY <1>1, <1>4, <2>1, <2>2, Grows
<1>5. QED
    BY <1>2, <1>3, <1>4

(* What a step reports: only failing sets an error, only closing a size. *)
LEMMA Reports ==
    ASSUME SoundInv, Step
    PROVE  /\ error' = error \/ error' = "ERRNO" \/ Failed \/ Overrun
           /\ result' = result \/ (pc = "close" /\ result' = rom_size)
<1>1. CASE Failed \/ Overrun
    BY <1>1, StepFailed
<1>2. CASE Opened \/ Started \/ SkipFile \/ Begun \/ CopyDone \/ (ReadChunk /\ pc' = "code")
  <2>1. ReadChunk /\ pc' = "code" => error' = error /\ result' = result
    BY DEF ReadChunk, Abort, holding
  <2>2. QED
    BY <1>2, <2>1 DEF Opened, Started, SkipFile, Begun, CopyDone, Frame, holding
<1>3. CASE EndFile \/ FilesDone \/ PadDone \/ UNCHANGED vars
    BY <1>3 DEF EndFile, FilesDone, PadDone, holding, vars
<1>4. CASE Closed
    BY <1>4 DEF Closed
<1>5. CASE (\E n : Copied(n)) \/ (\E k, e, end : Coded(k, e, end)) \/ (\E n : PaddedOut(n))
           \/ (\E n : Tabled(n)) \/ Checked
    BY <1>5 DEF Copied, Coded, PaddedOut, Tabled, Checked, Frame
<1>6. QED
    BY <1>1, <1>2, <1>3, <1>4, <1>5 DEF Step

LEMMA SizeKept ==
    ASSUME SoundInv, LimitInv, IsBounded, Step, pc' \in {"table", "check", "close"}
    PROVE  rom_size' <= Bound.bound
<1>1. /\ job \in Jobs /\ i \in 0..count /\ rom_size \in Word /\ rom_size \in Nat
      /\ bytes_out \in Nat /\ count \in Nat /\ (pc = "pad" => i = count)
    BY JobIs, WordsAreNat DEF SoundInv, IInv, CountersInv
<1>2. /\ Bound.bound \in Nat
      /\ \A k \in 0..count : Running[k].bound <= Bound.bound
      /\ job.pad # "NONE" => \A m \in Word : m <= Running[count].bound =>
                                 m <= Bound.bound /\ zelda64_ceil_pow2(m) <= Bound.bound
    BY <1>1, BoundSays DEF SoundInv
<1>3. CASE FilesDone
  <2>1. pc = "file" /\ i = count /\ rom_size' = rom_size
    BY <1>1, <1>3 DEF FilesDone, placement
  <2>2. rom_size <= Running[count].bound
    BY <2>1 DEF SoundInv, CursorInv, Filing
  <2>3. count \in 0..count
    BY <1>1
  <2>4. Running[count].bound \in Nat
    BY <1>1, <2>3, RunningSays, WordsAreNat DEF SoundInv
  <2>5. QED
    BY <1>1, <1>2, <2>1, <2>2, <2>4
<1>4. CASE PadDone
  <2>1. pc = "pad" /\ rom_size' = rom_size + bytes_out
    BY <1>4 DEF PadDone
  <2>2. /\ job.pad # "NONE" /\ rom_size <= Running[count].bound
        /\ bytes_out = 0 \/ rom_size + bytes_out <= zelda64_ceil_pow2(rom_size)
    BY <1>1, <2>1 DEF LimitInv, SoundInv, CursorInv
  <2>3. rom_size <= Bound.bound /\ zelda64_ceil_pow2(rom_size) <= Bound.bound
        /\ zelda64_ceil_pow2(rom_size) \in Nat
    BY <1>1, <1>2, <2>2, CeilRoundsUp, WordsAreNat
  <2>4. QED
    BY <1>1, <1>2, <2>1, <2>2, <2>3
<1>5. CASE pc \in {"table", "check", "close"} /\ rom_size' = rom_size
    BY <1>5 DEF LimitInv
<1>6. CASE (\E n : Tabled(n)) \/ Checked \/ UNCHANGED vars
    BY <1>5, <1>6 DEF Tabled, Checked, Place, vars
<1>7. ~(Failed \/ Overrun \/ Closed)
    BY StepFailed DEF Closed
<1>8. ~(Opened \/ Started \/ CopyDone \/ (ReadChunk /\ pc' = "code"))
    BY DEF Opened, Started, CopyDone
<1>9. ~(SkipFile \/ EndFile)
    BY DEF SkipFile, EndFile
<1>10. ~Begun
    BY DEF Begun
<1>11. \A k, e, end, n : ~(Copied(n) \/ Coded(k, e, end) \/ PaddedOut(n))
    BY DEF Copied, Coded, PaddedOut
<1>12. QED
    BY <1>3, <1>4, <1>6, <1>7, <1>8, <1>9, <1>10, <1>11 DEF Step

LEMMA LimitKept ==
    ASSUME SoundInv, LimitInv, Step
    PROVE  LimitInv'
<1>1. job' = job
    BY StepKeepsJob
<1>2. /\ Bound' = Bound /\ IsBounded' = IsBounded /\ IsFitted' = IsFitted
    BY <1>1, SameJob DEF Bound, IsBounded, IsFitted
<1>3. pc' = "pad" => job.pad # "NONE"
  <2>1. CASE FilesDone
    BY <2>1 DEF FilesDone
  <2>2. CASE pc = "pad"
    BY <2>2 DEF LimitInv
  <2>3. ASSUME ~FilesDone, pc # "pad"
        PROVE  pc' # "pad"
    <3>1. CASE Failed \/ Overrun
        BY <3>1, StepFailed
    <3>2. CASE Begun
        BY <3>2 DEF Begun
    <3>3. CASE Opened \/ Started \/ SkipFile \/ CopyDone \/ (ReadChunk /\ pc' = "code")
               \/ EndFile \/ PadDone \/ Checked \/ Closed \/ UNCHANGED vars
        BY <2>3, <3>3 DEF Opened, Started, SkipFile, CopyDone, EndFile, PadDone, Checked,
                          Closed, vars
    <3>4. CASE (\E n : Copied(n)) \/ (\E k, e, end : Coded(k, e, end))
               \/ (\E n : PaddedOut(n)) \/ (\E n : Tabled(n))
        BY <2>3, <3>4 DEF Copied, Coded, PaddedOut, Tabled
    <3>5. QED
        BY <2>3, <3>1, <3>2, <3>3, <3>4 DEF Step
  <2>4. QED
    BY <2>1, <2>2, <2>3
<1>4. ASSUME IsBounded
      PROVE  /\ pc' \in {"table", "check", "close"} => rom_size' <= Bound.bound
             /\ result' <= Bound.bound
    BY <1>4, SizeKept, Reports DEF LimitInv
<1>5. ASSUME IsFitted
      PROVE  /\ pc' \notin {"open", "done"} => Len(image') = job.room
             /\ error' # "OUT_OF_RANGE"
    BY <1>5, RoomKept, Reports, NoOverrun, StepFailed DEF LimitInv
<1>6. QED
    BY <1>1, <1>2, <1>3, <1>4, <1>5 DEF LimitInv

(* All that is known of a sound job. *)
FileInvs == SoundInv /\ LengthInv /\ LimitInv

THEOREM SoundJobs == Spec /\ IsSound(job) => []FileInvs
<1>1. Init /\ IsSound(job) => FileInvs
  <2>1. Init => LengthInv
    BY DEF Init, LengthInv, Succeeded
  <2>2. QED
    BY <2>1, SoundInit, LimitInit DEF FileInvs
<1>2. FileInvs /\ [Next]_vars => FileInvs'
    BY SoundKept, LengthKept, LimitKept, Steps DEF FileInvs, SoundInv, IInv
<1>3. QED
    BY <1>1, <1>2, PTL DEF Spec

(* The size reported covers the image up to its last alignment unit. *)
THEOREM SizeCovers == Spec /\ IsSound(job) => []ReportedSizeCovers
<1>1. FileInvs => ReportedSizeCovers
    BY DEF FileInvs, LengthInv, ReportedSizeCovers
<1>2. QED
    BY <1>1, SoundJobs, PTL

(* A buffer of the size zelda64_write_bound returned is never overrun, and *)
(* the size reported stays within it. *)
THEOREM BufferSuffices == Spec /\ IsSound(job) => []BoundedBufferSuffices
<1>1. FileInvs => BoundedBufferSuffices
    BY DEF FileInvs, LimitInv, IsFitted, IsBounded, BoundedBufferSuffices
<1>2. QED
    BY <1>1, SoundJobs, PTL

-----------------------------------------------------------------------------
(* What the coder was given and what the image holds of the file at hand. *)

(* The coder has taken the storage up to the cells of the chunk it left. *)
FedInv ==
    pc \in {"read", "code"} =>
        /\ IsSeq(taken) /\ Len(taken) = bytes_in - avail_in
        /\ Fed(Stream, taken)
        /\ pc = "read" => avail_in = 0

PartInv == InFile => \A k \in 1..bytes_out : image[rom_start + k] = Stored(i)[k]

LEMMA TakenFed ==
    ASSUME IInv, FedInv, pc = "code", NEW c \in 0..avail_in,
           ~Malformed(Stream, taken, InputChunk, Finish, c),
           NEW all, all = taken \o Prefix(InputChunk, c)
    PROVE  IsSeq(all) /\ Len(all) = Len(taken) + c /\ Fed(Stream, all)
<1> DEFINE chunk == InputChunk
           p == Prefix(chunk, c)
           t == Len(taken)
           S == {taken[k] : k \in DOMAIN taken} \cup {chunk[k] : k \in DOMAIN chunk}
<1>1. /\ avail_in \in Nat /\ bytes_in \in Nat /\ avail_in <= bytes_in /\ bytes_in <= stat.size
      /\ c \in Nat /\ c <= avail_in /\ job \in Jobs /\ i \in 0..count /\ i < count
      /\ stat.result = "OK"
    BY WordsAreNat, SizesAssumption DEF IInv, CountersInv
<1>2. stat.offset \in Nat /\ stat.size \in Nat
    BY <1>1, FileIs, WordsAreNat
<1>3. /\ IsSeq(chunk) /\ Len(chunk) = avail_in
      /\ \A k \in 1..avail_in : chunk[k] =
             IF stat.offset + bytes_in - avail_in + k <= Len(rom.cells)
             THEN rom.cells[stat.offset + bytes_in - avail_in + k] ELSE Stale
    BY <1>1, ChunkIs DEF InputChunk
<1>4. taken \in Seq(S) /\ chunk \in Seq(S) /\ t \in Nat /\ t = bytes_in - avail_in
  <2>1. /\ taken \in Seq({taken[k] : k \in DOMAIN taken})
        /\ chunk \in Seq({chunk[k] : k \in DOMAIN chunk})
    BY <1>3 DEF FedInv, IsSeq
  <2>2. t = bytes_in - avail_in
    BY DEF FedInv
  <2> HIDE DEF chunk
  <2>3. QED
    BY <1>1, <2>1, <2>2
<1> HIDE DEF chunk, S
<1>5. p \in Seq(S) /\ Len(p) = c /\ \A k \in 1..c : p[k] = chunk[k]
  <2>1. p = SubSeq(chunk, 0 + 1, c)
    BY DEF Prefix
  <2>2. /\ p \in Seq(S) /\ Len(p) = IF 0 < c THEN c - 0 ELSE 0
        /\ \A k \in 1..Len(p) : p[k] = chunk[0 + k]
    BY <1>1, <1>3, <1>4, <2>1, SubSeqIs
  <2>3. QED
    BY <1>1, <2>2
<1> HIDE DEF p
<1>6. /\ all \in Seq(S) /\ Len(all) = t + c
      /\ \A k \in 1..(t + c) : all[k] = IF k <= t THEN taken[k] ELSE p[k - t]
  <2>1. all = taken \o p
    BY DEF p, chunk
  <2>2. /\ taken \o p \in Seq(S) /\ Len(taken \o p) = Len(taken) + Len(p)
        /\ \A k \in 1..(Len(taken) + Len(p)) :
              (taken \o p)[k] = IF k <= Len(taken) THEN taken[k] ELSE p[k - Len(taken)]
    BY <1>4, <1>5, ConcatIs
  <2>3. QED
    BY <1>5, <2>1, <2>2, Zenon DEF t
<1>7. IsSeq(all)
    BY <1>6, SeqIs
<1>8. Fed(Stream, all)
  <2>1. CASE ~Stream.compress
    BY <2>1 DEF Malformed
  <2>2. CASE Stream.compress
    <3>1. Stream.in = ChunkAt(rom, stat.offset, stat.size)
        BY <2>2 DEF Stream
    <3> DEFINE storage == ChunkAt(rom, stat.offset, stat.size)
    <3>2. /\ Len(storage) = stat.size
          /\ \A k \in 1..stat.size : storage[k] =
                 IF stat.offset + k <= Len(rom.cells)
                 THEN rom.cells[stat.offset + k] ELSE Stale
        BY <1>2, ChunkIs
    <3> HIDE DEF storage
    <3>3. /\ Len(Stream.in) = stat.size
          /\ \A k \in 1..stat.size : Stream.in[k] =
                 IF stat.offset + k <= Len(rom.cells)
                 THEN rom.cells[stat.offset + k] ELSE Stale
        BY <3>1, <3>2, Zenon DEF storage
    <3>4. Fed(Stream, taken)
        BY DEF FedInv
    <3>5. ASSUME NEW k \in 1..Len(all), k <= Len(Stream.in)
          PROVE  all[k] = Stream.in[k]
      <4>1. CASE k <= t
        <5>1. k \in 1..t /\ k \in 1..(t + c)
            BY <1>1, <1>4, <1>6, <4>1
        <5>2. taken[k] = Stream.in[k]
            BY <3>4, <3>5, <5>1 DEF Fed, t
        <5>3. QED
            BY <1>6, <4>1, <5>1, <5>2
      <4>2. CASE k > t
        <5> DEFINE h == k - t
                   from == stat.offset + bytes_in - avail_in
        <5>1. h \in 1..c /\ h \in 1..avail_in /\ k \in 1..(t + c) /\ ~(k <= t)
            BY <1>1, <1>4, <1>6, <4>2
        <5>2. from + h = stat.offset + k
            BY <1>1, <1>2, <1>4
        <5>3. all[k] = chunk[h]
            BY <1>5, <1>6, <5>1
        <5>4. chunk[h] = IF from + h <= Len(rom.cells) THEN rom.cells[from + h] ELSE Stale
            BY <1>3, <5>1
        <5>5. k \in 1..stat.size
            BY <3>3, <3>5
        <5> HIDE DEF h, from
        <5>6. QED
            BY <3>3, <5>2, <5>3, <5>4, <5>5
      <4>3. QED
        BY <1>4, <4>1, <4>2
    <3>6. QED
        BY <3>5 DEF Fed
  <2>3. QED
    BY <2>1, <2>2
<1>9. QED
    BY <1>6, <1>7, <1>8 DEF t

(* The coder keeps reading only when it has taken the whole chunk. *)
LEMMA ChunkIsTaken ==
    ASSUME IInv, NEW c \in 0..avail_in, NEW e \in 0..CHUNK_SIZE, NEW end \in BOOLEAN,
           Coded(c, e, end), pc' = "read"
    PROVE  c = avail_in
<1>1. avail_in \in Nat /\ CHUNK_SIZE \in Nat
    BY SizesAssumption, WordsAreNat DEF IInv, CountersInv
<1>2. Len(InputChunk) = avail_in
    BY <1>1, ChunkIs DEF InputChunk
<1>3. /\ ~CallAgain(c, e) /\ ~end
      /\ MayCode(Stream, taken, bytes_out, InputChunk, CHUNK_SIZE, Finish, c, e, end)
    BY DEF Coded
<1>4. e # CHUNK_SIZE \/ c = avail_in
    BY <1>3 DEF CallAgain
<1>5. e < CHUNK_SIZE \/ c = avail_in
    BY <1>1, <1>4
<1>6. QED
    BY <1>2, <1>3, <1>4, <1>5 DEF MayCode

LEMMA FedKept ==
    ASSUME IInv, FedInv, Step
    PROVE  FedInv'
<1>1. CASE pc' \notin {"read", "code"}
    BY <1>1 DEF FedInv
<1>2. CASE UNCHANGED vars
    BY <1>2, SameJob DEF FedInv, vars
<1>3. CASE Begun
  <2>1. bytes_in' = 0 /\ avail_in' = 0 /\ taken' = <<>>
    BY <1>3 DEF Begun
  <2>2. IsSeq(taken') /\ Len(taken') = 0
    BY <2>1, ShortSeqs
  <2>3. Fed(Stream', taken')
    BY <2>2 DEF Fed
  <2>4. QED
    BY <2>1, <2>2, <2>3 DEF FedInv
<1>4. CASE ReadChunk /\ pc' = "code"
  <2> DEFINE left == stat.size - bytes_in
             want == IF left < CHUNK_SIZE THEN left ELSE CHUNK_SIZE
  <2>1. /\ pc = "read" /\ job' = job /\ i' = i /\ taken' = taken
        /\ avail_in' = want /\ bytes_in' = bytes_in + want
    BY <1>4 DEF ReadChunk, Abort, placement
  <2>2. Stream' = Stream
    BY <2>1, SameJob
  <2>3. bytes_in \in Nat /\ stat.size \in Nat /\ CHUNK_SIZE \in Nat
    BY <2>1, FileIs, SizesAssumption, WordsAreNat DEF IInv, CountersInv
  <2>4. want \in Int
    BY <2>3
  <2>5. IsSeq(taken) /\ Len(taken) = bytes_in - avail_in /\ avail_in = 0 /\ Fed(Stream, taken)
    BY <2>1 DEF FedInv
  <2> HIDE DEF want
  <2>6. Len(taken') = bytes_in' - avail_in'
    BY <2>1, <2>3, <2>4, <2>5
  <2>7. QED
    BY <1>4, <2>1, <2>2, <2>5, <2>6 DEF FedInv
<1>5. ASSUME NEW c \in 0..avail_in, NEW e \in 0..CHUNK_SIZE, NEW end \in BOOLEAN,
             Coded(c, e, end)
      PROVE  FedInv'
  <2>1. /\ pc = "code" /\ job' = job /\ i' = i /\ bytes_in' = bytes_in
        /\ avail_in' = avail_in - c /\ taken' = taken \o Prefix(InputChunk, c)
        /\ ~Malformed(Stream, taken, InputChunk, Finish, c)
    BY <1>5 DEF Coded, Frame, Place
  <2>2. IsSeq(taken') /\ Len(taken') = Len(taken) + c /\ Fed(Stream, taken')
    BY <2>1, TakenFed
  <2>3. Stream' = Stream
    BY <2>1, SameJob
  <2>4. bytes_in \in Nat /\ avail_in \in Nat /\ c \in Nat /\ Len(taken) = bytes_in - avail_in
    BY <2>1, WordsAreNat DEF FedInv, IInv, CountersInv
  <2>5. Len(taken') = bytes_in' - avail_in'
    BY <2>1, <2>2, <2>4
  <2>6. pc' = "read" => avail_in' = 0
    BY <1>5, <2>1, <2>4, ChunkIsTaken
  <2>7. QED
    BY <2>2, <2>3, <2>5, <2>6 DEF FedInv
<1>6. ASSUME Failed \/ Overrun \/ Opened \/ Started \/ SkipFile \/ CopyDone \/ EndFile
             \/ FilesDone \/ (\E n : Copied(n)) \/ (\E n : PaddedOut(n)) \/ PadDone
             \/ (\E n : Tabled(n)) \/ Checked \/ Closed
      PROVE  pc' \notin {"read", "code"}
  <2>1. CASE Failed \/ Overrun
    BY <2>1 DEF Failed, Overrun, Abort
  <2>2. CASE Opened \/ Started \/ SkipFile \/ CopyDone \/ EndFile \/ FilesDone
    BY <2>2, SkipIs DEF Opened, Started, CopyDone, EndFile, FilesDone, IInv
  <2>3. CASE (\E n : Copied(n)) \/ (\E n : PaddedOut(n)) \/ PadDone
             \/ (\E n : Tabled(n)) \/ Checked \/ Closed
    BY <2>3 DEF Copied, PaddedOut, PadDone, Tabled, Checked, Closed
  <2>4. QED
    BY <1>6, <2>1, <2>2, <2>3
<1>7. QED
    BY <1>1, <1>2, <1>3, <1>4, <1>5, <1>6 DEF Step

(* A write behind what there is of a file adds to it. *)
LEMMA Appended ==
    ASSUME IsSeq(image), NEW s, NEW c, NEW at \in Nat, NEW n \in Nat,
           n > 0 => at + n <= Len(image),
           \A k \in 1..n : image[at + k] = s[k],
           Wrote(at + n, c), \A k \in 1..Len(c) : c[k] = s[n + k]
    PROVE  \A k \in 1..(n + Len(c)) : image'[at + k] = s[k]
<1> SUFFICES ASSUME NEW k \in 1..(n + Len(c))
             PROVE  image'[at + k] = s[k]
    OBVIOUS
<1> DEFINE m == Len(c)
           l == Len(image)
<1>1. m \in Nat /\ l \in Nat
    BY SeqParts DEF Wrote
<1>2. /\ \A h \in 1..m : image'[at + n + h] = c[h]
      /\ \A h \in 1..l : h <= at + n \/ h > at + n + m => image'[h] = image[h]
    BY DEF Wrote
<1>3. k \in 1..(n + m)
    OBVIOUS
<1>4. \A h \in 1..m : c[h] = s[n + h]
    OBVIOUS
<1> HIDE DEF m, l
<1>5. CASE k <= n
  <2>1. k \in 1..n /\ at + k \in 1..l /\ at + k <= at + n
    BY <1>1, <1>3, <1>5 DEF l
  <2>2. QED
    BY <1>2, <2>1
<1>6. CASE k > n
  <2>1. k - n \in 1..m /\ at + n + (k - n) = at + k /\ n + (k - n) = k
    BY <1>1, <1>3, <1>6
  <2>2. image'[at + n + (k - n)] = c[k - n] /\ c[k - n] = s[n + (k - n)]
    BY <1>2, <1>4, <2>1
  <2>3. QED
    BY <2>1, <2>2
<1>7. QED
    BY <1>3, <1>5, <1>6

LEMMA PartKept ==
    ASSUME SoundInv, FedInv, PartInv, Step
    PROVE  PartInv'
<1>1. CASE ~InFile'
    BY <1>1 DEF PartInv, InFile
<1>2. ASSUME job' = job, i' = i, position' = position
      PROVE  rom_start' = rom_start /\ Stored(i)' = Stored(i)
    BY <1>2, SameFiles, SameJob DEF Stored
<1>3. CASE /\ job' = job /\ i' = i /\ position' = position /\ image' = image
           /\ bytes_out' = bytes_out /\ InFile
    BY <1>2, <1>3 DEF PartInv
<1>4. CASE UNCHANGED vars
  <2>1. InFile' = InFile
    BY <1>4 DEF vars, InFile
  <2>2. QED
    BY <1>1, <1>3, <1>4, <2>1 DEF vars
<1>5. CASE CopyDone \/ (ReadChunk /\ pc' = "code")
    BY <1>3, <1>5 DEF CopyDone, ReadChunk, Abort, placement, InFile
<1>6. CASE Begun
  <2>1. bytes_out' = 0
    BY <1>6 DEF Begun
  <2>2. QED
    BY <2>1 DEF PartInv
<1>7. ASSUME pc \in {"copy", "code"}, NEW c, Wrote(rom_start + bytes_out, c),
             \A k \in 1..Len(c) : c[k] = Stored(i)[bytes_out + k],
             job' = job, i' = i, position' = position, bytes_out' = bytes_out + Len(c)
      PROVE  PartInv'
  <2>1. InFile
    BY <1>7 DEF InFile
  <2>2. /\ IsSeq(image) /\ rom_start \in Nat /\ bytes_out \in Nat
        /\ bytes_out > 0 => rom_start + bytes_out <= Len(image)
    BY <2>1, AtFile, WordsAreNat DEF SoundInv, IInv, CodeInv, CountersInv, FileInv
  <2>3. \A k \in 1..bytes_out : image[rom_start + k] = Stored(i)[k]
    BY <2>1 DEF PartInv
  <2>4. \A k \in 1..(bytes_out + Len(c)) : image'[rom_start + k] = Stored(i)[k]
    BY <1>7, <2>2, <2>3, Appended
  <2>5. QED
    BY <1>2, <1>7, <2>4 DEF PartInv
<1>8. ASSUME NEW n \in 1..CHUNK_SIZE, Copied(n)
      PROVE  PartInv'
  <2> DEFINE c == ChunkAt(rom, stat.offset + bytes_out, n)
  <2>1. /\ job' = job /\ i' = i /\ position' = position /\ bytes_out' = bytes_out + n
        /\ pc = "copy" /\ Wrote(rom_start + bytes_out, c)
    BY <1>8 DEF Copied, Frame, Place
  <2>2. n \in Nat /\ bytes_out \in Nat
    BY SizesAssumption, WordsAreNat DEF SoundInv, IInv, CountersInv
  <2>3. /\ Len(c) = n
        /\ \A k \in 1..n : c[k] =
              IF stat.offset + bytes_out + k <= Len(rom.cells)
              THEN rom.cells[stat.offset + bytes_out + k] ELSE Stale
    BY <2>2, ChunkIs
  <2>4. /\ Stored(i) = ChunkAt(rom, stat.offset, stat.size)
        /\ stat.size \in Nat /\ stat.offset \in Nat
    BY <2>1, CopyIs DEF SoundInv, IInv
  <2>5. \A k \in 1..stat.size : Stored(i)[k] =
            IF stat.offset + k <= Len(rom.cells) THEN rom.cells[stat.offset + k] ELSE Stale
    BY <2>4, ChunkIs
  <2> HIDE DEF c
  <2>6. bytes_out + n <= stat.size
    BY <2>1, <2>3 DEF Wrote, InPlace
  <2>7. ASSUME NEW k \in 1..Len(c)
        PROVE  c[k] = Stored(i)[bytes_out + k]
    <3>1. k \in 1..n
        BY <2>3
    <3>2. bytes_out + k \in 1..stat.size
          /\ stat.offset + (bytes_out + k) = stat.offset + bytes_out + k
        BY <2>2, <2>4, <2>6, <3>1
    <3> DEFINE m == bytes_out + k
               o == stat.offset + bytes_out + k
    <3>3. /\ m \in 1..stat.size /\ stat.offset + m = o
          /\ c[k] = IF o <= Len(rom.cells) THEN rom.cells[o] ELSE Stale
        BY <2>3, <3>1, <3>2
    <3> HIDE DEF m, o
    <3>4. c[k] = Stored(i)[m]
        BY <2>5, <3>3
    <3>5. QED
        BY <3>4 DEF m
  <2>8. QED
    BY <1>7, <2>1, <2>3, <2>7
<1>9. ASSUME NEW h \in 0..avail_in, NEW e \in 0..CHUNK_SIZE, NEW end \in BOOLEAN,
             Coded(h, e, end)
      PROVE  PartInv'
  <2> DEFINE all == taken \o Prefix(InputChunk, h)
             c == Produced(Stream, all, bytes_out, e)
  <2>1. /\ job' = job /\ i' = i /\ position' = position /\ bytes_out' = bytes_out + e
        /\ pc = "code" /\ Wrote(rom_start + bytes_out, c)
        /\ ~Malformed(Stream, taken, InputChunk, Finish, h)
    BY <1>9 DEF Coded, Frame, Place
  <2>2. Fed(Stream, all)
    BY <2>1, TakenFed DEF SoundInv
  <2>3. e \in Nat
    BY SizesAssumption
  <2>4. Stream.out = Stored(i)
    BY <2>1, StreamIs DEF SoundInv, IInv
  <2> HIDE DEF all
  <2>5. Len(c) = e
    BY <2>3, FunctionIsIsSeq DEF Produced
  <2>6. \A k \in 1..e : c[k] = Stored(i)[bytes_out + k]
    BY <2>2, <2>4 DEF Produced
  <2> HIDE DEF c
  <2>7. QED
    BY <1>7, <2>1, <2>5, <2>6
<1>10. ASSUME Failed \/ Overrun \/ Opened \/ Started \/ SkipFile \/ EndFile \/ FilesDone
              \/ (\E n : PaddedOut(n)) \/ PadDone \/ (\E n : Tabled(n)) \/ Checked \/ Closed
       PROVE  ~InFile'
  <2>1. CASE Failed \/ Overrun
    BY <2>1 DEF Failed, Overrun, Abort, InFile
  <2>2. CASE Opened \/ Started \/ SkipFile \/ EndFile \/ FilesDone
    BY <2>2, SkipIs, EndIs DEF Opened, Started, FilesDone, InFile, SoundInv, IInv
  <2>3. CASE (\E n : PaddedOut(n)) \/ PadDone \/ (\E n : Tabled(n)) \/ Checked \/ Closed
    BY <2>3 DEF PaddedOut, PadDone, Tabled, Checked, Closed, InFile
  <2>4. QED
    BY <1>10, <2>1, <2>2, <2>3
<1>11. QED
    BY <1>1, <1>4, <1>5, <1>6, <1>8, <1>9, <1>10 DEF Step

-----------------------------------------------------------------------------
(* Every file that is done lies where its entry says, and stays. *)

Lies(f) == \A k \in 1..StoredSize(f) : image[dma[f].rom_start + k] = Stored(f)[k]
LiesInv == Room => \A f \in (0..(i - 1)) \ {0, 2} : IsWritten(f) => Lies(f)

LEMMA StepKeepsTable ==
    ASSUME Step, ~SkipFile, ~EndFile
    PROVE  i' = i /\ dma' = dma
<1>1. CASE Failed \/ Overrun \/ Opened \/ Started \/ Begun \/ CopyDone
    BY <1>1 DEF Failed, Overrun, Abort, Opened, Started, Begun, CopyDone, Frame, Place, placement
<1>2. CASE (ReadChunk /\ pc' = "code") \/ FilesDone \/ PadDone \/ Closed \/ UNCHANGED vars
    BY <1>2 DEF ReadChunk, Abort, FilesDone, PadDone, Closed, Place, placement, vars
<1>3. CASE (\E n : Copied(n)) \/ (\E k, e, end : Coded(k, e, end)) \/ (\E n : PaddedOut(n))
           \/ (\E n : Tabled(n)) \/ Checked
    BY <1>3 DEF Copied, Coded, PaddedOut, Tabled, Checked, Place
<1>4. QED
    BY <1>1, <1>2, <1>3 DEF Step

LEMMA LiesKept ==
    ASSUME SoundInv, PartInv, LiesInv, Step
    PROVE  LiesInv'
<1>1. job' = job /\ rom' = rom
    BY StepKeepsJob, SameJob
<1>2. Room' = Room
  <2>1. RoomInPlace' = RoomInPlace
    BY <1>1, SameFiles DEF RoomInPlace
  <2>2. QED
    BY <1>1, <2>1 DEF Room
<1>3. /\ i \in Nat /\ \A f : /\ IsWritten(f)' = IsWritten(f)
                             /\ StoredSize(f)' = StoredSize(f) /\ Stored(f)' = Stored(f)
  <2>1. i \in Nat
    BY JobIs DEF SoundInv, IInv, CountersInv
  <2>2. QED
    BY <1>1, <2>1, SameFiles
<1>4. ASSUME Room, NEW f \in (0..(i - 1)) \ {0, 2}, IsWritten(f), dma'[f] = dma[f]
      PROVE  Lies(f)'
  <2>1. \A k \in 1..StoredSize(f) : image[dma[f].rom_start + k] = Stored(f)[k]
    BY <1>4 DEF LiesInv, Lies
  <2>2. \A k \in 1..StoredSize(f) : image'[dma[f].rom_start + k] = image[dma[f].rom_start + k]
    BY <1>4, FileStays
  <2>3. QED
    BY <1>3, <1>4, <2>1, <2>2 DEF Lies
<1>5. CASE ~SkipFile /\ ~EndFile
  <2>1. i' = i /\ dma' = dma
    BY <1>5, StepKeepsTable
  <2>2. QED
    BY <1>2, <1>3, <1>4, <2>1 DEF LiesInv
<1>6. CASE SkipFile
  <2>1. /\ ~IsWritten(i) /\ \A k \in 0..(i - 1) : dma'[k] = dma[k]
        /\ \A k \in 0..(i' - 1) : k \in 0..(i - 1) \/ k = i
    BY <1>6, SkipIs DEF SoundInv, IInv
  <2>2. QED
    BY <1>2, <1>3, <1>4, <2>1 DEF LiesInv
<1>7. CASE EndFile
  <2>1. /\ \A k \in 0..(i - 1) : dma'[k] = dma[k]
        /\ \A k \in 0..(i' - 1) : k \in 0..(i - 1) \/ k = i
        /\ dma'[i].rom_start = rom_start /\ image' = image /\ pc = "entry"
    BY <1>7, EndIs DEF SoundInv, IInv
  <2>2. PICK n \in Nat : n = i
    BY <1>3
  <2>3. Lies(n)'
    <3>1. bytes_out = StoredSize(i) /\ InFile
        BY <2>1 DEF SoundInv, FileInv, InFile
    <3>2. \A k \in 1..StoredSize(i) : image[rom_start + k] = Stored(i)[k]
        BY <3>1 DEF PartInv
    <3>3. QED
        BY <1>3, <2>1, <2>2, <3>2 DEF Lies
  <2>4. QED
    BY <1>2, <1>3, <1>4, <2>1, <2>2, <2>3 DEF LiesInv
<1>8. QED
    BY <1>5, <1>6, <1>7

-----------------------------------------------------------------------------
(* The new table. *)

Tabulated == IF pc = "table" THEN bytes_out ELSE count
TabulatedInv ==
    pc \in {"table", "check", "close"} \/ Succeeded =>
        /\ i = count
        /\ \A k \in 0..(Tabulated - 1), half \in 0..1 :
              image[dma[2].vrom_start + k * ENTRY_CELLS + half + 1] = TableCell(k, half)

LEMMA TableCellsAre ==
    ASSUME NEW n \in Nat, bytes_out \in Nat
    PROVE  /\ Len(TableCells(n)) = n * ENTRY_CELLS
           /\ \A k \in bytes_out..(bytes_out + n - 1), half \in 0..1 :
                 /\ (k - bytes_out) * ENTRY_CELLS + half + 1 \in 1..(n * ENTRY_CELLS)
                 /\ TableCells(n)[(k - bytes_out) * ENTRY_CELLS + half + 1] = TableCell(k, half)
<1>1. n * ENTRY_CELLS \in Nat
    BY DEF ENTRY_CELLS
<1>2. Len(TableCells(n)) = n * ENTRY_CELLS
    BY <1>1, FunctionIsIsSeq DEF TableCells
<1>3. ASSUME NEW k \in bytes_out..(bytes_out + n - 1), NEW half \in 0..1
      PROVE  /\ (k - bytes_out) * ENTRY_CELLS + half + 1 \in 1..(n * ENTRY_CELLS)
             /\ TableCells(n)[(k - bytes_out) * ENTRY_CELLS + half + 1] = TableCell(k, half)
  <2> DEFINE m == (k - bytes_out) * ENTRY_CELLS + half + 1
  <2>1. m \in 1..(n * ENTRY_CELLS)
    BY DEF ENTRY_CELLS
  <2>2. (m - 1) \div ENTRY_CELLS = k - bytes_out /\ (m - 1) % ENTRY_CELLS = half
    BY DEF ENTRY_CELLS
  <2>3. bytes_out + (k - bytes_out) = k
    OBVIOUS
  <2> HIDE DEF m
  <2>4. TableCells(n)[m] = TableCell(bytes_out + (m - 1) \div ENTRY_CELLS, (m - 1) % ENTRY_CELLS)
    BY <2>1 DEF TableCells
  <2>5. QED
    BY <2>1, <2>2, <2>3, <2>4 DEF m
<1>4. QED
    BY <1>2, <1>3

LEMMA CellIndex ==
    ASSUME NEW at \in Nat, NEW all \in Nat, NEW n \in Nat, NEW m \in Nat, n <= m,
           at + m * ENTRY_CELLS <= all, NEW k \in 0..(n - 1), NEW half \in 0..1
    PROVE  /\ at + k * ENTRY_CELLS + half + 1 \in 1..all
           /\ at + k * ENTRY_CELLS + half + 1 <= at + n * ENTRY_CELLS
           /\ at < at + k * ENTRY_CELLS + half + 1
BY DEF ENTRY_CELLS

LEMMA CellOffset ==
    ASSUME NEW at \in Nat, NEW b \in Nat, NEW k \in Nat, b <= k, NEW half \in Nat
    PROVE  at + b * ENTRY_CELLS + ((k - b) * ENTRY_CELLS + half + 1)
               = at + k * ENTRY_CELLS + half + 1
BY DEF ENTRY_CELLS

(* The last steps find all files done. *)
LEMMA AllDone ==
    ASSUME SoundInv, TabulatedInv, pc \in {"table", "check", "close"} \/ Succeeded
    PROVE  /\ i = count /\ job \in Jobs /\ count \in Nat
           /\ \A f \in 0..2 : /\ f \in 0..(i - 1) /\ IsWritten(f) /\ Placed(f)
                              /\ dma[f].rom_start = dma[f].vrom_start
                              /\ dma[f].rom_start = job.layout[f].vrom_start
                              /\ dma[f].vrom_end = job.layout[f].vrom_end
                              /\ dma[f].vrom_start \in Nat /\ dma[f].vrom_end \in Nat
                              /\ dma[f].vrom_start < dma[f].vrom_end
                              /\ dma[f].rom_end = 0
                              /\ dma[f].rom_start + StoredSize(f) <= Len(image)
                              /\ StoredSize(f) = dma[f].vrom_end - dma[f].vrom_start
           /\ \A f \in 0..1 : dma[f].vrom_end = dma[f + 1].vrom_start
           /\ dma[2].vrom_end - dma[2].vrom_start = count * ENTRY_CELLS
<1>1. job \in Jobs /\ i = count
    BY DEF TabulatedInv, SoundInv, IInv, CountersInv
<1>2. count \in Nat /\ count > 2
    BY <1>1, JobIs
<1>3. ASSUME NEW f \in 0..2
      PROVE  /\ f \in 0..(i - 1) /\ IsWritten(f) /\ Placed(f)
             /\ dma[f].rom_start = dma[f].vrom_start
             /\ dma[f].rom_start = job.layout[f].vrom_start
             /\ dma[f].vrom_end = job.layout[f].vrom_end
             /\ dma[f].vrom_start \in Nat /\ dma[f].vrom_end \in Nat
             /\ dma[f].vrom_start < dma[f].vrom_end
             /\ dma[f].rom_end = 0
             /\ dma[f].rom_start + StoredSize(f) <= Len(image)
             /\ StoredSize(f) = dma[f].vrom_end - dma[f].vrom_start
  <2>1. f \in 0..(i - 1)
    BY <1>1, <1>2
  <2>2. /\ IsWritten(f) /\ job.layout[f].operation = "COPY"
        /\ job.layout[f].vrom_start \in Nat /\ job.layout[f].vrom_end \in Nat
        /\ job.layout[f].vrom_start < job.layout[f].vrom_end
        /\ StatOf(f).result = "OK" =>
              StoredSize(f) = job.layout[f].vrom_end - job.layout[f].vrom_start
    BY <1>1, HeadIs DEF SoundInv
  <2>3. Placed(f)
    BY <2>1, <2>2, FinishedIs
  <2>4. QED
    BY <2>1, <2>2, <2>3 DEF Placed
<1>4. /\ \A f \in 0..1 : job.layout[f].vrom_end = job.layout[f + 1].vrom_start
      /\ job.layout[2].vrom_end - job.layout[2].vrom_start = count * ENTRY_CELLS
    BY <1>1, HeadIs DEF SoundInv
<1>5. \A f \in 0..1 : f \in 0..2 /\ f + 1 \in 0..2
    OBVIOUS
<1>6. QED
    BY <1>1, <1>2, <1>3, <1>4, <1>5

LEMMA TabulatedKept ==
    ASSUME SoundInv, TabulatedInv, Step
    PROVE  TabulatedInv'
<1> DEFINE Told(m, img) ==
        \A k \in 0..(m - 1), half \in 0..1 :
            img[dma[2].vrom_start + k * ENTRY_CELLS + half + 1] = TableCell(k, half)
<1>1. job' = job /\ count' = count
    BY StepKeepsJob, SameJob
<1>2. IsSeq(image) /\ bytes_out \in Nat /\ job \in Jobs /\ count \in Nat
    BY JobIs, WordsAreNat DEF SoundInv, IInv, CodeInv, CountersInv
<1>3. CASE pc' \notin {"table", "check", "close"} /\ ~Succeeded'
    BY <1>3 DEF TabulatedInv
<1>4. CASE UNCHANGED vars
    BY <1>1, <1>4 DEF TabulatedInv, Tabulated, Succeeded, vars
<1>5. CASE FilesDone \/ PadDone
  <2>1. /\ i' = i /\ bytes_out' = 0 /\ pc' \in {"table", "pad"}
        /\ i = count
    BY <1>2, <1>5 DEF FilesDone, PadDone, placement, SoundInv, IInv, CountersInv
  <2>2. pc' = "table" => Tabulated' = 0
    BY <2>1 DEF Tabulated
  <2>3. QED
    BY <1>1, <2>1, <2>2 DEF TabulatedInv, Succeeded
<1>6. CASE Closed
  <2>1. pc = "close" /\ pc' = "done" /\ i' = i /\ dma' = dma /\ image' = image
    BY <1>6 DEF Closed, Place
  <2>2. i = count /\ Tabulated = count /\ Tabulated' = count
    BY <1>1, <2>1 DEF TabulatedInv, Tabulated
  <2>3. QED
    BY <1>1, <2>1, <2>2 DEF TabulatedInv
<1>7. ASSUME NEW n \in 1..WRITE_COUNT, Tabled(n)
      PROVE  TabulatedInv'
  <2> DEFINE at == dma[2].vrom_start
             c == TableCells(n)
             size == n * ENTRY_CELLS
             from == at + bytes_out * ENTRY_CELLS
  <2>1. /\ pc = "table" /\ pc' = IF bytes_out + n = count THEN "check" ELSE "table"
        /\ bytes_out' = bytes_out + n /\ i' = i /\ dma' = dma /\ Wrote(from, c)
    BY <1>7 DEF Tabled, Place
  <2>2. Tabulated = bytes_out /\ Tabulated' = bytes_out + n /\ n \in Nat
    BY <1>1, <1>2, <2>1, SizesAssumption DEF Tabulated
  <2>3. /\ Len(c) = size
        /\ \A k \in bytes_out..(bytes_out + n - 1), half \in 0..1 :
              /\ (k - bytes_out) * ENTRY_CELLS + half + 1 \in 1..size
              /\ c[(k - bytes_out) * ENTRY_CELLS + half + 1] = TableCell(k, half)
    BY <1>2, <2>2, TableCellsAre
  <2>4. /\ at \in Nat /\ at + count * ENTRY_CELLS <= Len(image) /\ i = count
        /\ bytes_out <= count
    <3>1. 2 \in 0..2
        OBVIOUS
    <3>2. /\ dma[2].vrom_start \in Nat /\ dma[2].rom_start = dma[2].vrom_start
          /\ dma[2].rom_start + StoredSize(2) <= Len(image)
          /\ StoredSize(2) = dma[2].vrom_end - dma[2].vrom_start
          /\ dma[2].vrom_end - dma[2].vrom_start = count * ENTRY_CELLS /\ i = count
        BY <2>1, <3>1, AllDone
    <3>3. bytes_out <= count
        BY <2>1 DEF SoundInv, IInv, CountersInv
    <3>4. QED
        BY <3>2, <3>3
  <2>5. Told(bytes_out, image)
    BY <2>1, <2>2 DEF TabulatedInv
  <2>6. /\ \A h \in 1..size : image'[from + h] = c[h]
        /\ \A h \in 1..Len(image) : h <= from => image'[h] = image[h]
    BY <2>1, <2>3 DEF Wrote
  <2>7. Len(image) \in Nat
    BY <1>2, SeqParts
  <2> HIDE DEF c, size
  <2>8. ASSUME NEW k \in 0..(bytes_out + n - 1), NEW half \in 0..1
        PROVE  image'[at + k * ENTRY_CELLS + half + 1] = TableCell(k, half)
    <3> DEFINE m == at + k * ENTRY_CELLS + half + 1
    <3>1. CASE k < bytes_out
      <4>1. k \in 0..(bytes_out - 1)
        BY <1>2, <3>1
      <4>2. image[m] = TableCell(k, half)
        BY <2>5, <4>1
      <4>3. m \in 1..Len(image) /\ m <= from
        <5>1. bytes_out \in Nat /\ Len(image) \in Nat /\ at \in Nat
            BY <1>2, <2>4, <2>7
        <5> HIDE DEF at
        <5>2. QED
            BY <1>2, <2>4, <4>1, <5>1, CellIndex
      <4> HIDE DEF m
      <4>4. QED
        BY <2>6, <4>2, <4>3 DEF m
    <3>2. CASE k >= bytes_out
      <4> DEFINE h == (k - bytes_out) * ENTRY_CELLS + half + 1
      <4>1. k \in bytes_out..(bytes_out + n - 1)
        BY <1>2, <2>2, <3>2
      <4>2. h \in 1..size /\ c[h] = TableCell(k, half)
        BY <2>3, <4>1
      <4>3. from + h = m
        <5>1. at \in Nat /\ bytes_out \in Nat /\ k \in Nat /\ bytes_out <= k /\ half \in Nat
            BY <1>2, <2>4, <4>1
        <5> HIDE DEF at
        <5>2. QED
            BY <5>1, CellOffset
      <4> HIDE DEF h, m, from
      <4>4. QED
        BY <2>6, <4>2, <4>3 DEF m
    <3>3. QED
      BY <1>2, <3>1, <3>2
  <2>9. \A k \in 0..(Tabulated' - 1), half \in 0..1 :
            image'[at + k * ENTRY_CELLS + half + 1] = TableCell(k, half)
    <3>1. Tabulated' - 1 = bytes_out + n - 1
        BY <1>2, <2>2
    <3>2. 0..(Tabulated' - 1) = 0..(bytes_out + n - 1)
        BY <3>1, Zenon
    <3>3. QED
        BY <2>8, <3>2, Zenon
  <2>10. i' = count' /\ dma[2].vrom_start = dma'[2].vrom_start
    BY <1>1, <2>1, <2>4
  <2>11. QED
    BY <2>9, <2>10 DEF TabulatedInv, at
<1>8. CASE Checked
  <2>1. /\ pc = "check" /\ pc' = "close" /\ CheckCodeResult = "OK" /\ i' = i /\ dma' = dma
        /\ Wrote(CHECK_CODE, <<CheckCode(image)>>)
    BY <1>8 DEF Checked, Place
  <2>2. CHECK_CODE + 1 <= dma[0].vrom_end
    BY <2>1, CheckPlace
  <2>3. dma[0].vrom_end <= dma[2].vrom_start /\ dma[0].vrom_end \in Nat /\ dma[2].vrom_start \in Nat
        /\ dma[2].vrom_start + count * ENTRY_CELLS <= Len(image) /\ i = count
    <3>1. /\ 0 \in 0..2 /\ 1 \in 0..2 /\ 2 \in 0..2 /\ 0 \in 0..1 /\ 1 \in 0..1
          /\ 0 + 1 = 1 /\ 1 + 1 = 2
        OBVIOUS
    <3>2. /\ dma[0].vrom_end = dma[0 + 1].vrom_start /\ dma[1].vrom_start < dma[1].vrom_end
          /\ dma[1].vrom_end = dma[1 + 1].vrom_start
          /\ dma[0].vrom_end \in Nat /\ dma[2].vrom_start \in Nat /\ dma[1].vrom_end \in Nat
          /\ dma[1].vrom_start \in Nat
        BY <2>1, <3>1, AllDone
    <3>3. /\ dma[2].rom_start = dma[2].vrom_start
          /\ dma[2].rom_start + StoredSize(2) <= Len(image)
          /\ StoredSize(2) = dma[2].vrom_end - dma[2].vrom_start
          /\ dma[2].vrom_end - dma[2].vrom_start = count * ENTRY_CELLS /\ i = count
        BY <2>1, <3>1, AllDone
    <3>4. QED
        BY <3>1, <3>2, <3>3
  <2>4. \A h \in 1..Len(image) : h > CHECK_CODE + 1 => image'[h] = image[h]
    BY <2>1, ShortSeqs DEF Wrote
  <2>5. Tabulated = count /\ Tabulated' = count /\ Told(count, image)
    BY <1>1, <2>1 DEF TabulatedInv, Tabulated
  <2>6. Len(image) \in Nat
    BY <1>2, SeqParts
  <2>7. ASSUME NEW k \in 0..(count - 1), NEW half \in 0..1
        PROVE  image'[dma[2].vrom_start + k * ENTRY_CELLS + half + 1] = TableCell(k, half)
    <3> DEFINE m == dma[2].vrom_start + k * ENTRY_CELLS + half + 1
    <3>1. image[m] = TableCell(k, half)
        BY <2>5
    <3>2. m \in 1..Len(image) /\ dma[2].vrom_start < m
      <4> DEFINE at == dma[2].vrom_start
                 all == Len(image)
      <4>1. at \in Nat /\ all \in Nat /\ count \in Nat /\ at + count * ENTRY_CELLS <= all
        BY <1>2, <2>3, <2>6
      <4> HIDE DEF at, all
      <4>2. /\ at + k * ENTRY_CELLS + half + 1 \in 1..all
            /\ at < at + k * ENTRY_CELLS + half + 1
        BY <4>1, CellIndex
      <4>3. QED
        BY <4>2 DEF at, all
    <3>3. m > CHECK_CODE + 1
      <4> DEFINE at == dma[2].vrom_start
                 end == dma[0].vrom_end
      <4>1. /\ at \in Nat /\ end \in Nat /\ end <= at /\ CHECK_CODE + 1 <= end
            /\ at < m /\ m \in Nat
        BY <2>2, <2>3, <2>6, <3>2
      <4> HIDE DEF at, end, m
      <4>2. QED
        BY <4>1 DEF CHECK_CODE
    <3> HIDE DEF m
    <3>4. QED
        BY <2>4, <3>1, <3>2, <3>3 DEF m
  <2>8. QED
    BY <1>1, <2>1, <2>3, <2>5, <2>7 DEF TabulatedInv
<1>9. ASSUME Failed \/ Overrun \/ Opened \/ Started \/ SkipFile \/ Begun \/ CopyDone \/ EndFile
             \/ (ReadChunk /\ pc' = "code") \/ (\E n : Copied(n))
             \/ (\E k, e, end : Coded(k, e, end)) \/ (\E n : PaddedOut(n))
      PROVE  pc' \notin {"table", "check", "close"} /\ ~Succeeded'
  <2>1. CASE Failed \/ Overrun
    BY <2>1, StepFailed DEF Succeeded
  <2>2. CASE Opened \/ Started \/ SkipFile \/ CopyDone \/ EndFile \/ (ReadChunk /\ pc' = "code")
    BY <2>2, SkipIs, EndIs DEF Opened, Started, CopyDone, SoundInv, IInv, Succeeded
  <2>3. CASE Begun
    BY <2>3 DEF Begun, Succeeded
  <2>4. CASE (\E n : Copied(n)) \/ (\E k, e, end : Coded(k, e, end)) \/ (\E n : PaddedOut(n))
    BY <2>4 DEF Copied, Coded, PaddedOut, Succeeded
  <2>5. QED
    BY <1>9, <2>1, <2>2, <2>3, <2>4
<1>10. QED
    BY <1>3, <1>4, <1>5, <1>6, <1>7, <1>8, <1>9 DEF Step

-----------------------------------------------------------------------------
(* What zelda64_read_file returns of the ROM that was read from. *)

LEMMA CellsInRom ==
    ASSUME job \in Jobs, IsSound(job), NEW f \in Files(rom), IsWritten(f), IsWhole(f),
           StatOf(f).result = "OK",
           NEW c, c = Content(rom, f, FormOf(f))
    PROVE  /\ IsSeq(c) /\ Len(c) \in Nat \ {0} /\ Len(c) <= StatOf(f).size
           /\ FormOf(f) = 0 => Len(c) = StatOf(f).size
           /\ StatOf(f).offset + Len(c) <= Len(rom.cells)
           /\ \A k \in 1..Len(c) : rom.cells[StatOf(f).offset + k] = c[k]
<1> DEFINE o == StatOf(f).offset
           size == StatOf(f).size
           all == Len(rom.cells)
           n == Len(c)
<1>1. /\ StorageIsSound(rom, f) /\ o \in Nat /\ size \in Nat \ {0}
      /\ rom.plain[f] \in Nat \ {0} /\ rom.packed[f] \in Nat /\ rom.packed[f] >= HEADER
      /\ rom.plain[f] = rom.dma[f].vrom_end - rom.dma[f].vrom_start
  <2>1. StorageIsSound(rom, f)
    BY FileIsSound
  <2>2. QED
    BY <2>1, FileIsSound DEF StorageIsSound
<1>2. IsRom(rom) /\ all \in Nat
    BY JobIs, CellsAreSeq
<1>3. /\ IsSeq(c)
      /\ n = IF FormOf(f) = 0 THEN rom.plain[f] ELSE rom.packed[f]
  <2>1. CASE zelda64_dmadata_kind(rom.dma[f]) = "STORED"
    BY <1>2, <2>1, ContentLength DEF FormOf
  <2>2. CASE zelda64_dmadata_kind(rom.dma[f]) # "STORED"
    <3>1. FormOf(f) = 1 /\ 1 \in Nat \ {0}
        BY <2>2 DEF FormOf
    <3>2. QED
        BY <1>2, <3>1, ContentLength
  <2>3. QED
    BY <2>1, <2>2
<1>4. n \in Nat \ {0}
    BY <1>1, <1>3 DEF HEADER
<1>5. /\ n <= size
      /\ \A k \in 1..n : o + k <= all => rom.cells[o + k] = c[k]
    BY <1>1, Zenon DEF StorageIsSound, FormOf, StatOf
<1>6. o + size <= all
    BY Zenon DEF IsWhole, StatOf
<1>7. FormOf(f) = 0 => n = size
  <2>1. FormOf(f) = 0 => zelda64_dmadata_kind(rom.dma[f]) = "STORED"
    BY DEF FormOf
  <2>2. QED
    BY <1>1, <1>3, <2>1, StoredStat
<1> HIDE DEF o, size, all, n
<1>8. o + n <= all /\ \A k \in 1..n : rom.cells[o + k] = c[k]
    BY <1>1, <1>2, <1>4, <1>5, <1>6
<1>9. QED
    BY <1>3, <1>4, <1>5, <1>7, <1>8 DEF o, size, all, n

LEMMA InputReads ==
    ASSUME job \in Jobs, IsSound(job), NEW f \in Files(rom), IsWritten(f), IsWhole(f),
           StatOf(f).result = "OK"
    PROVE  zelda64_read_file(rom, f) = Content(rom, f, 0)
<1> DEFINE st == StatOf(f)
           c == Content(rom, f, FormOf(f))
<1>1. /\ st.offset \in Nat /\ st.size \in Nat /\ st = zelda64_stat(rom, f) /\ st.result = "OK"
    BY FileIsSound DEF StatOf
<1>2. IsSeq(rom.cells)
    BY JobIs, CellsAreSeq, SeqIs
<1>3. /\ IsSeq(c) /\ Len(c) \in Nat \ {0} /\ Len(c) <= st.size
      /\ FormOf(f) = 0 => Len(c) = st.size
      /\ st.offset + Len(c) <= Len(rom.cells)
      /\ \A k \in 1..Len(c) : rom.cells[st.offset + k] = c[k]
    BY CellsInRom
<1> HIDE DEF st
<1>4. CASE zelda64_dmadata_kind(rom.dma[f]) = "STORED"
  <2>1. FormOf(f) = 0
    BY <1>4 DEF FormOf
  <2>2. c = Content(rom, f, 0)
    BY <2>1
  <2> HIDE DEF c
  <2>3. zelda64_read_file(rom, f) = c
    BY <1>1, <1>2, <1>3, <1>4, <2>1, StoredReads
  <2>4. QED
    BY <2>2, <2>3
<1>5. CASE zelda64_dmadata_kind(rom.dma[f]) # "STORED"
  <2>1. c = Content(rom, f, 1)
    BY <1>5 DEF FormOf
  <2> HIDE DEF c
  <2>2. Len(c) \in Nat /\ Len(c) > 0
    BY <1>3
  <2>3. QED
    BY <1>1, <1>2, <1>3, <1>5, <2>1, <2>2, StreamReads
<1>6. QED
    BY <1>4, <1>5

-----------------------------------------------------------------------------
(* What zelda64_read_file returns of the ROM that was written. *)

LEMMA OutputIs ==
    ASSUME job \in Jobs
    PROVE  /\ Output.dma = dma /\ Output.cells = image
           /\ Output.plain = rom.plain /\ Output.packed = rom.packed
           /\ \A f, layer : Content(Output, f, layer) = Content(rom, f, layer)
<1>1. {"dma", "cells", "plain", "packed"} \subseteq DOMAIN rom
    BY JobIs DEF IsRom
<1>2. /\ Output.dma = dma /\ Output.cells = image
      /\ Output.plain = rom.plain /\ Output.packed = rom.packed
    BY <1>1 DEF Output
<1>3. \A f, layer : Content(Output, f, layer) = Content(rom, f, layer)
  <2> HIDE DEF Output
  <2>1. QED
    BY <1>2, Zenon DEF Content
<1>4. QED
    BY <1>2, <1>3

(* A file that is stored as it is. *)
LEMMA PlainOutput ==
    ASSUME SoundInv, NEW f \in 0..(i - 1), IsWritten(f), IsWhole(f), Lies(f),
           f \notin CopiedStreams, job.layout[f].operation # "COMPRESS"
    PROVE  zelda64_read_file(Output, f) = Content(rom, f, 0)
<1> DEFINE e == dma[f]
           st == zelda64_stat(Output, f)
           c == Content(rom, f, 0)
           n == StoredSize(f)
           a == e.rom_start
<1>1. job \in Jobs /\ IsSound(job) /\ IsSeq(image)
    BY DEF SoundInv, IInv, CountersInv, CodeInv
<1>2. /\ Placed(f) /\ f \in Files(rom) /\ n \in Nat \ {0} /\ a \in Nat
      /\ a + n <= Len(image)
    BY FinishedIs
<1>3. /\ StatOf(f).result = "OK" /\ e.rom_end = 0
      /\ e.vrom_start = job.layout[f].vrom_start /\ e.vrom_end = job.layout[f].vrom_end
    BY <1>2 DEF Placed
<1>4. /\ rom.plain[f] \in Nat \ {0}
      /\ rom.plain[f] = job.layout[f].vrom_end - job.layout[f].vrom_start
      /\ job.layout[f].operation \in {"COPY", "DECOMPRESS"}
      /\ StatOf(f).file_size = rom.plain[f]
  <2>1. job.layout[f].operation \in Operations \ {"DELETE"}
    BY <1>1, <1>2, <1>3, FileIsSound
  <2>2. job.layout[f].operation \in {"COPY", "DECOMPRESS"}
    BY <2>1 DEF Operations
  <2>3. QED
    BY <1>1, <1>2, <1>3, <2>2, FileIsSound
<1>5. /\ e.vrom_start \in Nat /\ e.vrom_end \in Nat /\ e.vrom_start <= e.vrom_end
      /\ e.vrom_end - e.vrom_start = rom.plain[f]
  <2>1. job.layout[f].vrom_start \in Nat /\ job.layout[f].vrom_end \in Nat
    BY <1>1, <1>2, JobIs, WordsAreNat
  <2>2. QED
    BY <1>3, <1>4, <2>1
<1>6. IsSeq(c) /\ Len(c) = rom.plain[f]
    BY <1>1, <1>2, JobIs, ContentLength
<1>7. /\ Output.dma[f] = e /\ Output.cells = image
    BY <1>1, OutputIs
<1> HIDE DEF Output, e
<1>8. /\ zelda64_dmadata_kind(Output.dma[f]) = "STORED"
      /\ st.result = "OK" /\ st.offset = a /\ st.size = e.vrom_end - e.vrom_start
    BY <1>3, <1>5, <1>7, StoredStatIs
<1> HIDE DEF st, a, n, c
<1>9. n = Len(c) /\ \A k \in 1..Len(c) : image[a + k] = c[k]
  <2>1. \A k \in 1..n : image[a + k] = Stored(f)[k]
    BY DEF Lies, n, a, e
  <2>2. CASE job.layout[f].operation = "DECOMPRESS"
    <3>1. Stored(f) = c /\ n = rom.plain[f]
        BY <1>4, <2>2 DEF Stored, c, StoredSize, StatOf, n
    <3>2. QED
        BY <1>6, <2>1, <3>1
  <2>3. CASE job.layout[f].operation = "COPY"
    <3> DEFINE o == StatOf(f).offset
               size == StatOf(f).size
    <3>1. Stored(f) = ChunkAt(rom, o, size) /\ n = size
        BY <2>3 DEF Stored, n, StoredSize, StatOf
    <3>2. zelda64_dmadata_kind(rom.dma[f]) = "STORED"
      <4>1. zelda64_dmadata_kind(rom.dma[f]) # "COMPRESSED"
          BY <1>2, <2>3 DEF CopiedStreams
      <4>2. zelda64_dmadata_kind(rom.dma[f]) # "DELETED"
          BY <1>3 DEF StatOf, zelda64_stat, Failure
      <4>3. QED
          BY <4>1, <4>2 DEF zelda64_dmadata_kind
    <3>3. FormOf(f) = 0 /\ c = Content(rom, f, FormOf(f))
        BY <3>2 DEF FormOf, c
    <3>4. /\ Len(c) \in Nat /\ Len(c) = size /\ o + Len(c) <= Len(rom.cells)
          /\ \A k \in 1..Len(c) : rom.cells[o + k] = c[k]
        BY <1>1, <1>2, <1>3, <3>3, CellsInRom
    <3>5. o \in Nat /\ Len(rom.cells) \in Nat
        BY <1>1, <1>2, <1>3, FileIsSound, JobIs, CellsAreSeq
    <3>6. \A k \in 1..size : ChunkAt(rom, o, size)[k] =
              IF o + k <= Len(rom.cells) THEN rom.cells[o + k] ELSE Stale
        BY <3>4, ChunkIs
    <3> HIDE DEF o, size
    <3>7. ASSUME NEW k \in 1..Len(c)
          PROVE  image[a + k] = c[k]
      <4>1. o + k <= Len(rom.cells) /\ k \in 1..size /\ k \in 1..n
          BY <3>1, <3>4, <3>5
      <4>2. Stored(f)[k] = rom.cells[o + k]
          BY <3>1, <3>6, <4>1
      <4>3. QED
          BY <2>1, <3>4, <4>1, <4>2
    <3>8. QED
        BY <3>1, <3>4, <3>7
  <2>4. QED
    BY <1>4, <2>2, <2>3
<1>10. /\ st = zelda64_stat(Output, f) /\ IsSeq(Output.cells)
       /\ st.offset \in Nat /\ st.size \in Nat /\ IsSeq(c) /\ Len(c) = st.size
       /\ Len(c) \in Nat \ {0} /\ st.offset + Len(c) <= Len(Output.cells)
       /\ \A k \in 1..Len(c) : Output.cells[st.offset + k] = c[k]
  <2>1. /\ st = zelda64_stat(Output, f) /\ IsSeq(Output.cells)
    BY <1>1, <1>7 DEF st
  <2>2. /\ st.offset = a /\ st.size = rom.plain[f]
    BY <1>5, <1>8
  <2>3. QED
    BY <1>2, <1>4, <1>6, <1>7, <1>9, <2>1, <2>2 DEF a, n
<1>11. zelda64_read_file(Output, f) = c
    BY <1>8, <1>10, StoredReads
<1>12. QED
    BY <1>11 DEF c

(* A file that was compressed. *)
LEMMA PackedOutput ==
    ASSUME SoundInv, NEW f \in 0..(i - 1), IsWritten(f), Lies(f),
           f \notin PackedTwice, job.layout[f].operation = "COMPRESS"
    PROVE  zelda64_read_file(Output, f) = Content(rom, f, 0)
<1> DEFINE e == dma[f]
           st == zelda64_stat(Output, f)
           c == Content(rom, f, 1)
           n == StoredSize(f)
           a == e.rom_start
           all == Len(image)
           p == Padded(f)
<1>1. job \in Jobs /\ IsSound(job) /\ IsSeq(image) /\ rom_size \in Word
    BY DEF SoundInv, IInv, CountersInv, CodeInv
<1>2. /\ Placed(f) /\ f \in Files(rom) /\ n \in Nat \ {0} /\ a \in Nat
      /\ a + n <= all /\ all \in Nat
    BY <1>1, FinishedIs, SeqParts
<1>3. /\ StatOf(f).result = "OK" /\ e.rom_end = a + p
      /\ e.vrom_start = job.layout[f].vrom_start /\ e.vrom_end = job.layout[f].vrom_end
      /\ a % ALIGN = 0 /\ a + p <= rom_size
    BY <1>2 DEF Placed
<1>4. /\ rom.plain[f] \in Nat /\ rom.packed[f] \in Nat /\ rom.packed[f] >= HEADER
      /\ rom.plain[f] = job.layout[f].vrom_end - job.layout[f].vrom_start
    BY <1>1, <1>2, <1>3, FileIsSound
<1>5. /\ e.vrom_start \in Nat /\ e.vrom_end \in Nat /\ e.vrom_start <= e.vrom_end
  <2>1. job.layout[f].vrom_start \in Nat /\ job.layout[f].vrom_end \in Nat
    BY <1>1, <1>2, JobIs, WordsAreNat
  <2>2. QED
    BY <1>3, <1>4, <2>1
<1>6. p \in Nat /\ p % ALIGN = 0 /\ n <= p
    BY <1>1, <1>2, <1>3, PaddedIs
<1>7. IsSeq(c) /\ Len(c) = rom.packed[f]
  <2>1. 1 \in Nat \ {0}
    OBVIOUS
  <2>2. QED
    BY <1>1, <1>2, <2>1, JobIs, ContentLength
<1>8. Stored(f) = c /\ n = rom.packed[f]
  <2>1. zelda64_dmadata_kind(rom.dma[f]) = "STORED"
    <3>1. zelda64_dmadata_kind(rom.dma[f]) # "COMPRESSED"
        BY <1>2 DEF PackedTwice
    <3>2. zelda64_dmadata_kind(rom.dma[f]) # "DELETED"
        BY <1>3 DEF StatOf, zelda64_stat, Failure
    <3>3. QED
        BY <3>1, <3>2 DEF zelda64_dmadata_kind
  <2>2. FormOf(f) + 1 = 1
    BY <2>1 DEF FormOf
  <2>3. QED
    BY <2>2 DEF Stored, StoredSize
<1>9. Output.dma[f] = e /\ Output.cells = image /\ c = Content(Output, f, 1)
      /\ Content(Output, f, 0) = Content(rom, f, 0)
    BY <1>1, OutputIs
<1> HIDE DEF Output, e
<1>10. \A k \in 1..n : image[a + k] = c[k]
    BY <1>8 DEF Lies, e
<1>11. e.rom_end \in Nat \ {0, UINT32_MAX} /\ p >= HEADER /\ a + HEADER <= all
  <2> HIDE DEF a, p, all, n
  <2>1. a + p \in Nat /\ a + p # 0 /\ a + p \in Word
    <3>1. Word = 0..UINT32_MAX /\ UINT32_MAX \in Nat /\ rom_size <= UINT32_MAX /\ rom_size \in Nat
        BY <1>1, WordsAssumption, WordsAreNat DEF Word
    <3>2. QED
        BY <1>2, <1>3, <1>6, <3>1
  <2>2. (a + p) % ALIGN = 0
    <3>1. ALIGN \in Nat \ {0}
        BY WordsAssumption, WordsAreNat
    <3>2. QED
        BY <1>2, <1>3, <1>6, <3>1, Multiples
  <2>3. a + p # UINT32_MAX
    BY <2>1, <2>2, EndIsNoMark
  <2>4. n >= HEADER
    BY <1>4, <1>8
  <2>5. p >= HEADER /\ a + HEADER <= all
    BY <1>2, <1>6, <2>4 DEF HEADER
  <2>6. QED
    BY <1>3, <2>1, <2>3, <2>5
<1>12. IsYaz0Header(Output.cells[a + 1])
  <2>1. c = [k \in 1..rom.packed[f] |-> <<"file", f, 1, k>>]
    BY DEF Content
  <2> HIDE DEF c, a, n
  <2>2. 1 \in 1..rom.packed[f] /\ 1 \in 1..n
    BY <1>4, <1>8 DEF HEADER
  <2>3. c[1] = <<"file", f, 1, 1>>
    BY <2>1, <2>2
  <2>4. image[a + 1] = <<"file", f, 1, 1>>
    BY <1>10, <2>2, <2>3
  <2>5. QED
    BY <1>9, <2>4 DEF IsYaz0Header, Stale
<1>13. /\ zelda64_dmadata_kind(Output.dma[f]) = "COMPRESSED"
       /\ st.result = "OK" /\ st.offset = a /\ st.size = p
  <2> HIDE DEF p, all, st
  <2>1. Len(Output.cells) = all /\ st = zelda64_stat(Output, f)
    BY <1>9 DEF all, st
  <2>2. Len(Output.cells) \in Nat /\ e.rom_start + HEADER <= Len(Output.cells)
        /\ e.rom_start \in Nat /\ e.rom_end = e.rom_start + p /\ e = Output.dma[f]
        /\ IsYaz0Header(Output.cells[e.rom_start + 1])
    BY <1>2, <1>3, <1>9, <1>11, <1>12, <2>1
  <2>3. NamesStream(Output, e, p)
    BY <1>5, <1>6, <1>11, <2>2 DEF NamesStream
  <2>4. HasStream(Output, f, p)
    BY <2>2, <2>3, StreamStatIs, Zenon
  <2>5. QED
    BY <2>1, <2>2, <2>4 DEF HasStream
<1> HIDE DEF st, a, n, c, p, all
<1>14. /\ st = zelda64_stat(Output, f) /\ st.result = "OK" /\ IsSeq(Output.cells)
       /\ zelda64_dmadata_kind(Output.dma[f]) # "STORED"
       /\ st.offset \in Nat /\ st.size \in Nat /\ IsSeq(c) /\ Len(c) \in Nat /\ Len(c) > 0
       /\ Len(c) <= st.size /\ st.offset + Len(c) <= Len(Output.cells)
       /\ \A k \in 1..Len(c) : Output.cells[st.offset + k] = c[k]
  <2>1. st = zelda64_stat(Output, f) /\ Len(Output.cells) = all
    BY <1>9 DEF st, all
  <2>2. Len(c) = n /\ n \in Nat /\ n > 0
    BY <1>2, <1>7, <1>8
  <2>3. QED
    BY <1>1, <1>2, <1>6, <1>7, <1>9, <1>10, <1>13, <2>1, <2>2
<1>15. zelda64_read_file(Output, f) = Content(Output, f, 0)
    BY <1>9, <1>14, StreamReads
<1>16. QED
    BY <1>9, <1>15

-----------------------------------------------------------------------------
(* The whole invariant, and what it says of the output. *)

ContentInvs == FileInvs /\ FedInv /\ PartInv /\ LiesInv /\ TabulatedInv

LEMMA ContentInit ==
    ASSUME Init, IsSound(job)
    PROVE  FedInv /\ PartInv /\ LiesInv /\ TabulatedInv
<1>1. pc = "open" /\ i = 0
    BY DEF Init
<1>2. 0..(i - 1) = {}
    BY <1>1
<1>3. QED
    BY <1>1, <1>2 DEF FedInv, PartInv, InFile, LiesInv, TabulatedInv, Succeeded

(* Of a sound job every invariant above holds. *)
THEOREM SoundContents == Spec /\ IsSound(job) => []ContentInvs
<1>1. Init /\ IsSound(job) => FedInv /\ PartInv /\ LiesInv /\ TabulatedInv
    BY ContentInit
<1>2. FileInvs /\ (FedInv /\ PartInv /\ LiesInv /\ TabulatedInv) /\ [Next]_vars
          => (FedInv /\ PartInv /\ LiesInv /\ TabulatedInv)'
  <2> SUFFICES ASSUME FileInvs, FedInv, PartInv, LiesInv, TabulatedInv, [Next]_vars
               PROVE  FedInv' /\ PartInv' /\ LiesInv' /\ TabulatedInv'
    OBVIOUS
  <2>1. SoundInv /\ Step
    BY Steps DEF FileInvs, SoundInv, IInv
  <2>2. QED
    BY <2>1, FedKept, PartKept, LiesKept, TabulatedKept DEF SoundInv
<1>3. QED
    BY <1>1, <1>2, SoundJobs, PTL DEF Spec, ContentInvs

(* Rewriting a ROM loses no file: the output returns for each of them what *)
(* the input returns, but for the files FilesSurvive sets apart.           *)
THEOREM FilesKept == Spec /\ IsSound(job) => []FilesSurvive
<1>1. ContentInvs => FilesSurvive
  <2> SUFFICES ASSUME ContentInvs, Succeeded, Room,
                      NEW f \in Files(rom) \ ({0, 2} \cup CopiedStreams \cup PackedTwice),
                      IsWritten(f), IsWhole(f)
               PROVE  zelda64_read_file(Output, f) = zelda64_read_file(rom, f)
    BY DEF FilesSurvive, Room
  <2>1. SoundInv /\ job \in Jobs /\ IsSound(job) /\ i = count
    BY DEF ContentInvs, FileInvs, SoundInv, IInv, CountersInv, TabulatedInv
  <2>2. f \in 0..(i - 1) /\ f \in Files(rom)
    BY <2>1, JobIs
  <2>3. Lies(f)
    BY <2>2 DEF ContentInvs, LiesInv
  <2>4. StatOf(f).result = "OK"
    BY <2>1, <2>2, FinishedIs DEF Placed
  <2>5. zelda64_read_file(rom, f) = Content(rom, f, 0)
    BY <2>1, <2>2, <2>4, InputReads
  <2>6. zelda64_read_file(Output, f) = Content(rom, f, 0)
    BY <2>1, <2>2, <2>3, PlainOutput, PackedOutput
  <2>7. QED
    BY <2>5, <2>6
<1>2. QED
    BY <1>1, SoundContents, PTL

(* The output can be opened again: its table lies where its own entry 2    *)
(* says, and its first three entries are the ones is_dmadata asks for.     *)
THEOREM TableFound == Spec /\ IsSound(job) => []TableIsFoundAgain
<1>1. ContentInvs => TableIsFoundAgain
  <2> SUFFICES ASSUME ContentInvs, Succeeded
               PROVE  /\ \A k \in 0..(count - 1), half \in 0..1 :
                            image[dma[2].rom_start + k * ENTRY_CELLS + half + 1] = TableCell(k, half)
                      /\ dma[2].vrom_end - dma[2].rom_start = count * ENTRY_CELLS
                      /\ \A f \in 1..2 : /\ dma[f].vrom_start = dma[f - 1].vrom_end
                                         /\ dma[f].rom_start = dma[f - 1].vrom_end
                                         /\ dma[f].rom_end = 0
    BY DEF TableIsFoundAgain
  <2>1. SoundInv /\ TabulatedInv
    BY DEF ContentInvs, FileInvs
  <2>2. /\ \A f \in 0..2 : dma[f].rom_start = dma[f].vrom_start /\ dma[f].rom_end = 0
        /\ \A f \in 0..1 : dma[f].vrom_end = dma[f + 1].vrom_start
        /\ dma[2].vrom_end - dma[2].vrom_start = count * ENTRY_CELLS
    BY <2>1, AllDone
  <2>3. \A k \in 0..(count - 1), half \in 0..1 :
            image[dma[2].vrom_start + k * ENTRY_CELLS + half + 1] = TableCell(k, half)
  <3>1. Tabulated = count
    BY DEF Tabulated, Succeeded
  <3>2. QED
    BY <2>1, <3>1 DEF TabulatedInv
  <2>4. \A f \in 1..2 : f \in 0..2 /\ f - 1 \in 0..1 /\ (f - 1) + 1 = f
    OBVIOUS
  <2>5. \A f \in 1..2 : /\ dma[f].vrom_start = dma[f - 1].vrom_end
                         /\ dma[f].rom_start = dma[f - 1].vrom_end
                         /\ dma[f].rom_end = 0
    BY <2>2, <2>4
  <2>6. 2 \in 0..2
    OBVIOUS
  <2>7. QED
    BY <2>2, <2>3, <2>5, <2>6
<1>2. QED
    BY <1>1, SoundContents, PTL

-----------------------------------------------------------------------------
(* Writing ends, of every job: what is left of the image, of the file at   *)
(* hand, of its storage and of its output becomes less with every step.    *)
(* The coder keeps being called only while it takes or makes something:    *)
(* once all of the storage was taken, a call that makes nothing is the     *)
(* last one, or fails.                                                     *)

PhasesLeft ==
    CASE pc = "open" -> 8
      [] pc = "alloc" -> 7
      [] pc \in {"file", "copy", "read", "code", "entry"} -> 6
      [] pc = "pad" -> 5
      [] pc = "table" -> 4
      [] pc = "check" -> 3
      [] pc = "close" -> 2
      [] OTHER -> 0
FilesLeft == count - i
StagesLeft ==
    CASE pc = "file" -> 3
      [] pc \in {"copy", "read", "code"} -> 2
      [] pc = "entry" -> 1
      [] OTHER -> 0
Pending == IF pc = "code" /\ avail_in > 0 THEN 1 ELSE 0
StorageLeft == IF pc \in {"read", "code"} THEN 2 * (stat.size - bytes_in) + Pending ELSE 0
Padding == zelda64_ceil_pow2(rom_size) - (rom_size + bytes_out)
OutputLeft ==
    CASE pc = "copy" -> stat.size - bytes_out
      [] pc \in {"read", "code"} -> Len(Stream.out) - bytes_out
      [] pc = "pad" -> IF Padding > 0 THEN Padding ELSE 0
      [] pc = "table" -> count - bytes_out
      [] OTHER -> 0
ReadsLeft == IF pc = "read" THEN 1 ELSE 0

Left == <<PhasesLeft, FilesLeft, StagesLeft, StorageLeft, OutputLeft, ReadsLeft>>

(* The chunk is empty only when all of the storage was read. *)
DrainedInv == pc = "code" /\ avail_in = 0 => bytes_in = stat.size

LEMMA CountsAre ==
    ASSUME IInv
    PROVE  /\ count \in Nat /\ i \in Nat /\ i <= count
           /\ bytes_in \in Nat /\ bytes_out \in Nat /\ avail_in \in Nat
           /\ rom_size \in Nat /\ zelda64_ceil_pow2(rom_size) \in Nat
           /\ pc \in {"copy", "read", "code"} => stat.size \in Nat /\ Len(Stream.out) \in Nat
           /\ pc = "copy" => bytes_out <= stat.size
           /\ pc \in {"read", "code"} => /\ bytes_in <= stat.size
                                         /\ bytes_out <= Len(Stream.out)
           /\ pc = "table" => bytes_out <= count
<1>1. /\ job \in Jobs /\ i \in 0..count /\ count \in Nat
      /\ bytes_in \in Nat /\ bytes_out \in Nat /\ avail_in \in Nat /\ rom_size \in Nat
    BY JobIs, WordsAreNat DEF IInv, CountersInv
<1>2. zelda64_ceil_pow2(rom_size) \in Nat
    BY CeilRoundsUp, WordsAreNat DEF IInv, CountersInv
<1>3. pc \in {"copy", "read", "code"} => stat.size \in Nat /\ Len(Stream.out) \in Nat
    BY <1>1, FileIs, WordsAreNat DEF IInv, CountersInv
<1>4. QED
    BY <1>1, <1>2, <1>3 DEF IInv, CountersInv

LEMMA LeftIsMeasure == IInv => IsMeasure(Left)
<1> SUFFICES ASSUME IInv PROVE IsMeasure(Left)
    OBVIOUS
<1>1. PhasesLeft \in Nat /\ StagesLeft \in Nat /\ ReadsLeft \in Nat /\ Pending \in Nat
    BY DEF PhasesLeft, StagesLeft, ReadsLeft, Pending
<1>2. FilesLeft \in Nat
    BY CountsAre DEF FilesLeft
<1>3. StorageLeft \in Nat
  <2>1. CASE pc \in {"read", "code"}
    <3>1. stat.size \in Nat /\ bytes_in \in Nat /\ bytes_in <= stat.size
        BY <2>1, CountsAre
    <3>2. StorageLeft = 2 * (stat.size - bytes_in) + Pending
        BY <2>1 DEF StorageLeft
    <3>3. QED
        BY <1>1, <3>1, <3>2
  <2>2. CASE pc \notin {"read", "code"}
    BY <2>2 DEF StorageLeft
  <2>3. QED
    BY <2>1, <2>2
<1>4. OutputLeft \in Nat
  <2>1. Padding \in Int
    BY CountsAre DEF Padding
  <2>2. CASE pc \in {"read", "code"}
    <3> DEFINE n == Len(Stream.out)
    <3>1. n \in Nat /\ bytes_out \in Nat /\ bytes_out <= n
        BY <2>2, CountsAre
    <3>2. OutputLeft = n - bytes_out
        BY <2>2 DEF OutputLeft
    <3> HIDE DEF n
    <3>3. QED
        BY <3>1, <3>2
  <2>3. CASE pc \notin {"read", "code"}
    BY <2>1, <2>3, CountsAre DEF OutputLeft
  <2>4. QED
    BY <2>2, <2>3
<1>5. QED
    BY <1>1, <1>2, <1>3, <1>4 DEF Left, IsMeasure

LEMMA IsLessIf ==
    ASSUME \/ PhasesLeft' < PhasesLeft
           \/ /\ PhasesLeft' = PhasesLeft
              /\ \/ FilesLeft' < FilesLeft
                 \/ /\ FilesLeft' = FilesLeft
                    /\ \/ StagesLeft' < StagesLeft
                       \/ /\ StagesLeft' = StagesLeft
                          /\ \/ StorageLeft' < StorageLeft
                             \/ /\ StorageLeft' = StorageLeft
                                /\ \/ OutputLeft' < OutputLeft
                                   \/ OutputLeft' = OutputLeft /\ ReadsLeft' < ReadsLeft
    PROVE  IsLess(Left', Left)
<1> DEFINE u == Left'  v == Left
<1>1. /\ Len(v) = 6
      /\ v[1] = PhasesLeft /\ v[2] = FilesLeft /\ v[3] = StagesLeft
      /\ v[4] = StorageLeft /\ v[5] = OutputLeft /\ v[6] = ReadsLeft
      /\ u[1] = PhasesLeft' /\ u[2] = FilesLeft' /\ u[3] = StagesLeft'
      /\ u[4] = StorageLeft' /\ u[5] = OutputLeft' /\ u[6] = ReadsLeft'
    BY DEF Left
<1> HIDE DEF u, v
<1>2. PICK k \in 1..6 : u[k] < v[k] /\ \A j \in 1..(k - 1) : u[j] = v[j]
  <2>1. CASE u[1] < v[1]
    BY <2>1
  <2>2. CASE u[1] = v[1] /\ u[2] < v[2]
    BY <2>2
  <2>3. CASE u[1] = v[1] /\ u[2] = v[2] /\ u[3] < v[3]
    BY <2>3
  <2>4. CASE u[1] = v[1] /\ u[2] = v[2] /\ u[3] = v[3] /\ u[4] < v[4]
    BY <2>4
  <2>5. CASE u[1] = v[1] /\ u[2] = v[2] /\ u[3] = v[3] /\ u[4] = v[4] /\ u[5] < v[5]
    BY <2>5
  <2>6. CASE u[1] = v[1] /\ u[2] = v[2] /\ u[3] = v[3] /\ u[4] = v[4] /\ u[5] = v[5]
             /\ u[6] < v[6]
    BY <2>6
  <2>7. QED
    BY <1>1, <2>1, <2>2, <2>3, <2>4, <2>5, <2>6, Zenon
<1>3. IsLess(u, v)
    BY <1>1, <1>2 DEF IsLess
<1>4. QED
    BY <1>3 DEF u, v

(* The steps to another phase or another file, or within one. *)
LEMMA OtherStepIsLess ==
    ASSUME IInv, pc # "done",
           \/ Failed \/ Overrun \/ Opened \/ Started \/ SkipFile \/ Begun
           \/ CopyDone \/ EndFile \/ FilesDone \/ PadDone \/ Checked \/ Closed
    PROVE  IsLess(Left', Left)
<1>1. pc \in {"open", "alloc", "file", "copy", "read", "code", "entry", "pad", "table",
              "check", "close"}
    BY DEF IInv, ResourcesInv
<1>2. CASE pc' = "done"
  <2>1. PhasesLeft' < PhasesLeft
    BY <1>1, <1>2 DEF PhasesLeft
  <2>2. QED
    BY <2>1, IsLessIf
<1>3. CASE Failed \/ Overrun \/ Closed
    BY <1>2, <1>3 DEF Failed, Overrun, Closed, Abort
<1>4. CASE Opened \/ Started \/ FilesDone \/ PadDone \/ Checked
  <2>1. PhasesLeft' < PhasesLeft
    BY <1>4 DEF Opened, Started, FilesDone, PadDone, Checked, PhasesLeft
  <2>2. QED
    BY <2>1, IsLessIf
<1>5. CASE SkipFile \/ EndFile
  <2>1. i' = i + 1 /\ job' = job /\ pc' = "file" /\ pc \in {"file", "entry"}
    BY <1>5, SkipIs, EndIs DEF IInv
  <2>2. PhasesLeft' = PhasesLeft
    BY <2>1 DEF PhasesLeft
  <2>3. FilesLeft' < FilesLeft
    BY <2>1, CountsAre, SameJob DEF FilesLeft
  <2>4. QED
    BY <2>2, <2>3, IsLessIf
<1>6. CASE Begun \/ CopyDone
  <2>1. /\ i' = i /\ job' = job
        /\ \/ pc = "file" /\ pc' \in {"copy", "read", "entry"}
           \/ pc = "copy" /\ pc' = "entry"
    BY <1>6 DEF Begun, CopyDone, Frame, Place, placement
  <2>2. PhasesLeft' = PhasesLeft /\ StagesLeft' < StagesLeft
    BY <2>1 DEF PhasesLeft, StagesLeft
  <2>3. FilesLeft' = FilesLeft
    BY <2>1, SameJob DEF FilesLeft
  <2>4. QED
    BY <2>2, <2>3, IsLessIf
<1>7. QED
    BY <1>3, <1>4, <1>5, <1>6

(* A write of n cells of a file, of padding or of the table leaves so much *)
(* less to write.                                                          *)
LEMMA WriteIsLess ==
    ASSUME IInv, NEW n \in Nat, n > 0, Copied(n) \/ PaddedOut(n) \/ Tabled(n)
    PROVE  IsLess(Left', Left)
<1>1. CASE Copied(n)
  <2>1. /\ pc = "copy" /\ pc' = "copy" /\ i' = i /\ job' = job /\ bytes_out' = bytes_out + n
        /\ stat' = stat /\ count' = count
    BY <1>1, SameJob DEF Copied, Frame, Place
  <2>2. /\ PhasesLeft' = PhasesLeft /\ FilesLeft' = FilesLeft /\ StagesLeft' = StagesLeft
        /\ StorageLeft' = StorageLeft
    BY <2>1 DEF PhasesLeft, FilesLeft, StagesLeft, StorageLeft
  <2>3. OutputLeft = stat.size - bytes_out /\ OutputLeft' = stat.size - (bytes_out + n)
    BY <2>1 DEF OutputLeft
  <2>4. OutputLeft' < OutputLeft
    BY <2>1, <2>3, CountsAre
  <2>5. QED
    BY <2>2, <2>4, IsLessIf
<1>2. CASE PaddedOut(n)
  <2>1. /\ pc = "pad" /\ pc' = "pad" /\ i' = i /\ job' = job /\ bytes_out' = bytes_out + n
        /\ rom_size' = rom_size /\ count' = count
        /\ \E c : Len(c) = n /\ Wrote(rom_size + bytes_out, c)
    BY <1>2, SameJob DEF PaddedOut, Frame, Place
  <2>2. /\ PhasesLeft' = PhasesLeft /\ FilesLeft' = FilesLeft /\ StagesLeft' = StagesLeft
        /\ StorageLeft' = StorageLeft
    BY <2>1 DEF PhasesLeft, FilesLeft, StagesLeft, StorageLeft
  <2>3. rom_size + bytes_out + n <= zelda64_ceil_pow2(rom_size)
    BY <2>1 DEF Wrote, InPlace
  <2> DEFINE top == zelda64_ceil_pow2(rom_size)
  <2>4. /\ OutputLeft = IF top - (rom_size + bytes_out) > 0 THEN top - (rom_size + bytes_out)
                        ELSE 0
        /\ OutputLeft' = IF top - (rom_size + (bytes_out + n)) > 0
                         THEN top - (rom_size + (bytes_out + n)) ELSE 0
    BY <2>1 DEF OutputLeft, Padding
  <2>5. top \in Nat /\ rom_size \in Nat /\ bytes_out \in Nat
    BY CountsAre
  <2> HIDE DEF top
  <2>6. rom_size + bytes_out + n <= top
    BY <2>3 DEF top
  <2>7. OutputLeft' < OutputLeft
    BY <2>4, <2>5, <2>6
  <2>8. QED
    BY <2>2, <2>7, IsLessIf
<1>3. CASE Tabled(n)
  <2>1. /\ pc = "table" /\ pc' \in {"table", "check"} /\ i' = i /\ job' = job
        /\ bytes_out' = bytes_out + n /\ count' = count
    BY <1>3, SameJob DEF Tabled, Frame, Place
  <2>2. CASE pc' = "check"
    <3>1. PhasesLeft' < PhasesLeft
        BY <2>1, <2>2 DEF PhasesLeft
    <3>2. QED
        BY <3>1, IsLessIf
  <2>3. CASE pc' = "table"
    <3>1. /\ PhasesLeft' = PhasesLeft /\ FilesLeft' = FilesLeft /\ StagesLeft' = StagesLeft
          /\ StorageLeft' = StorageLeft
        BY <2>1, <2>3 DEF PhasesLeft, FilesLeft, StagesLeft, StorageLeft
    <3>2. OutputLeft = count - bytes_out /\ OutputLeft' = count - (bytes_out + n)
        BY <2>1, <2>3 DEF OutputLeft
    <3>3. OutputLeft' < OutputLeft
        BY <3>2, CountsAre
    <3>4. QED
        BY <3>1, <3>3, IsLessIf
  <2>4. QED
    BY <2>1, <2>2, <2>3
<1>4. QED
    BY <1>1, <1>2, <1>3

LEMMA ReadIsLess ==
    ASSUME IInv, FedInv, ReadChunk, pc' = "code"
    PROVE  IsLess(Left', Left) /\ DrainedInv'
<1> DEFINE left == stat.size - bytes_in
           want == IF left < CHUNK_SIZE THEN left ELSE CHUNK_SIZE
<1>1. /\ pc = "read" /\ job' = job /\ i' = i /\ bytes_out' = bytes_out
      /\ avail_in' = want /\ bytes_in' = bytes_in + want
    BY DEF ReadChunk, Abort, placement
<1>2. stat' = stat /\ Stream' = Stream /\ count' = count
    BY <1>1, SameJob
<1>3. /\ stat.size \in Nat /\ bytes_in \in Nat /\ bytes_in <= stat.size
      /\ CHUNK_SIZE \in Nat /\ CHUNK_SIZE > 0
    BY <1>1, CountsAre, SizesAssumption
<1>4. want \in Nat /\ want <= stat.size - bytes_in /\ (want = 0 => bytes_in = stat.size)
    BY <1>3
<1> HIDE DEF want
<1>5. DrainedInv'
    BY <1>1, <1>2, <1>3, <1>4 DEF DrainedInv
<1>6. /\ PhasesLeft' = PhasesLeft /\ FilesLeft' = FilesLeft /\ StagesLeft' = StagesLeft
      /\ OutputLeft' = OutputLeft /\ ReadsLeft' < ReadsLeft
    BY <1>1, <1>2 DEF PhasesLeft, FilesLeft, StagesLeft, OutputLeft, ReadsLeft
<1>7. /\ StorageLeft = 2 * (stat.size - bytes_in) + 0
      /\ StorageLeft' = 2 * (stat.size - (bytes_in + want)) + (IF want > 0 THEN 1 ELSE 0)
    BY <1>1, <1>2 DEF StorageLeft, Pending
<1>8. CASE want > 0
  <2>1. StorageLeft' < StorageLeft
    BY <1>3, <1>4, <1>7, <1>8
  <2>2. QED
    BY <1>5, <1>6, <2>1, IsLessIf
<1>9. CASE want = 0
  <2>1. StorageLeft' = StorageLeft
    BY <1>3, <1>7, <1>9
  <2>2. QED
    BY <1>5, <1>6, <2>1, IsLessIf
<1>10. QED
    BY <1>4, <1>8, <1>9

(* A call that takes nothing, because all was taken, and makes nothing. *)
LEMMA IdleCall ==
    ASSUME IInv, FedInv, pc = "code", avail_in = 0, bytes_in = stat.size,
           NEW end \in BOOLEAN,
           MayCode(Stream, taken, bytes_out, InputChunk, CHUNK_SIZE, Finish, 0, 0, end),
           ~Malformed(Stream, taken, InputChunk, Finish, 0)
    PROVE  end
<1>1. /\ stat.size \in Nat /\ bytes_out \in Nat /\ Len(Stream.out) \in Nat
      /\ CHUNK_SIZE \in Nat /\ CHUNK_SIZE > 0
    BY CountsAre, SizesAssumption
<1>2. Len(InputChunk) = 0 /\ Finish /\ Len(taken) = stat.size
    BY <1>1, ChunkIs DEF InputChunk, Finish, FedInv
<1>3. Complete(Stream, Len(taken) + 0, Finish)
  <2>1. CASE ~Stream.compress
    BY <1>2, <2>1 DEF Malformed
  <2>2. CASE Stream.compress
    <3>1. Stream.in = ChunkAt(rom, stat.offset, stat.size)
        BY <2>2 DEF Stream
    <3>2. Len(Stream.in) = stat.size
        BY <1>1, <3>1, ChunkIs
    <3>3. QED
        BY <1>1, <1>2, <3>2 DEF Complete
  <2>3. QED
    BY <2>1, <2>2
<1>4. 0 = CHUNK_SIZE \/ bytes_out + 0 = Len(Stream.out)
    BY <1>3 DEF MayCode
<1>5. bytes_out + 0 = Len(Stream.out)
    BY <1>1, <1>4
<1>6. QED
    BY <1>3, <1>5 DEF MayCode

LEMMA CodeIsLess ==
    ASSUME IInv, FedInv, DrainedInv,
           NEW c \in 0..avail_in, NEW e \in 0..CHUNK_SIZE, NEW end \in BOOLEAN,
           Coded(c, e, end)
    PROVE  IsLess(Left', Left) /\ DrainedInv'
<1>1. /\ pc = "code" /\ job' = job /\ i' = i /\ bytes_in' = bytes_in
      /\ avail_in' = avail_in - c /\ bytes_out' = bytes_out + e
      /\ pc' = IF CallAgain(c, e) THEN "code" ELSE IF end /\ ~CallAgain(c, e) THEN "entry"
               ELSE "read"
      /\ MayCode(Stream, taken, bytes_out, InputChunk, CHUNK_SIZE, Finish, c, e, end)
      /\ ~Malformed(Stream, taken, InputChunk, Finish, c)
    BY DEF Coded, Frame, Place
<1>2. stat' = stat /\ Stream' = Stream /\ count' = count
    BY <1>1, SameJob
<1>3. /\ stat.size \in Nat /\ bytes_in \in Nat /\ bytes_out \in Nat /\ Len(Stream.out) \in Nat
      /\ avail_in \in Nat /\ c \in Nat /\ e \in Nat /\ c <= avail_in
      /\ CHUNK_SIZE \in Nat /\ CHUNK_SIZE > 0
    BY <1>1, CountsAre, SizesAssumption
<1>4. StorageLeft = 2 * (stat.size - bytes_in) + (IF avail_in > 0 THEN 1 ELSE 0)
      /\ OutputLeft = Len(Stream.out) - bytes_out
    BY <1>1 DEF StorageLeft, Pending, OutputLeft
<1>5. PhasesLeft' = PhasesLeft /\ FilesLeft' = FilesLeft
    BY <1>1, <1>2 DEF PhasesLeft, FilesLeft
<1>6. CASE pc' = "entry"
  <2>1. StagesLeft' < StagesLeft /\ DrainedInv'
    BY <1>1, <1>6 DEF StagesLeft, DrainedInv
  <2>2. QED
    BY <1>5, <2>1, IsLessIf
<1>7. CASE pc' = "code"
  <2>1. e = CHUNK_SIZE /\ c # avail_in
    BY <1>1, <1>7 DEF CallAgain
  <2>2. avail_in' > 0 /\ avail_in > 0 /\ avail_in' \in Nat
    BY <1>1, <1>3, <2>1
  <2>3. DrainedInv'
    BY <2>2 DEF DrainedInv
  <2>4. StagesLeft' = StagesLeft
    BY <1>1, <1>7 DEF StagesLeft
  <2>5. StorageLeft' = StorageLeft
    BY <1>1, <1>2, <1>4, <1>7, <2>2 DEF StorageLeft, Pending
  <2>6. OutputLeft' = Len(Stream.out) - (bytes_out + e)
    BY <1>1, <1>2, <1>7 DEF OutputLeft
  <2>7. OutputLeft' < OutputLeft
    BY <1>3, <1>4, <2>1, <2>6
  <2>8. QED
    BY <1>5, <2>3, <2>4, <2>5, <2>7, IsLessIf
<1>8. CASE pc' = "read"
  <2>1. c = avail_in
    BY <1>8, ChunkIsTaken
  <2>2. DrainedInv'
    BY <1>8 DEF DrainedInv
  <2>3. StagesLeft' = StagesLeft
    BY <1>1, <1>8 DEF StagesLeft
  <2>4. /\ StorageLeft' = 2 * (stat.size - bytes_in) + 0
        /\ OutputLeft' = Len(Stream.out) - (bytes_out + e)
    BY <1>1, <1>2, <1>8 DEF StorageLeft, Pending, OutputLeft
  <2>5. CASE avail_in > 0
    <3>1. StorageLeft' < StorageLeft
        BY <1>3, <1>4, <2>4, <2>5
    <3>2. QED
        BY <1>5, <2>2, <2>3, <3>1, IsLessIf
  <2>6. CASE avail_in = 0
    <3>1. StorageLeft' = StorageLeft
        BY <1>3, <1>4, <2>4, <2>6
    <3>2. e # 0
      <4> SUFFICES ASSUME e = 0 PROVE FALSE
          OBVIOUS
      <4>1. c = 0 /\ bytes_in = stat.size
          BY <1>1, <2>1, <2>6 DEF DrainedInv
      <4>2. end
          BY <1>1, <2>6, <4>1, IdleCall
      <4>3. QED
          BY <1>1, <1>8, <4>2
    <3>3. OutputLeft' < OutputLeft
        BY <1>3, <1>4, <2>4, <3>2
    <3>4. QED
        BY <1>5, <2>2, <2>3, <3>1, <3>3, IsLessIf
  <2>7. QED
    BY <1>3, <2>5, <2>6
<1>9. QED
    BY <1>1, <1>6, <1>7, <1>8

LEMMA StepIsLess ==
    ASSUME IInv, FedInv, DrainedInv, [Next]_vars
    PROVE  [IsLess(Left', Left)]_vars /\ DrainedInv'
<1>1. pc # "done" \/ UNCHANGED vars
    BY DEF Next, WriteFiles, Finalise, OpenOutput, AllocTable, SkipFile, BeginFile,
           CopyChunk, CopyDone, ReadChunk, CodeChunk, EndFile, FilesDone, PadChunk, PadDone,
           WriteTable, WriteCheckCode, CloseOutput
<1>2. Step
    BY Steps DEF IInv
<1>3. CASE /\ pc # "done"
           /\ \/ Failed \/ Overrun \/ Opened \/ Started \/ SkipFile \/ Begun
              \/ CopyDone \/ EndFile \/ FilesDone \/ PadDone \/ Checked \/ Closed
  <2>1. pc' # "code"
    <3>1. CASE Failed \/ Overrun \/ Closed
        BY <3>1 DEF Failed, Overrun, Closed, Abort
    <3>2. CASE Opened \/ Started \/ Begun \/ CopyDone \/ FilesDone \/ PadDone \/ Checked
        BY <3>2 DEF Opened, Started, Begun, CopyDone, FilesDone, PadDone, Checked
    <3>3. CASE SkipFile \/ EndFile
        BY <3>3, SkipIs, EndIs DEF IInv
    <3>4. QED
        BY <1>3, <3>1, <3>2, <3>3
  <2>2. QED
    BY <1>3, <2>1, OtherStepIsLess DEF DrainedInv
<1>4. ASSUME NEW n \in Nat, n > 0, Copied(n) \/ PaddedOut(n) \/ Tabled(n)
      PROVE  [IsLess(Left', Left)]_vars /\ DrainedInv'
  <2>1. pc' # "code"
    BY <1>4 DEF Copied, PaddedOut, Tabled
  <2>2. QED
    BY <1>4, <2>1, WriteIsLess DEF DrainedInv
<1>5. CASE ReadChunk /\ pc' = "code"
    BY <1>5, ReadIsLess
<1>6. CASE \E c \in 0..avail_in, e \in 0..CHUNK_SIZE, end \in BOOLEAN : Coded(c, e, end)
    BY <1>6, CodeIsLess
<1>7. CASE UNCHANGED vars
  <2>1. /\ pc' = pc /\ avail_in' = avail_in /\ bytes_in' = bytes_in
        /\ job' = job /\ i' = i
    BY <1>7 DEF vars
  <2>2. QED
    BY <1>7, <2>1, SameJob DEF DrainedInv
<1>8. QED
    BY <1>1, <1>2, <1>3, <1>4, <1>5, <1>6, <1>7, SizesAssumption DEF Step

(* zelda64_write and zelda64_write_buffer end, of every job, sound or not: *)
(* each step of write_rom leaves less to do, however little the coder      *)
(* takes and makes per call.                                               *)
THEOREM WritingEnds == Spec => []IsMeasure(Left) /\ [][IsLess(Left', Left)]_vars
<1>1. Init => FedInv /\ DrainedInv
    BY DEF Init, FedInv, DrainedInv
<1>2. IInv /\ (FedInv /\ DrainedInv) /\ [Next]_vars
          => (FedInv /\ DrainedInv)' /\ [IsLess(Left', Left)]_vars
  <2> SUFFICES ASSUME IInv, FedInv, DrainedInv, [Next]_vars
               PROVE  FedInv' /\ DrainedInv' /\ [IsLess(Left', Left)]_vars
    OBVIOUS
  <2>1. FedInv'
    BY Steps, FedKept DEF IInv
  <2>2. QED
    BY <2>1, StepIsLess
<1>3. QED
    BY <1>1, <1>2, LeftIsMeasure, Invariance, PTL DEF Spec
============================================================================
