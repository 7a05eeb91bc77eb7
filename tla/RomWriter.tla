----------------------------- MODULE RomWriter -----------------------------
(***************************************************************************)
(* How libzelda64 writes a ROM (lib/layout_write.c): zelda64_write and     *)
(* zelda64_write_buffer open the output, write_rom puts every file of a    *)
(* layout where the packing says, copying it or passing it through a Yaz0  *)
(* coder in chunks, pads the image, overwrites file 2 with the new table,  *)
(* computes the check code over the result and stores it in the header.    *)
(*                                                                         *)
(* One action per iteration of each loop.  Any read, write, allocation or  *)
(* coder call may fail when Faults is TRUE; the coder (libyaz0, external)  *)
(* consumes and produces as much per call as its contract leaves open.     *)
(***************************************************************************)
EXTENDS RomFiles, Yaz0

CONSTANTS
    CHUNK_SIZE,       \* cells read, coded and written at a time
    WRITE_COUNT,      \* table entries written at a time
    BOOT_START,       \* the IPL3 boot code that names the CIC: IPL3_BOOTCODE_START
    CHECK_CODE_START, \* the region the check code covers; the boot code ends here
    CHECK_CODE_END,
    Jobs              \* what is written: input ROM, layout, options and target,
                      \* and whether the store, allocator and coder may fail

CHECK_CODE == 2       \* where the check code is stored: 0x10 bytes

ASSUME SizesAssumption ==
    /\ {CHUNK_SIZE, WRITE_COUNT} \subseteq Nat \ {0}
    /\ {BOOT_START, CHECK_CODE_START, CHECK_CODE_END} \subseteq Nat
    /\ CHECK_CODE < CHECK_CODE_START /\ CHECK_CODE_START <= CHECK_CODE_END

(* A layout has an entry for each file of its ROM, with its extent in VROM *)
(* and one of the operations; a table has at least the three files that it *)
(* is recognised by.                                                       *)
ASSUME JobsAssumption ==
    \A j \in Jobs :
        /\ IsRom(j.rom)
        /\ Count(j.rom) \in Word /\ Count(j.rom) > 2
        /\ Files(j.rom) = 0..(Count(j.rom) - 1)
        /\ DOMAIN j.layout = Files(j.rom)
        /\ \A f \in Files(j.rom) :
              /\ j.layout[f].vrom_start = j.rom.dma[f].vrom_start
              /\ j.layout[f].vrom_end = j.rom.dma[f].vrom_end
              /\ j.layout[f].operation \in Operations
        /\ j.pack \in {"SPARSE", "DENSE"} /\ j.pad \in {"NONE", "ZERO", "RAMP"}
        /\ j.target \in {"FILE", "BUFFER"} /\ j.room \in Word /\ j.faults \in BOOLEAN

Old == <<"old">>      \* what the caller's buffer held before
Ramp == <<"ramp">>
TableCell(k, half) == <<"dma", k, half>>

VARIABLES
    job,       \* [rom, layout, pack, pad, target, room, faults]
    pc,        \* the next step of the code
    error,     \* the result in the caller's error record
    image,     \* the cells of the output
    i,         \* the file the writing loop is at
    position,  \* the cursor of write_rom
    rom_size,  \* the end of the image so far
    dma,       \* the new table, entries 0 .. i-1
    bytes_in,  \* of the coder loop: cells read from the ROM
    avail_in,  \* cells of the chunk the coder has not taken
    taken,     \* the cells it has taken so far
    bytes_out, \* cells written by the loop at hand
    memory,    \* the table buffer: "none", "held" or "freed"
    stream,    \* the coder's state: "none", "open" or "ended"
    output,    \* the output: "closed" or "open"
    result     \* what the caller is told was written

vars == <<job, pc, error, image, i, position, rom_size, dma, bytes_in, avail_in,
          taken, bytes_out, memory, stream, output, result>>
placement == <<i, position, rom_size, dma>>
coding == <<bytes_in, avail_in, taken, stream>>
holding == <<memory, output, result>>

rom == job.rom
Faults == job.faults
entry == job.layout[i]
count == Count(rom)
rom_start == IF job.pack = "SPARSE" THEN entry.vrom_start ELSE position
stat == zelda64_stat(rom, i)

Init ==
    /\ job \in Jobs
    /\ pc = "open"
    /\ error = "OK"
    /\ image = <<>>
    /\ i = 0 /\ position = 0 /\ rom_size = 0
    /\ dma = [k \in {} |-> 0]
    /\ bytes_in = 0 /\ avail_in = 0 /\ taken = <<>> /\ bytes_out = 0
    /\ memory = "none" /\ stream = "none" /\ output = "closed"
    /\ result = 0

-----------------------------------------------------------------------------
(* The output store and the way out. *)

(* Mutant: a way out of write_rom that forgets the table. *)
AbortLeaks(r) ==
    /\ pc' = "done"
    /\ error' = r
    /\ stream' = IF stream = "open" THEN "ended" ELSE stream
    /\ output' = "closed"
    /\ UNCHANGED <<job, image, placement, bytes_in, avail_in, taken, bytes_out, memory, result>>

(* A failing step releases everything write_rom and its caller hold.       *)
Abort(r) ==
    /\ pc' = "done"
    /\ error' = r
    /\ memory' = IF memory = "held" THEN "freed" ELSE memory
    /\ stream' = IF stream = "open" THEN "ended" ELSE stream
    /\ output' = "closed"
    /\ UNCHANGED <<job, image, placement, bytes_in, avail_in, taken, bytes_out, result>>

(* The image with the cells c written at a; a file grows, with zeros in    *)
(* between, a buffer does not.                                             *)
Overlay(a, c) ==
    LET gap == [k \in 1..(a - Len(image)) |-> Zero]
    IN IF c = <<>> THEN image
       ELSE SubSeq(image \o gap, 1, a) \o c \o SubSeq(image, a + Len(c) + 1, Len(image))

Fits(a, n) == job.target = "FILE" \/ a + n <= Len(image)

(* zelda64_io_write of the cells c at a, and Then when it succeeds. *)
Write(a, c, Then) ==
    \/ /\ Fits(a, Len(c))
       /\ image' = Overlay(a, c)
       /\ Then
    \/ ~Fits(a, Len(c)) /\ Abort("OUT_OF_RANGE")
    \/ Faults /\ job.target = "FILE" /\ Abort("ERRNO")

-----------------------------------------------------------------------------
(* zelda64_write and zelda64_write_buffer up to the loop. *)

OpenOutput ==
    /\ pc = "open"
    /\ \/ /\ pc' = "alloc"
          /\ output' = "open"
          /\ image' = IF job.target = "FILE" THEN <<>> ELSE [k \in 1..job.room |-> Old]
          /\ UNCHANGED <<job, error, placement, coding, bytes_out, memory, result>>
       \/ Faults /\ job.target = "FILE" /\ Abort("ERRNO")
       \/ Faults /\ Abort("MEMORY_ERROR")

AllocTable ==
    /\ pc = "alloc"
    /\ \/ /\ pc' = "file"
          /\ memory' = "held"
          /\ UNCHANGED <<job, error, image, placement, coding, bytes_out, output, result>>
       \/ Faults /\ Abort("MEMORY_ERROR")

-----------------------------------------------------------------------------
(* The writing loop. *)

AddEntry(e) ==
    /\ dma' = [k \in 0..i |-> IF k < i THEN dma[k] ELSE e]
    /\ i' = i + 1

(* Deleted and empty files take no room. *)
SkipFile ==
    /\ pc = "file"
    /\ i < count
    /\ \/ /\ entry.operation = "DELETE"
          /\ AddEntry([vrom_start |-> entry.vrom_start, vrom_end |-> entry.vrom_end,
                       rom_start |-> UINT32_MAX, rom_end |-> UINT32_MAX])
       \/ /\ entry.operation # "DELETE"
          /\ entry.vrom_start = entry.vrom_end
          /\ AddEntry([vrom_start |-> 0, vrom_end |-> 0, rom_start |-> 0, rom_end |-> 0])
    /\ UNCHANGED <<job, pc, error, image, position, rom_size, coding, bytes_out, holding>>

CoderError ==
    IF entry.operation = "COMPRESS" THEN "COMPRESS_ERROR" ELSE "DECOMPRESS_ERROR"

(* The head of copy_rom_file, compress_rom_file and decompress_rom_file. *)
BeginFile ==
    /\ pc = "file"
    /\ i < count
    /\ ~Skipped(entry)
    /\ \/ /\ stat.result # "OK"
          /\ Abort(stat.result)
       \/ /\ stat.result = "OK"
          /\ bytes_in' = 0 /\ avail_in' = 0 /\ taken' = <<>> /\ bytes_out' = 0
          /\ \/ /\ entry.operation = "COPY"
                /\ pc' = "copy"
                /\ UNCHANGED stream
             \/ /\ entry.operation # "COPY"
                /\ pc' = IF stat.file_size = 0 THEN "entry" ELSE "read"
                /\ stream' = IF stat.file_size = 0 THEN stream ELSE "open"
          /\ UNCHANGED <<job, error, image, placement, holding>>
       \/ /\ Faults
          /\ zelda64_dmadata_kind(rom.dma[i]) = "COMPRESSED"
          /\ Abort("ERRNO")
       \/ /\ Faults
          /\ entry.operation # "COPY"
          /\ Abort(CoderError)

(* One round of copy_rom_file: however many bytes were read, a full chunk  *)
(* is written.                                                             *)
CopyChunk ==
    LET left == stat.size - bytes_out
        have == IF left < CHUNK_SIZE THEN left ELSE CHUNK_SIZE
    IN /\ pc = "copy"
       /\ left > 0
       /\ \/ Write(rom_start + bytes_out, ChunkAt(rom, stat.offset + bytes_out, have),
                   /\ bytes_out' = bytes_out + have
                   /\ UNCHANGED <<job, pc, error, placement, coding, holding>>)
          \/ Faults /\ Abort("ERRNO")

CopyDone ==
    /\ pc = "copy"
    /\ bytes_out >= stat.size
    /\ pc' = "entry"
    /\ UNCHANGED <<job, error, image, placement, coding, bytes_out, holding>>

(* Mutant: the read is not limited to the chunk. *)
ReadWhole ==
    /\ pc = "read"
    /\ avail_in' = stat.size - bytes_in
    /\ bytes_in' = stat.size
    /\ pc' = "code"
    /\ UNCHANGED <<job, error, image, placement, taken, stream, bytes_out, holding>>

(* The outer coder loop: the next chunk replaces what the coder was given. *)
ReadChunk ==
    LET left == stat.size - bytes_in
        want == IF left < CHUNK_SIZE THEN left ELSE CHUNK_SIZE
    IN /\ pc = "read"
       /\ \/ /\ avail_in' = want
             /\ bytes_in' = bytes_in + want
             /\ pc' = "code"
             /\ UNCHANGED <<job, error, image, placement, taken, stream, bytes_out, holding>>
          \/ Faults /\ Abort("ERRNO")

Finish == bytes_in = stat.size     \* YAZ0_FINISH rather than YAZ0_NO_FLUSH

(* What the coder is given and makes of it: the storage and its stream, or *)
(* the stream and its file.  A stored file is no stream.                   *)
form == IF zelda64_dmadata_kind(rom.dma[i]) = "STORED" THEN 0 ELSE 1
Stream ==
    IF entry.operation = "COMPRESS"
    THEN [compress |-> TRUE, in |-> ChunkAt(rom, stat.offset, stat.size),
          out |-> Content(rom, i, form + 1)]
    ELSE [compress |-> FALSE, in |-> IF form = 0 THEN <<Garbage>> ELSE Content(rom, i, 1),
          out |-> Content(rom, i, 0)]

-----------------------------------------------------------------------------
(* The inner coder loop: one call and the write of what it produced. *)

(* Mutant: no inner loop, what the coder left of the chunk is dropped. *)
CallOnce(c, e) == FALSE

CallAgain(c, e) == e = CHUNK_SIZE /\ c # avail_in

CodeChunk ==
    LET s == Stream
        chunk == ChunkAt(rom, stat.offset + bytes_in - avail_in, avail_in)
    IN /\ pc = "code"
       /\ \/ \E c \in 0..avail_in, e \in 0..CHUNK_SIZE, end \in BOOLEAN :
                LET all == taken \o Prefix(chunk, c)
                    done == end /\ ~CallAgain(c, e)
                IN /\ MayCode(s, taken, bytes_out, chunk, CHUNK_SIZE, Finish, c, e, end)
                   /\ ~Malformed(s, taken, chunk, Finish, c)
                   /\ Write(rom_start + bytes_out, Produced(s, all, bytes_out, e),
                         /\ taken' = all
                         /\ avail_in' = avail_in - c
                         /\ bytes_out' = bytes_out + e
                         /\ pc' = IF CallAgain(c, e) THEN "code"
                                  ELSE IF done THEN "entry" ELSE "read"
                         /\ stream' = IF done THEN "ended" ELSE stream
                         /\ UNCHANGED <<job, error, placement, bytes_in, holding>>)
          \/ /\ Faults \/ \E c \in 0..avail_in : Malformed(s, taken, chunk, Finish, c)
             /\ Abort(CoderError)

-----------------------------------------------------------------------------
(* The end of the writing loop's body. *)

(* Mutant: the end of a file is rounded down. *)
EndDown == (rom_start + align_down(bytes_out)) % WORD

(* Where the file ends: a 32-bit sum. *)
End == (rom_start + zelda64_align16(bytes_out)) % WORD

(* Mutant: the entry names the cursor, not the address written to. *)
EndFileAtCursor ==
    /\ pc = "entry"
    /\ AddEntry([vrom_start |-> entry.vrom_start, vrom_end |-> entry.vrom_end,
                 rom_start |-> position,
                 rom_end |-> IF entry.operation = "COMPRESS" THEN End ELSE 0])
    /\ position' = End
    /\ rom_size' = IF End > rom_size THEN End ELSE rom_size
    /\ pc' = "file"
    /\ UNCHANGED <<job, error, image, coding, bytes_out, holding>>

EndFile ==
    /\ pc = "entry"
    /\ AddEntry([vrom_start |-> entry.vrom_start, vrom_end |-> entry.vrom_end,
                 rom_start |-> rom_start,
                 rom_end |-> IF entry.operation = "COMPRESS" THEN End ELSE 0])
    /\ position' = End
    /\ rom_size' = IF End > rom_size THEN End ELSE rom_size
    /\ pc' = "file"
    /\ UNCHANGED <<job, error, image, coding, bytes_out, holding>>

FilesDone ==
    /\ pc = "file"
    /\ i >= count
    /\ bytes_out' = 0
    /\ pc' = IF job.pad = "NONE" THEN "table" ELSE "pad"
    /\ UNCHANGED <<job, error, image, placement, coding, holding>>

-----------------------------------------------------------------------------
(* pad_file, write_dmadata and the check code. *)

(* Mutant: the count of padding written is replaced, not added to. *)
PadChunkStalls ==
    LET left == zelda64_ceil_pow2(rom_size) - (rom_size + bytes_out)
        want == IF left < CHUNK_SIZE THEN left ELSE CHUNK_SIZE
    IN /\ pc = "pad"
       /\ left > 0
       /\ Write(rom_size + bytes_out, [k \in 1..want |-> Zero],
                /\ bytes_out' = want
                /\ UNCHANGED <<job, pc, error, placement, coding, holding>>)

PadChunk ==
    LET left == zelda64_ceil_pow2(rom_size) - (rom_size + bytes_out)
        want == IF left < CHUNK_SIZE THEN left ELSE CHUNK_SIZE
    IN /\ pc = "pad"
       /\ left > 0
       /\ Write(rom_size + bytes_out,
                [k \in 1..want |-> IF job.pad = "RAMP" THEN Ramp ELSE Zero],
                /\ bytes_out' = bytes_out + want
                /\ UNCHANGED <<job, pc, error, placement, coding, holding>>)

(* Mutant: the size reported leaves the padding out. *)
PadUncounted ==
    /\ pc = "pad"
    /\ rom_size + bytes_out >= zelda64_ceil_pow2(rom_size)
    /\ bytes_out' = 0
    /\ pc' = "table"
    /\ UNCHANGED <<job, error, image, placement, coding, holding>>

PadDone ==
    /\ pc = "pad"
    /\ rom_size + bytes_out >= zelda64_ceil_pow2(rom_size)
    /\ rom_size' = rom_size + bytes_out
    /\ bytes_out' = 0
    /\ pc' = "table"
    /\ UNCHANGED <<job, error, image, i, position, dma, coding, holding>>

(* Mutant: the offset advances by entries where it should by bytes. *)
WriteTableShort ==
    LET left == count - bytes_out
        have == IF left < WRITE_COUNT THEN left ELSE WRITE_COUNT
    IN /\ pc = "table"
       /\ left > 0
       /\ Write(dma[2].vrom_start + bytes_out,
                [k \in 1..(have * ENTRY_CELLS) |->
                    TableCell(bytes_out + (k - 1) \div ENTRY_CELLS, (k - 1) % ENTRY_CELLS)],
                /\ bytes_out' = bytes_out + have
                /\ pc' = IF have = left THEN "check" ELSE "table"
                /\ UNCHANGED <<job, error, placement, coding, holding>>)

(* A batch of entries from number bytes_out on, at the address of file 2.  *)
WriteTable ==
    LET left == count - bytes_out
        have == IF left < WRITE_COUNT THEN left ELSE WRITE_COUNT
    IN /\ pc = "table"
       /\ left > 0
       /\ Write(dma[2].vrom_start + bytes_out * ENTRY_CELLS,
                [k \in 1..(have * ENTRY_CELLS) |->
                    TableCell(bytes_out + (k - 1) \div ENTRY_CELLS, (k - 1) % ENTRY_CELLS)],
                /\ bytes_out' = bytes_out + have
                /\ pc' = IF have = left THEN "check" ELSE "table"
                /\ UNCHANGED <<job, error, placement, coding, holding>>)

Region(cells, from, to) == SubSeq(cells, from + 1, to)

(* The check code of an image, as a value that differs for any two images  *)
(* that differ where the code covers them.                                 *)
CheckCode(cells) == <<"check", Region(cells, CHECK_CODE_START, CHECK_CODE_END)>>

(* zelda64_calculate_check_code: the boot code must still name the CIC the *)
(* input was opened with, and the whole region must exist.                 *)
CheckCodeResult ==
    IF dma[0].vrom_end - dma[0].vrom_start < CHECK_CODE_START THEN "INVALID_ROM"
    ELSE IF Len(image) < CHECK_CODE_START THEN "TRUNCATED"
    ELSE IF Region(image, BOOT_START, CHECK_CODE_START)
              # Region(rom.cells, BOOT_START, CHECK_CODE_START) THEN "UNSUPPORTED_CIC"
    ELSE IF Len(image) < CHECK_CODE_END THEN "TRUNCATED" ELSE "OK"

(* Mutant: the check code of the ROM read from. *)
WriteOldCheckCode ==
    /\ pc = "check"
    /\ \/ /\ CheckCodeResult = "OK"
          /\ Write(CHECK_CODE, <<rom.cells[CHECK_CODE + 1]>>,
                /\ pc' = "close"
                /\ memory' = "freed"
                /\ UNCHANGED <<job, error, placement, coding, bytes_out, output, result>>)
       \/ CheckCodeResult # "OK" /\ Abort(CheckCodeResult)

WriteCheckCode ==
    /\ pc = "check"
    /\ \/ /\ CheckCodeResult = "OK"
          /\ Write(CHECK_CODE, <<CheckCode(image)>>,
                /\ pc' = "close"
                /\ memory' = "freed"
                /\ UNCHANGED <<job, error, placement, coding, bytes_out, output, result>>)
       \/ CheckCodeResult # "OK" /\ Abort(CheckCodeResult)
       \/ Faults /\ job.target = "FILE" /\ Abort("ERRNO")

(* Closing may fail; the size is returned all the same. *)
CloseOutput ==
    /\ pc = "close"
    /\ pc' = "done"
    /\ output' = "closed"
    /\ result' = rom_size
    /\ \/ UNCHANGED error
       \/ Faults /\ job.target = "FILE" /\ error' = "ERRNO"
    /\ UNCHANGED <<job, image, placement, coding, bytes_out, memory>>

WriteFiles ==
    SkipFile \/ BeginFile \/ CopyChunk \/ CopyDone \/ ReadChunk \/ CodeChunk \/ EndFile
Finalise == FilesDone \/ PadChunk \/ PadDone \/ WriteTable \/ WriteCheckCode
Next == OpenOutput \/ AllocTable \/ WriteFiles \/ Finalise \/ CloseOutput

Spec == Init /\ [][Next]_vars

(* One thread runs the loops; the coder's contract makes each call of it   *)
(* return.                                                                 *)
FairSpec == Spec /\ WF_vars(Next)

-----------------------------------------------------------------------------
(* What the properties speak about. *)

Succeeded == pc = "done" /\ error = "OK"

(* The written ROM, as the library would see it on opening it. *)
Output == [rom EXCEPT !.dma = dma, !.cells = image]

IsWritten(f) == ~Skipped(job.layout[f])

(* The room file f takes in the output. *)
StoredSize(f) ==
    CASE job.layout[f].operation = "COPY" -> zelda64_stat(rom, f).size
      [] job.layout[f].operation = "DECOMPRESS" -> zelda64_stat(rom, f).file_size
      [] OTHER -> rom.packed[f]

Occupied(f) == dma[f].rom_start .. (dma[f].rom_start + StoredSize(f) - 1)
Finished == {f \in DOMAIN dma : IsWritten(f)}

(* Is all of file f's storage in the ROM?  Of a truncated ROM the writer   *)
(* pads what is missing with whatever its chunk holds.                     *)
IsWhole(f) ==
    LET st == zelda64_stat(rom, f) IN st.offset + st.size <= Len(rom.cells)

(* Every file has room at its own address: its successor in VROM starts    *)
(* behind what is stored of it.                                            *)
RoomInPlace ==
    \A f, g \in {h \in Files(rom) : IsWritten(h)} :
        f # g /\ job.layout[f].vrom_start <= job.layout[g].vrom_start =>
            job.layout[f].vrom_start + StoredSize(f) <= job.layout[g].vrom_start

(* The Yaz0 streams the layout would copy, and those it would compress a   *)
(* second time: their new entries are one layer short.                     *)
CopiedStreams ==
    {f \in Files(rom) : /\ job.layout[f].operation = "COPY"
                        /\ zelda64_dmadata_kind(rom.dma[f]) = "COMPRESSED"}
PackedTwice ==
    {f \in Files(rom) : /\ job.layout[f].operation = "COMPRESS"
                        /\ zelda64_dmadata_kind(rom.dma[f]) = "COMPRESSED"}

Bound == zelda64_write_bound(rom, job.layout, job.pack, job.pad)

(* The jobs that are promised to go well.  The code checks only part of    *)
(* it: here are the first three files as zelda64_find_dmadata asks for     *)
(* them, copied, and of sizes that dense packing leaves in their place.    *)
HeadIsSound(j) ==
    LET e == j.rom.dma
    IN /\ e[0].vrom_start = 0
       /\ \A f \in 0..2 : /\ j.layout[f].operation = "COPY"
                          /\ e[f].rom_end = 0
                          /\ e[f].vrom_start < e[f].vrom_end
       /\ \A f \in 0..1 : /\ e[f].vrom_end = e[f + 1].vrom_start
                          /\ e[f].vrom_end % ALIGN = 0
       /\ e[2].vrom_end - e[2].vrom_start = Count(j.rom) * ENTRY_CELLS

(* The new table goes to the VROM address of file 2, wherever that file    *)
(* was put (layout_write.c:423).  It is there when the file is copied and, *)
(* under dense packing, no file in front of it changes size or leaves a    *)
(* gap: otherwise the table is written over whatever lies there.           *)
TableStays ==
    /\ job.layout[2].operation = "COPY"
    /\ job.pack = "DENSE" => HeadIsSound(job)

(* The storage of a file holds the file, or its stream, as far as the ROM  *)
(* goes, and the table tells the size of the file.                         *)
StorageIsSound(r, f) ==
    LET st == zelda64_stat(r, f)
        content == Content(r, f, IF zelda64_dmadata_kind(r.dma[f]) = "STORED" THEN 0 ELSE 1)
    IN /\ r.plain[f] = r.dma[f].vrom_end - r.dma[f].vrom_start
       /\ Len(content) <= st.size
       /\ \A k \in 1..Len(content) :
             st.offset + k <= Len(r.cells) => r.cells[st.offset + k] = content[k]

(* That of every file that is written, and what the coder promises of it.  *)
FilesAreSound(j) ==
    \A f \in Files(j.rom) : ~Skipped(j.layout[f]) =>
        LET st == zelda64_stat(j.rom, f)
        IN /\ st.result \in {"OK", "DELETED", "TRUNCATED"}
           /\ st.result = "OK" => StorageIsSound(j.rom, f)
           /\ j.layout[f].vrom_start % ALIGN = 0
           /\ j.rom.packed[f] >= HEADER
           /\ st.result = "OK" /\ j.layout[f].operation = "COMPRESS" =>
                 j.rom.packed[f] <= yaz0_compress_bound(st.size)

(* zelda64_write_bound goes well, and none of its roundings wraps.         *)
SizesAreSound(j) ==
    LET all == zelda64_write_bound(j.rom, j.layout, j.pack, "NONE")
    IN /\ all.result = "OK"
       /\ j.pad # "NONE" => \E p \in Word : all.bound <= p /\ IsPow2(p)
       /\ \A f \in Files(j.rom) : ~Skipped(j.layout[f]) =>
             zelda64_layout_entry_bound(j.rom, j.layout, f).bound + ALIGN <= WORD

IsSound(j) == HeadIsSound(j) /\ FilesAreSound(j) /\ SizesAreSound(j)

-----------------------------------------------------------------------------
(* Properties. *)

(* Every variable of write_rom keeps its type. *)
TypeOK ==
    /\ pc \in {"open", "alloc", "file", "copy", "read", "code", "entry", "pad",
               "table", "check", "close", "done"}
    /\ {i, position, rom_size, bytes_in, avail_in, bytes_out, result} \subseteq Word
    /\ i <= count
    /\ DOMAIN dma = 0..(i - 1)
    /\ avail_in <= CHUNK_SIZE
    /\ memory \in {"none", "held", "freed"}
    /\ stream \in {"none", "open", "ended"}
    /\ output \in {"closed", "open"}

(* Rewriting a ROM loses no file: what zelda64_read_file returns for a     *)
(* file of the output is what it returns for that file of the input, for   *)
(* every mix of copied, compressed and decompressed files that leaves the  *)
(* table in its place (TableStays); when the ROM is truncated, the files   *)
(* in front of the cut survive all the same.  Set apart are files without  *)
(* room at their VROM address under sparse packing, Yaz0 streams copied    *)
(* (see StreamsKeepTheirFormat) or compressed again, and the two files the *)
(* writer itself changes, MAKEROM and the table.                           *)
FilesSurvive ==
    Succeeded /\ TableStays /\ (job.pack = "SPARSE" => RoomInPlace) =>
        \A f \in Files(rom) \ ({0, 2} \cup CopiedStreams \cup PackedTwice) :
            IsWritten(f) /\ IsWhole(f) =>
                zelda64_read_file(Output, f) = zelda64_read_file(rom, f)

(* The check code in the header is that of the image as it was left, with  *)
(* its new table and padding.                                              *)
CheckCodeMatches ==
    Succeeded => image[CHECK_CODE + 1] = CheckCode(image)

(* The output can be opened again: the whole new table lies where its own  *)
(* entry 2 says it does, and its first three entries are the contiguous,   *)
(* uncompressed files is_dmadata asks for.                                 *)
TableIsFoundAgain ==
    Succeeded /\ (\A f \in 0..2 : job.layout[f].operation = "COPY") =>
        /\ \A k \in 0..(count - 1), half \in 0..1 :
              image[dma[2].rom_start + k * ENTRY_CELLS + half + 1] = TableCell(k, half)
        /\ dma[2].vrom_end - dma[2].rom_start = count * ENTRY_CELLS
        /\ \A f \in 1..2 : /\ dma[f].vrom_start = dma[f - 1].vrom_end
                           /\ dma[f].rom_start = dma[f - 1].vrom_end
                           /\ dma[f].rom_end = 0

(* Writing a file or the padding never touches a file already written,     *)
(* whatever the coder emits and however the image is packed.               *)
FinishedFilesStay ==
    [][pc \notin {"table", "check"} /\ image' # image
         /\ (job.pack = "SPARSE" => RoomInPlace) =>
          \A f \in Finished : \A c \in Occupied(f) : image'[c + 1] = image[c + 1]]_vars

(* A buffer of the size zelda64_write_bound returned is never overrun.     *)
(* Sparse packing leaves padding out of the bound (see BoundHolds), and a  *)
(* table that does not stay in its place is not counted where it goes.     *)
BoundedBufferSuffices ==
    /\ pc = "done" /\ job.target = "BUFFER" /\ TableStays
    /\ Bound.result = "OK" /\ job.room >= Bound.bound
    /\ job.pack = "SPARSE" => job.pad = "NONE"
    => error # "OUT_OF_RANGE" /\ result <= Bound.bound

(* The size reported covers the image up to its last alignment unit, but   *)
(* for a table written behind all that was counted.                        *)
ReportedSizeCovers ==
    Succeeded /\ job.target = "FILE" /\ TableStays =>
        Len(image) <= result /\ result - Len(image) < ALIGN

(* However writing ends, the table is freed, a coder that was started is   *)
(* ended and the output is closed; none is released before its last use.   *)
NothingLeaks ==
    /\ pc = "done" => memory # "held" /\ stream # "open" /\ output = "closed"
    /\ pc \in {"copy", "read", "code", "pad", "table", "check"} =>
          memory = "held" /\ output = "open"
    /\ pc \in {"read", "code"} => stream = "open"

(* Every loop ends. *)
Terminates == <>(pc = "done")

(* zelda64.h says a stat's method is "What is stored in the ROM" and       *)
(* rom_compress.c copies files that are compressed already: they are still *)
(* the same files, and still Yaz0 streams, in the output.                  *)
StreamsKeepTheirFormat ==
    Succeeded => \A f \in CopiedStreams :
        zelda64_dmadata_kind(dma[f]) = zelda64_dmadata_kind(rom.dma[f])

(* zelda64.h says zelda64_write_bound is "the maximum possible output size *)
(* in bytes for the layout".                                               *)
BoundHolds ==
    Succeeded /\ Bound.result = "OK" => result <= Bound.bound
=============================================================================
