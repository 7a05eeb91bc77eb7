# Verification of libzelda64 in TLA+

libzelda64 opens Nintendo 64 Zelda ROMs, reads the files in them and writes
new ROMs with the files compressed (Yaz0) or decompressed. This directory holds
TLA+ models of its code, the TLC configurations that check them on small
instances, and theorems checked by TLAPS for all instances.

## The system

| Component | Code | State | Operations |
|---|---|---|---|
| I/O objects | `lib/io.h`, `io_file.c`, `io_buffer.c` | a `FILE` (opened by name, or the caller's) or a buffer with its size | open, read, write, size, close; a short read is not an error, `read_exact` makes it `TRUNCATED`; a file grows, a buffer does not |
| Table search and load | `lib/rom_dma.c` | chunk offset, slot, error record, entries | `zelda64_find_dmadata`, `zelda64_read_dmadata` |
| Opening and closing | `lib/rom_open.c`, `rom.h` | the ROM: I/O object, table, CIC, allocator | `zelda64_open*`, `zelda64_close` |
| CIC and check code | `lib/rom_cic.c`, `crc32c.c` | six accumulators and an offset | `zelda64_detect_cic`, `zelda64_calculate_check_code` |
| File information | `lib/rom_stat.c` | none | `zelda64_stat`: kind, place and sizes of a file |
| Reading | `lib/rom_read.c` | coder, position in the storage | `zelda64_read_storage`, `zelda64_read_file` |
| Layouts | `lib/rom_compress.c`, `rom_decompress.c`, `layout_operation.c`, `layout_free.c` | one operation per file, the ROM it was made from, an allocator of its own | build, override, free |
| Output bound | `lib/layout_bound.c` | running maximum or sum | `zelda64_write_bound` |
| Writer | `lib/layout_write.c` | cursor, size, new table, coder, output | `zelda64_write`, `zelda64_write_buffer` |
| Words | `lib/bytes.h` | none | alignment, next power of two, byte order, rotation |
| Program | `src/zelda64.c`, `options.c`, `decompress.c` | a list of stages, two file names | parse the options, open, run each stage, close |
| Left out | `log.c`, `version.c`, `error.c` (strings), `allocator.c` (the default one) | - | formatting and output; calls of `malloc` and `free` |

A caller opens a ROM (open -> I/O object -> table -> CIC), asks for a layout,
may change operations in it, and writes it. The writer reads the input through
`zelda64_stat` and `zelda64_read_storage` of the ROM the layout points to, runs
the streaming coder of libyaz0 (an external library, not in this repository),
and goes through the I/O object of the output; the check code reads the output
back. All calls report through one error record that the caller passes in and
that the callees both set and test.

The program is sequential: there are no threads, callbacks or retries. What is
hard is elsewhere: loops over chunks whose boundaries fall anywhere, an error
record that stays set while a loop goes on, a coder that takes and produces as
much as it likes per call, placement that depends on sizes only known after
coding, passes over the output that must come in one order (files, padding,
table, check code, header), unsigned 32-bit arithmetic, and release of
everything on each of the many ways out, with ownership that changes hands on the
way; handles that a caller may use and release in any order; and `FILE`s that carry
state (position, indicators, pending output) from one call to the next. `hazards` in `PROJECT.json` lists
these at their lines.

## What makes each part correct

- *Table search and load*: the first table of the image is found wherever
  chunks end; an image is said to have none only when it has none; the entries
  are loaded whole; they are owned exactly when opening may go on.
- *Writer*: every file can be read back as it was, files never overwrite one
  another, the check code is that of the finished image, the output can be
  opened again, a buffer of the computed bound is enough, everything held is
  released on each way out, all loops end. (Reading back, opening and the bound need a
  table that stays in its place; see `TableStays` under Runs.)
- *Reader*: what is returned is the file or an error, but for a stored file that the end
  of the ROM cuts off, which is returned as far as the ROM goes; the caller's buffer is
  never overrun, the decoder is released, reading ends.
- *Check code*: the code is a function of the region and the boot code alone,
  not of how the region is read; no read goes past its end.
- *I/O objects*: each call reads, writes or measures the same bytes at the offset it
  names, whatever earlier calls left in the `FILE`; a failure of the host is
  reported; a close without an error has written everything; input and output on
  one `FILE` never follow each other directly.
- *Opening, closing, layouts*: whatever fails, nothing is leaked, released twice or
  given back to the wrong allocator; the handles behave as if there were no
  memory; indexes out of range are refused.
- *Program*: an accepted list of arguments means what it says as a whole; the
  exit status tells what happened to the files.

## Modules

`A <- B` reads "B extends or instantiates A". Every module is a translation of
the lines listed for it under `map` in `PROJECT.json`.

    DmaLookup <- DmaScan <- DmaScanProofs
                 DmaScan <- MCDmaScan
    Words <- RomFiles <- RomWriter <- MCRomWriter
             RomFiles <- RomReader <- MCRomReader
             RomFiles <- SmallRoms <- MCRomWriter, MCRomReader
             Yaz0 <- RomWriter, RomReader
             RomFiles <- RomFilesProofs <- RomReaderProofs, RomWriterProofs
             RomReader <- RomReaderProofs
             RomWriter <- RomWriterProofs
    WideSum <- CheckCode <- CheckCodeProofs
               CheckCode <- MCCheckCode
    Store <- Io <- IoProofs
             Io <- MCIo
    Handles <- Session <- SessionProofs
               Session <- MCSession
    Program <- ProgramProofs
    Program <- MCProgram
    Descent <- DmaScanProofs, CheckCodeProofs, ProgramProofs, RomFilesProofs

**DmaScan** (`rom_dma.c`). `offset`, `i` and `info` are the locals of
`zelda64_find_dmadata`; `buffer`, `loaded`, `entries` and `dmadata` those of
`zelda64_read_dmadata`. `GetSize`, `ReadChunk` and `GiveUp` are the head and the
exits of the outer loop, `SkipSlot` and `ProbeSlot` the two outcomes of its
inner one (a probe reads two more entries and leaves its error in the record),
`NextChunk` the advance; `Allocate`, `LoadBatch` and `Publish` load the table. An
image is a size and the 16-byte entry each slot holds; what is not a field of
an entry does not matter to the search. The error record is sticky as in the
code: `ReadExact` with a record that already failed stays failed.
**DmaLookup** says what that amounts to: one answer, the first table, or none
when there is none, or a failure of the store or the allocator.

**Words** (`bytes.h`): `align16` and `ceil_pow2` with their wrap-around, for a
word of `UINT32_MAX + 1` values and alignment units of `ALIGN`.

**RomFiles** (`rom_stat.c`, `rom_read.c`, `rom_compress.c`,
`rom_decompress.c`, `layout_operation.c`, `layout_bound.c`): the functions that
change no state, as operators: kind and extent of a file, what `zelda64_read_storage`
returns, the layouts, and the output bound. A ROM is its table and a
sequence of cells, each cell 8 bytes; the cell of a file is a value that says
which file it belongs to, which layer of Yaz0 it is (0 plain, 1 a stream, 2 a
stream of a stream) and its place, so that a lost, moved or overwritten cell
shows.

**Yaz0** (external): how much a call of the coder may take and produce, when it
may report the end, and what it refuses. Nothing of the format is modelled.

**RomWriter** (`layout_write.c`): one action per iteration of each loop of
`write_rom` and the functions it calls. `OpenOutput` and `CloseOutput` are the
two entry points (a file that is truncated and grows, or a buffer of fixed
size); `SkipFile`, `BeginFile`, `CopyChunk`, `ReadChunk`, `CodeChunk`, `EndFile`
are the writing loop; `FilesDone`, `PadChunk`, `PadDone`, `WriteTable` and
`WriteCheckCode` are what follows it, in the order of the code. `Abort` is the
shared way out. `CodeChunk` is one call of the coder with the write behind it;
`CallAgain` is the inner loop's condition, and what a call left of its chunk is
offered again, or replaced when the outer loop reads on. Here the check code is
an injective value of the region it covers; its computation is CheckCode's.

**RomReader** (`rom_read.c`, `zelda64_read_file`): `Stat` is everything before
the bytes are read, `ReadStored` the direct read, `ReadChunk` and `Decompress` the loop
of `decompress`. Images may be cut short: a read past the end returns less, and
that is no error.

**CheckCode** (`rom_cic.c`): `ReadBoot` and `DetectCic` name the chip, `ReadChunk`
reads the next chunk, cut to the region, `MixWord` mixes one word into the six
accumulators, `Finish` folds them. **WideSum** is what accumulators 3 and 5 are
together: a double-width sum.

**Io** (`io.h`, `io_file.c`, `io_buffer.c`): the five ways to open an object, and
each call of one. `zelda64_file_read`, `_write` and `_size` run in three steps, one
per call of the C library they make: `Start` (`clearerr`, the range of the offset),
`Seek`, and `Read`, `Write` or `Tell`. `zelda64_buffer_read`, `_write`, `_size` are one step
each, as are the three closes; `ReturnRead` is what `zelda64_io_read_exact` makes of a
short read, and of a record that already failed. The `FILE` is external: a
position, the two sticky indicators, whether it last read or wrote, and output that
reaches `disk` when the host likes, on a change of position, or on `fclose`. Every
call of it may fail, after any part of the transfer, and lose what was pending. A
caller may hand in a `FILE` that was read from before, with any indicator set.
**Store** is what the rest of the library relies on: bytes, and calls that are
independent of each other. A call fails because the host failed, with what that
may have done to the bytes, or because it asked for what the object cannot do.
The other modules use storage as Store describes it.

**Session** (`rom_open.c`, `layout_free.c`, the allocations of `rom_compress.c`,
`rom_decompress.c`, `layout_write.c`, and the index checks of `rom_dma.c` and
`layout_operation.c`): a caller and the memory behind its handles. `heap` maps
addresses to tagged blocks that hold the pointers of the structures and the
allocator they are from; the lowest free address is given out again, so that a
stale pointer meets whatever came after. Opening a ROM is `zelda64_open`, `OpenRom`,
`ReadDmadata`, `DetectCic`, one step per allocation or outcome, each with its way out;
making a layout is `AllocEntries`, `AllocLayout`; writing one is `OpenOutput`, `AllocTable`,
`WriteRom`. What the table, the CIC, the operations and the written bytes are is left
to the other modules: here they succeed or fail. The caller makes every call
it may: on handles it holds, and on a layout what reads its ROM only while that is
open. **Handles** is that interface without memory: a call gives a handle and no
error, or changes nothing and says why; an index is refused or not.

**Program** (`options.c`, `zelda64.c`, `decompress.c`): the actions up to
`EndArguments` are the branches of `parse_options`, an argument or a letter at a
time; `Open`, `RunStage`, `StagesDone`, `Close` are `main`. The library is
reduced to what a caller can tell: `Write` leaves the decompressed ROM, or fails
having left anything between nothing and a damaged file; opening the
output under the name of the input empties the input. What a list of arguments means
(`OptionsMeanWhatTheySay`) is said without a parser: every argument has a role that only
depends on the arguments before it (`Role`), the operands are the places of the file names, the
places that ask for a stage are ordered pairs of argument and letter (`Places`), and a stage's
packing and padding are those asked for last before the next stage is.

**Descent** models no code: it is the order of the measures with which the proof modules
show that the loops end (see Proofs).

**SmallRoms**, **MC...**: the instances TLC checks.

## Runs

| Run | Question | Instance |
|---|---|---|
| `dma_scan` | is the first table found, loaded and owned, for every placement of tables, near misses and candidates? does the scan implement the lookup (and so find the first table and miss none)? | two slots per chunk, two entries per batch, images of 0-7 slots with and without a ragged end, one image beyond `UINT32_MAX` |
| `dma_scan_tail` | violated: an image without a table is reported as such | lone candidates in every set of slots of up to 6 |
| `rom_writer` | do all properties of the writer hold for compressing and decompressing, with operations overridden, on ROMs cut short, with any call failing? is everything released? | 5 files, the last two of every kind (stored, compressed, deleted, empty), sizes on and off the alignment, streams shorter and longer than their file, with and without a hole; both packings, padded or not, to a file and to a buffer of exactly the bound; ROMs cut in the last files; each override of one file, the table and the two in front of it included, with every failure |
| `rom_writer_streams` | violated: a copied Yaz0 file is still one in the output | compress layouts |
| `rom_writer_bound` | violated: the output is never larger than the bound | sparse, padded |
| `rom_reader` | is what is returned the file, or of a stored one what the ROM has of it, inside the buffer, and does reading end? | the same ROMs, whole, cut short by 1, 3 or 5 cells, with larger streams and clipped entries; buffers one too small, exact and larger |
| `rom_reader_cut` | violated: the decoder is told when no more bytes come | one stream cut short anywhere |
| `check_code` | is the code that of the region, however it is read? | two-bit words, all contents of a region of 5, read 3 at a time; every shorter image; five chips |
| `program` | do arguments mean what they say, does the status? | all lists of up to 2 arguments of 27 forms, those behind `-d`, and `-d` with up to 3 options before the file names; two stages at most |
| `io` | is an object of each kind a store, whatever its `FILE` went through? is everything written that a close says is? | contents of up to 3 bytes, `LONG_MAX` = 2, reads and writes before, at and behind the end and `LONG_MAX`, empty ones too; every call of the C library failing |
| `session` | is anything leaked, freed twice, or by the wrong allocator? do the handles behave as if there were no memory? | 8 addresses, 2 ROM slots, 1 layout slot, 2 allocators, ROMs of 3 and 4 files, files and buffers, every failure |
| `session_index` | violated: an index equal to the count is out of range | the same |

**Why these bounds are enough to show something.** In `dma_scan` a table needs
three slots and a chunk holds two, so every table crosses a chunk boundary, and
seven slots leave room for two tables, or for refused candidates before, inside
and behind one. In the writer and reader a chunk is 2 or 3 cells and files and streams
are 1 to 14, so that each loop runs zero, one and several times, with a full and
a short last chunk; a table of 5 entries is written in batches of 2; the region
of the check code ends at cell 17, so that some outputs hold it and some are too
short; 5 is the smallest number of files with two behind the three that the
code treats specially, which is what overlap needs. In `check_code`
the chunk (3) is not a multiple of the window (2), so an index that counts
within the chunk shows, and sums of two-bit words overflow; the seed 3 makes
them do so at once. In `io` a file is shorter, as long and longer than the largest
offset, calls of each sort follow each other without a limit, and two bytes tell
a wrong place from a wrong value. In `session` 8 addresses hold
two ROMs from buffers (3 blocks each) with a layout (2), or a ROM from a file (4) and
one from a buffer, or a ROM with its layout and an output file being written (3), and
memory also runs out for real at each allocation; the index 3 is in range for one ROM
and not for the other. In `program` two stages stand for the eight of the code:
the list is full, has a first and a last, and a middle one would be neither.
Where the properties are also proved (below) the bounds do not matter.

**What the properties of the writer set apart.** The new table is written at the VROM address
of file 2, wherever that file was put (`layout_write.c:423`). `zelda64_layout_set_operation` may
delete, compress or decompress any file, the first three too; when file 2 is not copied, or under dense
packing the files in front of it do not fill the place they had, the table lands on other files and the
write succeeds. `FilesSurvive`, `BoundedBufferSuffices` and `ReportedSizeCovers` are stated for layouts
that keep the table in its place (`TableStays`), `TableIsFoundAgain` for those that copy the first three
files. The run holds the other layouts too: file 1 deleted under dense packing is enough for
a file to be lost, and file 2 deleted for a buffer of the computed bound to be too small. What holds of these as well is the
rest: `FinishedFilesStay` until the table is written, `CheckCodeMatches`, `NothingLeaks`, `Terminates`.

**What the property of the reader sets apart.** `ReadsTheFile` compares a compressed file with what its
stream decodes to, which takes a storage that holds all of the stream, and a stored file with the cells at its
place, as many as its VROM extent says. A stored file that the end of the ROM cuts off is returned short and
without an error (`rom_read.c:34`, `177`): of these the property says that nothing is missing but what the ROM
lacks.

**Fairness.** Every liveness property is checked under `WF_vars(Next)`: the
library and the program are single-threaded and never wait, so a step that can
be taken is taken. Nothing is assumed about which branch is taken: a coder may
produce as little as its contract allows for ever, and the writer's and the
reader's loops still end, because the contract makes progress in input,
output, or the end. `RomReader!Terminates` is stated for storage that is all in the
image; for the rest see the findings.

**Deadlock** is checked for `io` and `session`, whose callers never stop; the other
processes all end, in a final `pc`.

## What the runs found

- `dma_scan_tail`: after a probe that ends past the end of the ROM the error
  record keeps `TRUNCATED` while the search goes on; if another chunk follows,
  the search returns `TRUNCATED` instead of `NO_DMADATA` (`rom_dma.c:156`). No
  table is missed because of it (`NoneMissed`, proved).
- `rom_writer_streams`: a Yaz0 file that `zelda64_compress` copies gets a table
  entry that calls it stored (`layout_write.c:401`).
- `rom_writer_bound`: the bound of a padded sparse image leaves the padding out
  (`layout_bound.c:134`).
- `rom_reader_cut`: on a ROM that ends inside a Yaz0 file the decoder is never
  told to finish (`rom_read.c:92`).
- `session_index`: `zelda64_layout_set_operation` accepts the count as an index and
  writes behind the last entry (`layout_operation.c:40`).

Seen while modelling, and part of the models where state is concerned:

- A call with two stages always fails in the first one, which has no output name.
- A sparse write may overwrite files that have no room.
- Copying from a truncated ROM writes stale bytes and reports success.
- Reading a stored file that the end of the ROM cuts off returns what there is, without an error.
- A layout whose first three files were changed may have its table written over other files
  (`layout_write.c:423`), without an error.
- A failing close returns the size with the error set.
- `NEWS:10` names five chips for the check code; only the 6105 has one (`rom_cic.c:245`).
- The usage text of `zelda64.c:43` names `-i`, `-t`, `-p`, `-z` and `-x`, which the parser does not
  know (`options.c:263`).
- `zelda64_close` frees the table through the allocator also when there is none
  (`rom_open.c:138`): a caller's `free` must take NULL.
- A layout written after its ROM was closed reads freed memory; no document says that
  the ROM must stay open, so Session's caller keeps it open, and no property covers that use. What
  Session does cover is a layout that outlives its ROM and is changed and freed.
- `zelda64_layout_count` is declared and not defined; `zelda64_io_from_file_ro` has no caller.
- `zelda64_write_buffer` into the buffer a ROM was opened from overwrites its input, as an
  output file of the input's name does.

## Proofs

**DmaScanProofs**: for all images, chunk sizes (multiples of the entry size)
and batch sizes, with or without faults, the scan satisfies each of its
safety invariants, and implements DmaLookup.
None of the invariants is inductive. `IInv` adds where the search stands (no
table starts before the slot it has reached: `SearchInv`), what a `TRUNCATED`
left in the error record means (the image holds no table: `ErrorInv`; this is why the
sticky error hides nothing: a candidate whose probe ends past the end is in one
of the last two slots, nothing behind it has room for three entries, and nothing
before it was a table), that what was found is the first table (`FoundInv`), and
which cells of the buffer hold which entry (`LoadInv`). Two lemmas connect the
code's test to the definition of a table (`RefusedIsNoTable`,
`AcceptedIsTable`); then there is one lemma per action, and `Refinement` follows
step by step. `OpenedTableDescribesItself` follows from the published bytes and
the definition.

**IoProofs**: for every content, `LONG_MAX` and set of calls, an object of each kind
implements Store (`Refinement`), keeps the rule about input and output (`UpdateRuleKept`), has
everything on the disk after a close without an error (`ClosedWritten`), and holds its
parts exactly while it is open (`PartsHeld`). `IInv` adds to the types where a
handler stands (`Progress`: once started the indicators are clear, once positioned the
`FILE` is where the call wants it, and nothing of an earlier transfer is open) and what may
be pending (`Pending`: only a file open for writing has bytes that are not on the
disk). A change of position maps to Store's `Settle`, a transfer that breaks
off to `Fail` with the part that was put down; the lemmas about `Overlay` and `Slice` say what
a read or write of nothing is. The proof shows why the code clears the indicators
first: without it an error of the call before would be this one's.

**CheckCodeProofs**: for all widths, regions, chunk sizes and images, the
address, the loop's offset and the chunk's index agree, a chunk is the image at
its offset, and the sum halves stay words (`IInv`). From it: an image that holds the
region is never reported as cut short (`WholeImage`), and accumulators 3 and 5
implement the double-width sum (`SumIsWide`). The heart of the latter is
`WideAdd`: comparing the wrapped sum with the old one is the carry, also
when the counter itself wraps.
The fold invariant (`FoldInv`) says what all six accumulators hold after `k` words: the sum
and its carries, the exclusive-or, the rotated sum, the chained exclusive-or and the sum with the
window of the boot code, each a prefix of a fold over the region (`Mixes`). `RoundMixes` is its
step. It gives `CodeOfRegion`: however the region falls into chunks, the code is that of the
whole region; and `TypeCorrect`. Exclusive-or, powers of two and the folds are recursive functions,
so their values come first: `Induction` (a set of numbers with 0 and its successors is all of them, from
the least number left out) and `FoldExists` give each fold its equation, `XorIsWord` and
`RotationIsWord` keep words in their range. The folds are not induction over data
but over numbers, which needs a set and no operator.

**SessionProofs**: for every set of addresses, slots, allocators and table sizes, however
calls fail and in whatever order handles are made, used and released, nothing is freed
twice, through the wrong allocator or touched after it was freed (`Soundness`), between
calls everything that is taken is reached from a handle (`NoLeaks`), and the caller sees what
Handles promises (`HandlesArePromised`). Neither property is inductive: that a `free` is
right depends on nobody else pointing to the block, and that nothing leaks on who
does. `IInv` therefore gives every taken block exactly one owner (`Forest`: a handle of the
caller, the call under way, or one block that points to it) and says that what a block
points to is of the kind and from the allocator it takes it for (`Fits`). Blocks are
only added in front of owned ones or released with all they own; three lemmas about a
heap say that both keep it a forest. The entries of a layout name their ROM without
owning it, which is why a layout may outlive its ROM as a block. The theorems have one
hypothesis, `CallerStaysInside`: the caller never names the index that is equal to the
count, which `zelda64_layout_set_operation` accepts (`session_index` shows what that does).

**ProgramProofs**: for every argument list, number of stages and set of files, the parser
never leaves its argument or the array of stages (`TypeCorrect`), a step that failed decides
the exit status (`FailureStays`), and success means every stage was written and the output
holds the result (`SuccessIsTrue`). The invariant adds to the types that a second file
name follows a first one (`ParserInv`), that nothing resets a failure (`FailedInv`), and that the store
is the one the program found or that with the last stage's result (`MainInv`).
`OptionsAreMeant` proves that an accepted list means what it says, for every list. Its invariant
(`ReadInv`) relates the parser's place to the reference: the arguments before it were
understood (`UptoRole`...), what they asked for is what the stages hold, and the operands among them are the
names. The parser's place moves one place at a time (`Follows`, `Jump`, `NextIs`), so a step adds at most
one place to those before it: a new stage (`PushSays`) or a new value in the last one (`SetSays`). That each
argument has a role is again a function by induction over numbers (`FoldExists`, `RoleIs`).

**RomFilesProofs**: for every word width and alignment, `zelda64_align16` is the least
multiple not below its argument, and what it returns is smaller than the argument exactly
for the last few words, which have none (`AlignRoundsUp`); `zelda64_ceil_pow2` is the least power of two, and 0
exactly where there is none (`CeilRoundsUp`). Its lemmas say what a stat that succeeds says of the
ROM and what a read of the storage returns; both proofs below use them.

**RomReaderProofs**: for every ROM, wherever it is cut off, every chunk size and request,
and whatever the decoder takes per call, what is returned without an error is the file, a
compressed one whole and a stored one as far as the ROM holds it (`FileIsRead`; `StoredIs` is what
the direct read returns), the buffer is not overrun although it was only compared with a number from the
stream (`BufferIsEnough`), and the decoder is ended on every way out (`DecoderIsEnded`). The invariant
relates `position`, `chunk`, `taken` and `buffer`: what the decoder was given is the storage up to
the position without holes for as long as it wants more (`TakenIsStorage`, `Fed`), and what it made is the
front of the file (`BufferIsFront`).

**RomWriterProofs** builds the invariant of the writer in layers. Of every job, sound or
not: what each step holds (`ResourcesInv`), the ranges of counters and loops (`CountersInv`), the
new table's words (`TableInv`), and that nothing is written behind the check code
(`CodeInv`). From these: `TypeCorrect`, `Released` (nothing leaks on any way out) and `CodeMatches`.

The rest speaks of sound jobs, `Spec /\ IsSound(job) => ...`. `IsSound` (in RomWriter) asks:

- `HeadIsSound`: the three files the writer treats specially are stored back to back from
  address 0, each aligned and none empty, with a table of the size it says, and are copied.
- `FilesAreSound`: of each file that is written the stat succeeds or says what is missing,
  the storage holds the file or its stream as far as the ROM goes, addresses are
  aligned, a stream has at least its header, and a compressed one is no longer than libyaz0's
  `compress_bound` says.
- `SizesAreSound`: `zelda64_write_bound` succeeds, and no rounding of a size or of the whole
  wraps around the word.

Each part is needed: without the first the table or file 1 moves away from where it is looked
for, without the second there is no file to preserve, and without the third an address wraps to 0 and the output is
written over itself. It is not needed that the ROM is whole, that the store, the coder or the
allocator work, or that sizes are what any run has. TLC evaluates that every whole ROM of `rom_writer`,
compressed and decompressed, is sound (`PlainJobsAreSound`); so are most of the cut ones and of the
changed layouts, and for the others the run is what there is.

The argument: each action is first restated as what it leaves in the image and where it
may write (`Steps`). The running bound of `zelda64_write_bound` is a recursive function, which exists
by induction on the number of files. The cursor stays below it (`CursorInv`), the file at hand lies
at its place with what was written of it inside the image (`FileInv`), and so does each file that is
done (`PlacedInv`). Two files that are done do not overlap: under dense packing each starts at the
aligned end of the one before, under sparse packing because each has room at its own address. Every
write but the last two lies behind or apart from what is done: `FilesStay`. How long the
image is (`LengthInv`) gives `SizeCovers`, and that it stays below the bound (`LimitInv`) `BufferSuffices`. On top
of that: the coder was fed the storage without holes (`FedInv`), what was written of the file at
hand is the front of what belongs there (`PartInv`), every finished file lies where its entry says and
stays there through padding, table and header (`LiesInv`), and the table written so far is the table
(`TabulatedInv`). Reading the output by means of its own table then gives what reading the
input by its table gives: `FilesKept` and `TableFound`.

**The loops end.** `Terminates` is liveness under `WF_vars(Next)`, which needs ENABLED and stays
with TLC. What can be proved of it is that no behaviour takes steps for ever, and that is the half
the code's data decides: a coder that takes and makes as little as its contract allows, a last chunk that
is empty, an image that ends between two chunks. (The other half, that a step is possible until
`pc = "done"`, is only in what TLC finds of `Terminates`.) Each of the five
modules with a loop to end has a `Left`, a tuple of naturals that says what is left to do, and a theorem
`Spec => []IsMeasure(Left) /\ [][IsLess(Left', Left)]_vars`: every step that is not a stutter makes it less in the
order of dictionaries (Descent). `NoEndlessDescent` (RomFilesProofs) proves of that order, for tuples of any
length, that it has no endless descent: from some point on the first part stays the same, then the second, and so on.

- `ScanEnds`: what is left of the search or the load, of the image, of the chunk, of the table.
- `CodeEnds`: what is left of the two calls, of the region, of the chunk.
- `ProgramEnds`: what is left of the program, of the arguments, and of the letters or the stages. A
  letter's value may end its argument or be the next one: `ReadInv` says where the parser stands.
- `WritingEnds`, of every job, sound or not: the phase, the files, the step of the file, its
  storage, the output. The inner loop calls the coder again only when a full chunk came out of it, the
  outer one when it wants more; once all of the storage was taken (`FedInv`, `DrainedInv`) a call that
  makes nothing is the last one, because the coder is told to finish, or fails, because a decompressor
  refuses what ends early (`IdleCall`).
- `ReadingEnds`, likewise for `zelda64_read_file`, of requests whose storage is all in the ROM (`IsThere`, as in
  `Terminates`): of a ROM that is cut off the loop goes on with
  empty chunks and never tells the decoder that no more comes (`rom_reader_cut`).

**Assumptions.** Those the modules name, no others: sizes are naturals, chunks and batches
positive (of slots, of words), the region ends no earlier than it starts and lies behind the boot code
and the field of the check code, images are sequences of words (of entries, of bytes, of cells), the largest
word is all ones and the alignment a divisor of the word's range greater than one
(`WordsAssumption`), a ROM has a table over `0..count - 1` of entries with word fields (`IsRom`, in
`RequestsAssumption` and `JobsAssumption`), a layout has an entry for each file of its ROM and a table at least three
(`JobsAssumption`), argument lists are sequences, whose short arguments have a letter and nothing behind a `P`, whose value is
the rest of the argument (`CommandLinesAssumption`), addresses are not NULL and counts not 0
(`SessionAssumption`), and calls are well-formed. All are true of the constants in the code, and TLC evaluates them on
every run.

**Seen while proving.** `is_dmadata` (`rom_dma.c`) does not ask that the size of MAKEROM is a multiple of the
alignment, nor that BOOTCODE is not empty. The writer's dense packing rounds the end of each file up,
so that of a ROM with such a head the files behind move, or entry 1 is zeroed like one of a deleted file, and what
was written cannot be opened again: this is why `HeadIsSound` asks for both. The dense bound of an
image above 2^31 bytes that is padded is 0 with the result `OK` (`ceil_pow2` has no power to return); an
entry's own bound in the last 15 bytes of the range rounds to 0 in front of the check for overflow: this is why
`SizesAreSound` asks that neither happens.

**Only model-checked.** Liveness itself, with the fairness it assumes. What `rom_writer` claims of jobs that are not
sound, beyond types, resources and the check code.

## Not modelled

- Strings of `error.c`, `log.c` (and the verbosity counter), `version.c`:
  formatting and output.
- `allocator.c`: the default allocator calls `malloc` and `free`. Session models what an
  allocator is to the library, with two of them.
- `error.h`: the `errno` next to a result; that it is set by each failing call is POSIX.
- `crc32c.c`: a table-driven checksum of the boot code that is compared with one
  constant; CheckCode compares the boot code itself.
- Byte order: words and entries are whole.
- Logging counters, `zelda64_result_string` and the accessors that change nothing.
- libyaz0: a submodule that is not in the repository. Yaz0.tla is its contract.
- Calls that break the interface (a closed handle, a null pointer): Session's caller does
  not make them.

## Plan

Done: every module of the list above is checked; DmaScan, CheckCode, Io, Session, Program, RomFiles,
RomReader and RomWriter are proved about.

1. **Program** on top of Handles, so that its `Open` and `Write` are the session's.
2. **Words** and the CRC bit by bit against their definitions, for small widths.
