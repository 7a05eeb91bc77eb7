------------------------------ MODULE DmaScan ------------------------------
(***************************************************************************)
(* How libzelda64 finds and loads the DMADATA file table of a ROM          *)
(* (lib/rom_dma.c), one action per step of the two loops: the image is     *)
(* read in chunks, every 16-byte slot of a chunk is tried as the first     *)
(* entry (MAKEROM) of a table, and a candidate is confirmed by a second    *)
(* read of the two entries behind it.  The table is then loaded in batches *)
(* into memory of the caller's allocator.                                  *)
(*                                                                         *)
(* One error record is threaded through every read and                     *)
(* zelda64_io_read_exact (lib/io.h) fails on an error that was already     *)
(* there, so an error that is not cleared sticks; the model keeps that.    *)
(* Addresses are byte addresses; a slot of the image is one 16-byte entry. *)
(***************************************************************************)
EXTENDS Integers

CONSTANTS
    CHUNK_SIZE,   \* bytes read per step of the search
    READ_COUNT,   \* entries read per step of the load
    UINT32_MAX,   \* the largest ROM size the format can describe
    Roms,         \* the ROM images the model is started with
    Faults        \* may the store or the allocator fail?

ENTRY == 16       \* ZELDA64_DMA_ENTRY_SIZE

Entries == [vrom_start: 0..UINT32_MAX, vrom_end: 0..UINT32_MAX,
            rom_start: 0..UINT32_MAX, rom_end: 0..UINT32_MAX]

(* An image: its size in bytes and the entry each whole slot reads as.     *)
IsRom(r) ==
    /\ r = [size |-> r.size, slot |-> r.slot]
    /\ r.size \in Nat
    /\ r.slot \in [0..((r.size \div ENTRY) - 1) -> Entries]

ASSUME ChunkAssumption == CHUNK_SIZE \in Nat \ {0} /\ CHUNK_SIZE % ENTRY = 0
ASSUME ReadCountAssumption == READ_COUNT \in Nat \ {0}
ASSUME WordAssumption == UINT32_MAX \in Nat
ASSUME RomsAssumption == \A r \in Roms : IsRom(r)
ASSUME FaultsAssumption == Faults \in BOOLEAN

VARIABLES
    pc,       \* the next step of the code
    rom,      \* the image behind the zelda64_io
    error,    \* the result held by the caller's zelda64_error
    offset,   \* start of the chunk in memory
    i,        \* byte offset of the slot within the chunk
    info,     \* struct zelda64_dmadata_info of the table found
    buffer,   \* the allocation that receives the entries
    loaded,   \* the i of the loading loop: entries loaded so far
    entries,  \* the cells of buffer written so far
    dmadata   \* rom->dmadata, what the opened ROM publishes

vars == <<pc, rom, error, offset, i, info, buffer, loaded, entries, dmadata>>
search == <<offset, i, info>>
memory == <<buffer, loaded, entries, dmadata>>

NoInfo == [offset |-> 0, size |-> 0, count |-> 0]
NoEntries == [k \in {} |-> {}]

Init ==
    /\ pc = "size"
    /\ rom \in Roms
    /\ error = "OK"
    /\ offset = 0
    /\ i = 0
    /\ info = NoInfo
    /\ buffer = "null"
    /\ loaded = 0
    /\ entries = NoEntries
    /\ dmadata = "null"

-----------------------------------------------------------------------------
(* The store. *)

(* The entry at address a. *)
EntryAt(a) == rom.slot[a \div ENTRY]

(* The results zelda64_io_read_exact can leave after reading n bytes at a: *)
(* a failure of the store, the error that was already there, or whether    *)
(* all n bytes exist.                                                      *)
ReadExact(a, n) ==
    {IF error # "OK" THEN error
     ELSE IF a + n <= rom.size THEN "OK" ELSE "TRUNCATED"}
    \cup (IF Faults THEN {"ERRNO"} ELSE {})

Want == IF rom.size - offset < CHUNK_SIZE THEN rom.size - offset ELSE CHUNK_SIZE
Candidate == offset + i

-----------------------------------------------------------------------------
(* The signature of a table. *)

can_be_makerom(e) ==
    /\ e.vrom_start = 0
    /\ e.vrom_end # 0
    /\ e.rom_start = 0
    /\ e.rom_end = 0

(* Mutant: any rom_end is taken for a file stored uncompressed. *)
FollowsPacked(e, prev) ==
    /\ e.vrom_start = prev.vrom_end
    /\ e.rom_start = prev.vrom_end

Follows(e, prev) ==
    /\ e.vrom_start = prev.vrom_end
    /\ e.rom_start = prev.vrom_end
    /\ e.rom_end = 0

(* Mutant: the table need not fit the image. *)
is_dmadata_unbounded(e0, e1, e2, candidate) ==
    /\ Follows(e1, e0)
    /\ Follows(e2, e1)
    /\ e1.vrom_end >= e1.vrom_start
    /\ e2.vrom_end > e2.vrom_start
    /\ e2.vrom_start = candidate
    /\ e2.vrom_end - e2.vrom_start >= 3 * ENTRY
    /\ (e2.vrom_end - e2.vrom_start) % ENTRY = 0

is_dmadata(e0, e1, e2, candidate) ==
    /\ Follows(e1, e0)
    /\ Follows(e2, e1)
    /\ e1.vrom_end >= e1.vrom_start
    /\ e2.vrom_end <= rom.size
    /\ e2.vrom_end > e2.vrom_start
    /\ e2.vrom_start = candidate
    /\ e2.vrom_end - e2.vrom_start >= 3 * ENTRY
    /\ (e2.vrom_end - e2.vrom_start) % ENTRY = 0

InfoOf(e2, candidate) ==
    LET span == e2.vrom_end - e2.vrom_start
    IN [offset |-> candidate, size |-> span, count |-> span \div ENTRY]

-----------------------------------------------------------------------------
(* zelda64_find_dmadata. *)

GetSize ==
    /\ pc = "size"
    /\ \/ /\ rom.size <= UINT32_MAX
          /\ pc' = "chunk"
          /\ UNCHANGED error
       \/ /\ rom.size > UINT32_MAX
          /\ pc' = "done"
          /\ error' = "OUT_OF_RANGE"
       \/ /\ Faults
          /\ pc' = "done"
          /\ error' = "ERRNO"
    /\ UNCHANGED <<rom, search, memory>>

ReadChunk ==
    /\ pc = "chunk"
    /\ offset < rom.size
    /\ error' \in ReadExact(offset, Want)
    /\ pc' = IF error' = "OK" THEN "slot" ELSE "done"
    /\ i' = 0
    /\ UNCHANGED <<rom, offset, info, memory>>

GiveUp ==
    /\ pc = "chunk"
    /\ offset >= rom.size
    /\ pc' = "done"
    /\ error' = "NO_DMADATA"
    /\ UNCHANGED <<rom, search, memory>>

(* Mutant: the last slot of every chunk is skipped. *)
SlotInsideChunk == i + ENTRY < Want

SlotInChunk == i + ENTRY <= Want

SkipSlot ==
    /\ pc = "slot"
    /\ SlotInChunk
    /\ ~can_be_makerom(EntryAt(Candidate))
    /\ i' = i + ENTRY
    /\ UNCHANGED <<pc, rom, error, offset, info, memory>>

(* The error of a read that ran past the end stays behind when the loop    *)
(* continues.                                                              *)
ProbeSlot ==
    /\ pc = "slot"
    /\ SlotInChunk
    /\ can_be_makerom(EntryAt(Candidate))
    /\ error' \in ReadExact(Candidate + ENTRY, 2 * ENTRY)
    /\ LET e1 == EntryAt(Candidate + ENTRY)
           e2 == EntryAt(Candidate + 2 * ENTRY)
       IN \/ /\ error' \notin {"OK", "TRUNCATED"}
             /\ pc' = "done"
             /\ UNCHANGED <<i, info>>
          \/ /\ error' = "OK"
             /\ is_dmadata(EntryAt(Candidate), e1, e2, Candidate)
             /\ pc' = "alloc"
             /\ info' = InfoOf(e2, Candidate)
             /\ UNCHANGED i
          \/ /\ \/ error' = "TRUNCATED"
                \/ /\ error' = "OK"
                   /\ ~is_dmadata(EntryAt(Candidate), e1, e2, Candidate)
             /\ i' = i + ENTRY
             /\ UNCHANGED <<pc, info>>
    /\ UNCHANGED <<rom, offset, memory>>

(* Mutants: the search always advances by a full chunk; it never advances.  *)
NextFullChunk ==
    /\ pc = "slot"
    /\ ~SlotInChunk
    /\ offset' = offset + CHUNK_SIZE
    /\ pc' = "chunk"
    /\ UNCHANGED <<rom, error, i, info, memory>>

SameChunk ==
    /\ pc = "slot"
    /\ ~SlotInChunk
    /\ pc' = "chunk"
    /\ UNCHANGED <<rom, error, search, memory>>

NextChunk ==
    /\ pc = "slot"
    /\ ~SlotInChunk
    /\ offset' = offset + Want
    /\ pc' = "chunk"
    /\ UNCHANGED <<rom, error, i, info, memory>>

-----------------------------------------------------------------------------
(* zelda64_read_dmadata, once the table is found. *)

Allocate ==
    /\ pc = "alloc"
    /\ \/ /\ pc' = "load"
          /\ buffer' = "held"
          /\ UNCHANGED error
       \/ /\ Faults
          /\ pc' = "done"
          /\ error' = "MEMORY_ERROR"
          /\ UNCHANGED buffer
    /\ UNCHANGED <<rom, search, loaded, entries, dmadata>>

Batch == IF info.count - loaded < READ_COUNT THEN info.count - loaded ELSE READ_COUNT

(* Mutant: every batch is read from the start of the table. *)
BatchAtStart == info.offset

BatchOffset == info.offset + loaded * ENTRY

(* What a batch does to the loop and the buffer when its read succeeds.    *)
StoreBatch ==
    /\ loaded' = loaded + READ_COUNT
    /\ entries' = [k \in 0..(loaded + Batch - 1) |->
                      IF k < loaded THEN entries[k]
                      ELSE EntryAt(BatchOffset + (k - loaded) * ENTRY)]

(* Mutant: the entries are not freed when a batch cannot be read. *)
LoadBatchLeaks ==
    /\ pc = "load"
    /\ loaded < info.count
    /\ error' \in ReadExact(BatchOffset, Batch * ENTRY)
    /\ \/ error' # "OK" /\ pc' = "done" /\ UNCHANGED <<loaded, entries>>
       \/ error' = "OK" /\ StoreBatch /\ UNCHANGED pc
    /\ UNCHANGED <<rom, search, buffer, dmadata>>

LoadBatch ==
    /\ pc = "load"
    /\ loaded < info.count
    /\ error' \in ReadExact(BatchOffset, Batch * ENTRY)
    /\ \/ /\ error' # "OK"
          /\ pc' = "done"
          /\ buffer' = "freed"
          /\ UNCHANGED <<loaded, entries>>
       \/ /\ error' = "OK"
          /\ StoreBatch
          /\ UNCHANGED <<pc, buffer>>
    /\ UNCHANGED <<rom, search, dmadata>>

Publish ==
    /\ pc = "load"
    /\ loaded >= info.count
    /\ pc' = "done"
    /\ dmadata' = "buffer"
    /\ UNCHANGED <<rom, error, search, buffer, loaded, entries>>

Find == GetSize \/ ReadChunk \/ GiveUp \/ SkipSlot \/ ProbeSlot \/ NextChunk
Load == Allocate \/ LoadBatch \/ Publish
Next == Find \/ Load

Spec == Init /\ [][Next]_vars

(* One thread runs the two loops to their end: it never waits, so a step   *)
(* that can be taken is taken.                                             *)
FairSpec == Spec /\ WF_vars(Next)

-----------------------------------------------------------------------------
(* The reference: what a table of an image is, without chunks or probes.   *)

Slots == {a \in 0..rom.size : a % ENTRY = 0 /\ a + ENTRY <= rom.size}

(* MAKEROM is [0, A), BOOTCODE [A, a) and DMADATA, the table itself, [a,   *)
(* C): all three stored as they are, the table a whole number of entries.  *)
TableAt(a) ==
    /\ a \in Slots
    /\ a + 3 * ENTRY <= rom.size
    /\ LET A == EntryAt(a).vrom_end
           C == EntryAt(a + 2 * ENTRY).vrom_end
       IN /\ A \in 1..a
          /\ C \in (a + 3 * ENTRY)..rom.size
          /\ (C - a) % ENTRY = 0
          /\ EntryAt(a) =
                [vrom_start |-> 0, vrom_end |-> A, rom_start |-> 0, rom_end |-> 0]
          /\ EntryAt(a + ENTRY) =
                [vrom_start |-> A, vrom_end |-> a, rom_start |-> A, rom_end |-> 0]
          /\ EntryAt(a + 2 * ENTRY) =
                [vrom_start |-> a, vrom_end |-> C, rom_start |-> a, rom_end |-> 0]

Tables == {a \in Slots : TableAt(a)}

-----------------------------------------------------------------------------
(* Properties. *)

Results == {"OK", "ERRNO", "MEMORY_ERROR", "OUT_OF_RANGE", "TRUNCATED", "NO_DMADATA"}

(* Every variable of the search and the load keeps the type the code gives *)
(* it; the offsets stay inside the image, so their 32-bit sums never wrap. *)
TypeOK ==
    /\ pc \in {"size", "chunk", "slot", "alloc", "load", "done"}
    /\ IsRom(rom)
    /\ error \in Results
    /\ offset \in 0..rom.size
    /\ i \in 0..CHUNK_SIZE
    /\ info \in [offset: 0..rom.size, size: 0..rom.size, count: Nat]
    /\ buffer \in {"null", "held", "freed"}
    /\ loaded \in Nat
    /\ DOMAIN entries \subseteq Nat
    /\ dmadata \in {"null", "buffer"}

(* Chunking hides no table: the table found by zelda64_find_dmadata is the *)
(* first one of the image, even when it starts in the last slot of a chunk *)
(* or behind candidates that were refused.                                 *)
FindsFirstTable ==
    pc \in {"alloc", "load"} \/ (pc = "done" /\ error = "OK") =>
        /\ TableAt(info.offset)
        /\ \A a \in Tables : info.offset <= a

(* An image is only reported as having no table, or as cut short, when it  *)
(* has none: a sticky TRUNCATED of a candidate near the end of the image   *)
(* never stands in for a table behind it.                                  *)
MissesNoTable ==
    pc = "done" /\ error \in {"NO_DMADATA", "TRUNCATED"} => Tables = {}

(* The published entries are the table's bytes, all of them and in order,  *)
(* whatever batches zelda64_read_dmadata loaded them in.                   *)
PublishesWholeTable ==
    dmadata = "buffer" =>
        /\ DOMAIN entries = 0..(info.count - 1)
        /\ \A k \in 0..(info.count - 1) :
              entries[k] = EntryAt(info.offset + k * ENTRY)

(* What the rest of the library takes for granted of an opened ROM: entry  *)
(* 2 exists (layout_write.c indexes it) and describes the table itself,    *)
(* and the first three files are contiguous and stored uncompressed.       *)
OpenedTableDescribesItself ==
    dmadata = "buffer" =>
        /\ info.count >= 3
        /\ entries[2].vrom_start = info.offset
        /\ entries[2].vrom_end - entries[2].vrom_start = info.count * ENTRY
        /\ \A k \in 0..2 : entries[k].rom_end = 0
        /\ \A k \in 0..1 : entries[k].vrom_end = entries[k + 1].vrom_start

(* The entries belong to the ROM exactly when loading succeeded: no error  *)
(* path publishes them, keeps them allocated or leaves an error behind.    *)
OwnedIffLoaded ==
    pc = "done" =>
        /\ (dmadata = "buffer") <=> (error = "OK")
        /\ (buffer = "held") <=> (error = "OK")

(* A table that was found is readable to its end: is_dmadata checked that  *)
(* it fits the image, so loading it never reports a truncated ROM.         *)
FoundTableIsNeverTruncated ==
    info # NoInfo => error \notin {"TRUNCATED", "NO_DMADATA"}

(* Both loops end. *)
Terminates == <>(pc = "done")

(* What a caller of zelda64_open sees of all this.  FindsFirstTable, for a *)
(* table that could be loaded, and MissesNoTable follow from it.           *)
Lookup == INSTANCE DmaLookup
            WITH tables <- Tables,
                 NoTable <- {"NO_DMADATA", "TRUNCATED"},
                 answer <- IF pc # "done"
                           THEN [result |-> "PENDING", offset |-> 0]
                           ELSE [result |-> error,
                                 offset |-> IF error = "OK" THEN info.offset ELSE 0]

(* The chunked search with its two-read probe and batched load implements  *)
(* the lookup of the first table.                                          *)
ImplementsLookup == Lookup!Spec

(* rom_dma.c:154-155 and 191-192 say that a candidate too close to the end *)
(* fails gracefully and that an image without a table is reported as such: *)
(* "If we can't find it, this ROM is definitely not DMADATA".              *)
NoTableIsReportedAsNoDmadata ==
    pc = "done" /\ Tables = {} /\ rom.size <= UINT32_MAX /\ ~Faults
        => error = "NO_DMADATA"
=============================================================================
