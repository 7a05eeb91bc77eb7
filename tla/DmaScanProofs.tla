--------------------------- MODULE DmaScanProofs ---------------------------
(***************************************************************************)
(* Proofs about DmaScan, for every image, chunk size and batch size.       *)
(*                                                                         *)
(* The search invariant says that no table starts before the slot the      *)
(* search has reached, and that a TRUNCATED error left behind by a probe   *)
(* means the image holds no table at all.  The load invariant says which   *)
(* cells of the buffer hold which entry of the table.                      *)
(*                                                                         *)
(* The search and the load end: Left says what is left of them.            *)
(***************************************************************************)
EXTENDS DmaScan, Descent, TLAPS

NoTableBefore(x) == \A a \in Tables : a >= x

(* Where the search stands. *)
SearchInv ==
    /\ i % ENTRY = 0
    /\ offset % ENTRY = 0 \/ offset = rom.size
    /\ pc \in {"size", "chunk"} => NoTableBefore(offset)
    /\ pc = "slot" => /\ offset < rom.size
                      /\ offset % ENTRY = 0
                      /\ i <= Want
                      /\ NoTableBefore(offset + i)

(* What the error record can hold, and what a sticky TRUNCATED means. *)
ErrorInv ==
    /\ pc \in {"size", "alloc", "load"} => error = "OK"
    /\ pc \in {"chunk", "slot"} => error \in {"OK", "TRUNCATED"}
    /\ error \in {"TRUNCATED", "NO_DMADATA"} => info = NoInfo
    /\ pc \in {"chunk", "slot", "done"} /\ error = "TRUNCATED" => Tables = {}
    /\ pc = "done" /\ error = "NO_DMADATA" => Tables = {}

Found == pc \in {"alloc", "load"} \/ (pc = "done" /\ error = "OK")

(* The table that was found, and that it is the first. *)
FoundInv ==
    /\ pc \in {"size", "chunk", "slot"} => info = NoInfo
    /\ Found => /\ info.offset \in Tables
                /\ NoTableBefore(info.offset)
                /\ info = InfoOf(EntryAt(info.offset + 2 * ENTRY), info.offset)

LoadedCount == IF loaded < info.count THEN loaded ELSE info.count

(* Who holds the buffer, and which cells are written. *)
LoadInv ==
    /\ pc \in {"size", "chunk", "slot", "alloc"} =>
          buffer = "null" /\ loaded = 0 /\ entries = NoEntries
    /\ pc = "load" => buffer = "held"
    /\ pc # "done" => dmadata = "null"
    /\ pc = "done" => /\ (dmadata = "buffer") <=> (error = "OK")
                      /\ (buffer = "held") <=> (error = "OK")
    /\ dmadata = "buffer" => loaded >= info.count
    /\ Found => /\ DOMAIN entries = 0..(LoadedCount - 1)
                /\ \A k \in 0..(LoadedCount - 1) :
                      entries[k] = EntryAt(info.offset + k * ENTRY)

IInv == TypeOK /\ SearchInv /\ ErrorInv /\ FoundInv /\ LoadInv

-----------------------------------------------------------------------------
(* The entry of a whole slot is an entry. *)
LEMMA EntryType ==
    ASSUME IsRom(rom), NEW a \in Nat, a % ENTRY = 0, a + ENTRY <= rom.size
    PROVE  EntryAt(a) \in Entries
<1>1. a \div 16 \in 0..((rom.size \div 16) - 1)
    BY SMT DEF IsRom, ENTRY
<1>2. QED
    BY <1>1 DEF IsRom, EntryAt, ENTRY

(* The image never changes, so neither do its tables. *)
LEMMA Frame ==
    ASSUME rom' = rom
    PROVE  /\ Slots' = Slots
           /\ Tables' = Tables
           /\ \A x : EntryAt(x)' = EntryAt(x)
           /\ \A x : NoTableBefore(x)' <=> NoTableBefore(x)
<1>1. \A x : EntryAt(x)' = EntryAt(x)
    BY DEF EntryAt
<1>2. Slots' = Slots
    BY DEF Slots
<1>3. \A x : TableAt(x)' <=> TableAt(x)
    BY <1>2 DEF TableAt, EntryAt
<1>4. Tables' = Tables
    BY <1>2, <1>3 DEF Tables
<1>5. QED
    BY <1>1, <1>2, <1>4 DEF NoTableBefore

(* The slots a search skips hold no table. *)
LEMMA RefusedIsNoTable ==
    ASSUME IsRom(rom), NEW c \in Nat,
           \/ ~can_be_makerom(EntryAt(c))
           \/ ~is_dmadata(EntryAt(c), EntryAt(c + ENTRY), EntryAt(c + 2 * ENTRY), c)
           \/ c + 3 * ENTRY > rom.size
    PROVE  ~TableAt(c)
BY SMTT(30) DEF IsRom, TableAt, can_be_makerom, is_dmadata, Follows, ENTRY, Slots

(* The slot a search accepts holds one. *)
LEMMA AcceptedIsTable ==
    ASSUME IsRom(rom), NEW c \in Nat, c % ENTRY = 0, c + 3 * ENTRY <= rom.size,
           can_be_makerom(EntryAt(c)),
           is_dmadata(EntryAt(c), EntryAt(c + ENTRY), EntryAt(c + 2 * ENTRY), c)
    PROVE  c \in Tables
<1>1. /\ EntryAt(c) \in Entries
      /\ EntryAt(c + ENTRY) \in Entries
      /\ EntryAt(c + 2 * ENTRY) \in Entries
    BY EntryType DEF IsRom, ENTRY
<1>2. c \in Slots
    BY DEF IsRom, Slots, ENTRY
<1>3. TableAt(c)
    BY <1>1, <1>2, WordAssumption, SMTT(30)
    DEF TableAt, can_be_makerom, is_dmadata, Follows, Entries, ENTRY, IsRom
<1>4. QED
    BY <1>2, <1>3 DEF Tables

-----------------------------------------------------------------------------
(* The search starts before every table. *)
LEMMA InitInv == Init => IInv
<1> SUFFICES ASSUME Init PROVE IInv
    OBVIOUS
<1>1. IsRom(rom)
    BY RomsAssumption DEF Init
<1>2. TypeOK
    BY <1>1, ChunkAssumption DEF Init, TypeOK, NoInfo, NoEntries, IsRom, Results
<1>3. SearchInv
    BY <1>1 DEF Init, SearchInv, ENTRY, NoTableBefore, Tables, Slots, IsRom
<1>4. ErrorInv /\ FoundInv /\ LoadInv
    BY DEF Init, ErrorInv, FoundInv, Found, LoadInv
<1>5. QED
    BY <1>2, <1>3, <1>4 DEF IInv

(* Asking for the size keeps the invariant. *)
LEMMA GetSizeInv == IInv /\ GetSize => IInv'
<1> SUFFICES ASSUME IInv, GetSize PROVE IInv'
    OBVIOUS
<1> USE DEF IInv, GetSize, search, memory
<1>1. TypeOK'
    BY DEF TypeOK, Results, IsRom, Entries
<1>2. SearchInv'
    BY Frame DEF SearchInv, Want
<1>3. ErrorInv'
    BY Frame DEF ErrorInv, FoundInv
<1>4. FoundInv'
    BY DEF FoundInv, Found, ErrorInv
<1>5. LoadInv'
    BY DEF LoadInv, Found, ErrorInv
<1>6. QED
    BY <1>1, <1>2, <1>3, <1>4, <1>5

(* A chunk that was read starts a new pass over its slots. *)
LEMMA ReadChunkInv == IInv /\ ReadChunk => IInv'
<1> SUFFICES ASSUME IInv, ReadChunk PROVE IInv'
    OBVIOUS
<1> USE DEF IInv, ReadChunk, memory
<1>1. error' \in {"OK", "ERRNO", "TRUNCATED"}
    BY DEF ReadExact, ErrorInv
<1>2. error' = "TRUNCATED" => error = "TRUNCATED"
    BY ChunkAssumption DEF ReadExact, Want, ErrorInv, TypeOK, IsRom
<1>3. TypeOK'
    BY <1>1, ChunkAssumption DEF TypeOK, Results, IsRom, Entries
<1>4. SearchInv'
  <2>1. NoTableBefore(offset)' /\ offset' + i' = offset
      BY Frame DEF SearchInv, TypeOK
  <2>2. (0 <= Want)'
      BY ChunkAssumption DEF Want, TypeOK, IsRom
  <2>3. QED
      BY <2>1, <2>2, ChunkAssumption DEF SearchInv, TypeOK, IsRom, ENTRY
<1>5. ErrorInv'
    BY <1>1, <1>2, Frame DEF ErrorInv, FoundInv
<1>6. FoundInv'
    BY <1>1 DEF FoundInv, Found, ErrorInv
<1>7. LoadInv'
    BY <1>1 DEF LoadInv, Found
<1>8. QED
    BY <1>3, <1>4, <1>5, <1>6, <1>7

(* The whole image was searched. *)
LEMMA GiveUpInv == IInv /\ GiveUp => IInv'
<1> SUFFICES ASSUME IInv, GiveUp PROVE IInv'
    OBVIOUS
<1> USE DEF IInv, GiveUp, search, memory
<1>1. Tables = {}
    BY DEF SearchInv, NoTableBefore, Tables, Slots, TypeOK, IsRom, ENTRY
<1>2. TypeOK'
    BY DEF TypeOK, Results, IsRom, Entries
<1>3. SearchInv'
    BY Frame DEF SearchInv
<1>4. ErrorInv'
    BY <1>1, Frame DEF ErrorInv, FoundInv
<1>5. FoundInv' /\ LoadInv'
    BY DEF FoundInv, Found, LoadInv
<1>6. QED
    BY <1>2, <1>3, <1>4, <1>5

(* The slot under the search is one of the image. *)
LEMMA CandidateType ==
    ASSUME IInv, pc = "slot", SlotInChunk
    PROVE  /\ Candidate \in Slots
           /\ Candidate \in Nat
           /\ Candidate % ENTRY = 0
           /\ i + ENTRY \in 0..CHUNK_SIZE
           /\ i + ENTRY <= Want
<1>1. /\ rom.size \in Nat /\ offset \in Nat /\ i \in Nat
      /\ offset % 16 = 0 /\ i % 16 = 0 /\ offset < rom.size
    BY DEF IInv, TypeOK, IsRom, SearchInv, ENTRY
<1>2. /\ i + 16 <= rom.size - offset
      /\ i + 16 <= CHUNK_SIZE
    BY <1>1, ChunkAssumption DEF SlotInChunk, Want, ENTRY
<1>3. (offset + i) % 16 = 0
    BY <1>1
<1>4. QED
    BY <1>1, <1>2, <1>3, ChunkAssumption DEF Candidate, Slots, ENTRY, SlotInChunk

(* The search moves past a slot that holds no table. *)
LEMMA PassSlot ==
    ASSUME IInv, pc = "slot", SlotInChunk, ~TableAt(Candidate),
           i' = i + ENTRY, UNCHANGED <<pc, rom, offset>>
    PROVE  SearchInv'
<1> USE DEF IInv, SlotInChunk
<1>1. NoTableBefore(offset + i + ENTRY)
  <2> SUFFICES ASSUME NEW a \in Tables PROVE a >= offset + i + ENTRY
      BY DEF NoTableBefore
  <2>1. a \in Nat /\ a % 16 = 0 /\ a # offset + i
      BY DEF Tables, Slots, TypeOK, IsRom, ENTRY, Candidate
  <2>2. a >= offset + i
      BY DEF SearchInv, NoTableBefore
  <2>3. offset \in Nat /\ i \in Nat /\ offset % 16 = 0 /\ i % 16 = 0
      BY DEF TypeOK, IsRom, SearchInv, ENTRY
  <2>4. QED
      BY <2>1, <2>2, <2>3 DEF ENTRY
<1>2. NoTableBefore(offset + i)' /\ offset' + i' = offset + i + ENTRY
    BY <1>1, Frame DEF TypeOK, ENTRY, NoTableBefore
<1>3. /\ (i + ENTRY) % ENTRY = 0
      /\ i + ENTRY <= Want
    BY CandidateType DEF SearchInv, TypeOK, ENTRY
<1>4. QED
    BY <1>2, <1>3 DEF SearchInv, TypeOK, ENTRY, Want, IsRom

(* A slot that cannot be MAKEROM is passed. *)
LEMMA SkipSlotInv == IInv /\ SkipSlot => IInv'
<1> SUFFICES ASSUME IInv, SkipSlot PROVE IInv'
    OBVIOUS
<1> USE DEF SkipSlot, memory
<1>1. ~TableAt(Candidate)
    BY CandidateType, RefusedIsNoTable DEF IInv, TypeOK
<1>2. SearchInv'
    BY <1>1, PassSlot
<1>3. TypeOK'
    BY CandidateType DEF IInv, TypeOK, Results, IsRom, Entries
<1>4. ErrorInv'
    BY Frame DEF IInv, ErrorInv
<1>5. FoundInv' /\ LoadInv'
    BY DEF IInv, FoundInv, Found, LoadInv
<1>6. QED
    BY <1>2, <1>3, <1>4, <1>5 DEF IInv

(* A candidate is confirmed, refused, or lies too near the end of the      *)
(* image for any table to start there or behind it.                        *)
LEMMA ProbeSlotInv == IInv /\ ProbeSlot => IInv'
<1> SUFFICES ASSUME IInv, ProbeSlot PROVE IInv'
    OBVIOUS
<1>c. /\ Candidate \in Slots
      /\ Candidate \in Nat
      /\ Candidate % ENTRY = 0
      /\ i + ENTRY \in 0..CHUNK_SIZE
    BY CandidateType DEF ProbeSlot
<1>r. IsRom(rom) /\ rom' = rom /\ rom.size \in Nat
    BY DEF IInv, TypeOK, ProbeSlot, IsRom
<1>u. UNCHANGED <<offset, buffer, loaded, entries, dmadata>>
    BY DEF ProbeSlot, memory
<1>e. /\ error \in {"OK", "TRUNCATED"}
      /\ error' \in {"OK", "ERRNO", "TRUNCATED"}
      /\ error' = "OK" => Candidate + 3 * ENTRY <= rom.size
    BY <1>c, <1>r DEF IInv, ErrorInv, ProbeSlot, ReadExact, ENTRY
<1>t. error' = "TRUNCATED" => Tables = {}
  <2>1. CASE error = "TRUNCATED"
      BY <2>1 DEF IInv, ErrorInv, ProbeSlot
  <2>2. CASE error = "OK"
    <3> SUFFICES ASSUME error' = "TRUNCATED", NEW a \in Tables PROVE FALSE
        OBVIOUS
    <3>1. Candidate + 3 * ENTRY > rom.size
        BY <2>2, <1>c, <1>r DEF ProbeSlot, ReadExact, ENTRY
    <3>2. a >= Candidate
        BY DEF IInv, SearchInv, NoTableBefore, ProbeSlot, Candidate
    <3>3. a + 3 * ENTRY <= rom.size /\ a \in Nat
        BY <1>r DEF Tables, TableAt, Slots
    <3>4. QED
        BY <3>1, <3>2, <3>3, <1>c, <1>r DEF ENTRY
  <2>3. QED
      BY <2>1, <2>2, <1>e
<1>1. CASE error' \notin {"OK", "TRUNCATED"}
  <2>1. /\ pc = "slot" /\ pc' = "done" /\ error' = "ERRNO"
        /\ UNCHANGED <<i, info>>
      BY <1>1, <1>e DEF ProbeSlot
  <2>2. TypeOK'
      BY <2>1, <1>r, <1>u DEF IInv, TypeOK, Results, IsRom, Entries
  <2>3. SearchInv' /\ ErrorInv'
      BY <2>1, <1>r, <1>u, Frame DEF IInv, SearchInv, ErrorInv
  <2>4. FoundInv' /\ LoadInv'
      BY <2>1, <1>r, <1>u DEF IInv, FoundInv, Found, LoadInv
  <2>5. QED
      BY <2>2, <2>3, <2>4 DEF IInv
<1>2. CASE /\ error' = "OK"
           /\ is_dmadata(EntryAt(Candidate), EntryAt(Candidate + ENTRY),
                         EntryAt(Candidate + 2 * ENTRY), Candidate)
  <2>1. /\ pc = "slot" /\ pc' = "alloc" /\ i' = i
        /\ info' = InfoOf(EntryAt(Candidate + 2 * ENTRY), Candidate)
      BY <1>2 DEF ProbeSlot
  <2>2. Candidate \in Tables
      BY <1>2, <1>c, <1>r, <1>e, AcceptedIsTable DEF ProbeSlot
  <2>3. NoTableBefore(Candidate)
      BY DEF IInv, SearchInv, ProbeSlot, Candidate
  <2>4. info' \in [offset: 0..rom.size, size: 0..rom.size, count: Nat]
    <3>1. EntryAt(Candidate + 2 * ENTRY) \in Entries
        BY <1>2, <1>c, <1>r, <1>e, EntryType DEF ENTRY
    <3>2. /\ EntryAt(Candidate + 2 * ENTRY).vrom_start \in Nat
          /\ EntryAt(Candidate + 2 * ENTRY).vrom_end \in 0..rom.size
          /\ EntryAt(Candidate + 2 * ENTRY).vrom_end
                > EntryAt(Candidate + 2 * ENTRY).vrom_start
        BY <3>1, <1>2, <1>r, WordAssumption DEF Entries, is_dmadata
    <3>3. Candidate \in 0..rom.size
        BY <1>c DEF Slots
    <3>4. QED
        BY <2>1, <3>2, <3>3, <1>r DEF InfoOf, ENTRY
  <2>5. TypeOK'
      BY <1>2, <2>1, <2>4, <1>r, <1>u DEF IInv, TypeOK, Results, IsRom, Entries
  <2>6. SearchInv' /\ ErrorInv'
      BY <1>2, <2>1, <1>r, <1>u DEF IInv, SearchInv, ErrorInv, ProbeSlot
  <2>7. info'.offset = Candidate
      BY <2>1 DEF InfoOf
  <2>8. FoundInv'
      BY <2>1, <2>2, <2>3, <2>7, <1>r, Frame DEF FoundInv, Found
  <2>9. LoadInv'
    <3>1. /\ buffer' = "null" /\ loaded' = 0 /\ entries' = NoEntries
          /\ dmadata' = "null"
        BY <2>1, <1>u DEF IInv, LoadInv
    <3>2. info'.count \in Nat
        BY <2>4
    <3>3. DOMAIN entries' = {} /\ LoadedCount' = 0
        BY <3>1, <3>2 DEF NoEntries, LoadedCount
    <3>4. QED
        BY <2>1, <3>1, <3>3 DEF LoadInv, Found
  <2>10. QED
      BY <2>5, <2>6, <2>8, <2>9 DEF IInv
<1>3. CASE \/ error' = "TRUNCATED"
           \/ /\ error' = "OK"
              /\ ~is_dmadata(EntryAt(Candidate), EntryAt(Candidate + ENTRY),
                             EntryAt(Candidate + 2 * ENTRY), Candidate)
  <2>1. i' = i + ENTRY /\ UNCHANGED <<pc, info>> /\ pc = "slot"
      BY <1>3 DEF ProbeSlot
  <2>2. ~TableAt(Candidate)
      BY <1>3, <1>t, <1>c, <1>r, RefusedIsNoTable DEF Tables
  <2>3. SearchInv'
      BY <2>1, <2>2, <1>r, <1>u, PassSlot DEF ProbeSlot
  <2>4. TypeOK'
      BY <2>1, <1>c, <1>e, <1>r, <1>u DEF IInv, TypeOK, Results, IsRom, Entries
  <2>5. ErrorInv'
      BY <1>3, <2>1, <1>t, <1>r, Frame DEF IInv, ErrorInv, FoundInv
  <2>6. FoundInv' /\ LoadInv'
      BY <2>1, <1>r, <1>u DEF IInv, FoundInv, Found, LoadInv
  <2>7. QED
      BY <2>3, <2>4, <2>5, <2>6 DEF IInv
<1>4. QED
    BY <1>1, <1>2, <1>3, <1>e

(* The slots of a chunk are passed; what is left of a short last chunk is  *)
(* too small to be a slot.                                                 *)
LEMMA NextChunkInv == IInv /\ NextChunk => IInv'
<1> SUFFICES ASSUME IInv, NextChunk PROVE IInv'
    OBVIOUS
<1> USE DEF NextChunk, memory
<1>1. /\ rom.size \in Nat /\ offset \in Nat /\ i \in Nat
      /\ offset % 16 = 0 /\ i % 16 = 0 /\ offset < rom.size
      /\ i <= Want /\ i + 16 > Want /\ Want \in Nat
      /\ offset' = offset + Want
  <2>1. rom.size \in Nat /\ offset \in Nat /\ i \in Nat
      BY DEF IInv, TypeOK, IsRom
  <2>2. pc = "slot" /\ ~(i + 16 <= Want) /\ offset' = offset + Want
      BY DEF SlotInChunk, ENTRY
  <2>3. offset % 16 = 0 /\ i % 16 = 0 /\ offset < rom.size /\ i <= Want
      BY <2>2 DEF IInv, SearchInv, ENTRY
  <2>4. Want \in Nat
      BY <2>1, <2>3, ChunkAssumption DEF Want
  <2>5. QED
      BY <2>1, <2>2, <2>3, <2>4
<1>2. \/ Want = CHUNK_SIZE /\ CHUNK_SIZE <= rom.size - offset
      \/ Want = rom.size - offset
    BY <1>1, ChunkAssumption DEF Want
<1>3. NoTableBefore(offset')
  <2> SUFFICES ASSUME NEW a \in Tables PROVE a >= offset'
      BY DEF NoTableBefore
  <2>1. a \in Nat /\ a % 16 = 0 /\ a + 16 <= rom.size
      BY <1>1 DEF Tables, Slots, ENTRY
  <2>2. a >= offset + i
      BY DEF IInv, SearchInv, NoTableBefore
  <2>3. CASE Want = CHUNK_SIZE
    <3>1. i = CHUNK_SIZE
        BY <1>1, <2>3, ChunkAssumption DEF ENTRY
    <3>2. QED
        BY <3>1, <2>2, <2>3, <1>1
  <2>4. CASE Want = rom.size - offset
      BY <2>4, <2>1, <2>2, <1>1
  <2>5. QED
      BY <1>2, <2>3, <2>4
<1>4. offset' % ENTRY = 0 \/ offset' = rom.size
    BY <1>1, <1>2, ChunkAssumption DEF ENTRY
<1>5. SearchInv'
    BY <1>3, <1>4, Frame DEF IInv, SearchInv, NoTableBefore
<1>6. TypeOK'
    BY <1>1, <1>2 DEF IInv, TypeOK, Results, IsRom, Entries
<1>7. ErrorInv'
    BY Frame DEF IInv, ErrorInv
<1>8. FoundInv' /\ LoadInv'
    BY DEF IInv, FoundInv, Found, LoadInv
<1>9. QED
    BY <1>5, <1>6, <1>7, <1>8 DEF IInv

-----------------------------------------------------------------------------
(* The buffer is allocated empty. *)
LEMMA AllocateInv == IInv /\ Allocate => IInv'
<1> SUFFICES ASSUME IInv, Allocate PROVE IInv'
    OBVIOUS
<1> USE DEF Allocate, search
<1>1. /\ pc' \in {"load", "done"}
      /\ pc' = "load" => error' = "OK" /\ buffer' = "held"
      /\ pc' = "done" => error' = "MEMORY_ERROR" /\ buffer' = "null"
    BY DEF IInv, ErrorInv, LoadInv
<1>2. TypeOK'
    BY <1>1 DEF IInv, TypeOK, Results, IsRom, Entries
<1>3. SearchInv' /\ ErrorInv'
    BY <1>1, Frame DEF IInv, SearchInv, ErrorInv
<1>4. FoundInv'
    BY <1>1, Frame DEF IInv, FoundInv, Found
<1>5. LoadInv'
    BY <1>1 DEF IInv, LoadInv, Found, LoadedCount, TypeOK
<1>6. QED
    BY <1>2, <1>3, <1>4, <1>5 DEF IInv

LEMMA WholeEntries ==
    \A d \in Nat : d % 16 = 0 /\ d >= 48 =>
        /\ d \div 16 \in Nat
        /\ d \div 16 >= 3
        /\ (d \div 16) * 16 = d
OBVIOUS

(* Facts about a table that was found: it lies inside the image. *)
LEMMA FoundTable ==
    ASSUME IInv, Found
    PROVE  /\ info.offset \in Nat
           /\ info.offset % ENTRY = 0
           /\ info.count \in Nat
           /\ info.count >= 3
           /\ info.size = info.count * ENTRY
           /\ info.offset + info.count * ENTRY <= rom.size
           /\ EntryAt(info.offset + 2 * ENTRY) =
                [vrom_start |-> info.offset,
                 vrom_end |-> info.offset + info.count * ENTRY,
                 rom_start |-> info.offset, rom_end |-> 0]
<1> DEFINE o == info.offset
           C == EntryAt(o + 2 * ENTRY).vrom_end
<1>1. o \in Tables
    BY DEF IInv, FoundInv
<1>2. /\ o \in Nat /\ o % 16 = 0 /\ rom.size \in Nat
      /\ C \in (o + 48)..rom.size
      /\ (C - o) % 16 = 0
      /\ EntryAt(o + 2 * ENTRY) =
            [vrom_start |-> o, vrom_end |-> C, rom_start |-> o, rom_end |-> 0]
    BY <1>1 DEF Tables, Slots, TableAt, ENTRY, IInv, TypeOK, IsRom
<1>3. info = InfoOf(EntryAt(o + 2 * ENTRY), o)
    BY DEF IInv, FoundInv
<1> HIDE DEF C
<1>4. info = [offset |-> o, size |-> C - o, count |-> (C - o) \div 16]
    BY <1>2, <1>3 DEF InfoOf, ENTRY
<1>5. info.size = C - o /\ info.count = (C - o) \div 16
    BY <1>4
<1>6. C \in Int /\ C >= o + 48 /\ C <= rom.size
    BY <1>2
<1>7. /\ info.count \in Nat /\ info.count >= 3
      /\ info.count * 16 = C - o
  <2>1. C - o \in Nat /\ C - o >= 48
      BY <1>2, <1>6
  <2>2. QED
      BY <2>1, <1>2, <1>5, WholeEntries
<1>8. QED
    BY <1>2, <1>5, <1>6, <1>7 DEF ENTRY

(* A batch is read whole or the load fails and frees the buffer. *)
LEMMA LoadBatchInv == IInv /\ LoadBatch => IInv'
<1> SUFFICES ASSUME IInv, LoadBatch PROVE IInv'
    OBVIOUS
<1>1. /\ pc = "load" /\ Found /\ loaded < info.count /\ error = "OK"
      /\ loaded \in Nat /\ rom' = rom
      /\ UNCHANGED <<offset, i, info, dmadata>>
      /\ rom.size \in Nat
    BY DEF LoadBatch, Found, IInv, TypeOK, ErrorInv, IsRom, search
<1>2. /\ info.offset \in Nat /\ info.count \in Nat
      /\ info.offset + info.count * ENTRY <= rom.size
    BY <1>1, FoundTable
<1>3. /\ Batch \in Nat /\ Batch > 0
      /\ loaded + Batch <= info.count
      /\ loaded + READ_COUNT < info.count => Batch = READ_COUNT
      /\ loaded + READ_COUNT >= info.count => loaded + Batch = info.count
    BY <1>1, <1>2, ReadCountAssumption DEF Batch
<1>4. error' \in {"OK", "ERRNO"}
  <2>1. BatchOffset + Batch * ENTRY <= rom.size
      BY <1>1, <1>2, <1>3 DEF BatchOffset, ENTRY
  <2>2. QED
      BY <1>1, <2>1 DEF LoadBatch, ReadExact
<1>5. SearchInv' /\ ErrorInv'
    BY <1>1, <1>4, Frame DEF IInv, SearchInv, ErrorInv, LoadBatch
<1>6. FoundInv'
    BY <1>1, <1>4, Frame DEF IInv, FoundInv, Found, LoadBatch
<1>7. CASE error' = "ERRNO"
  <2>1. /\ pc' = "done" /\ buffer' = "freed" /\ UNCHANGED <<loaded, entries>>
      BY <1>7 DEF LoadBatch
  <2>2. TypeOK'
      BY <1>1, <1>7, <2>1 DEF IInv, TypeOK, Results, IsRom, Entries
  <2>3. LoadInv'
      BY <1>1, <1>7, <2>1 DEF IInv, LoadInv, Found
  <2>4. QED
      BY <1>5, <1>6, <2>2, <2>3 DEF IInv
<1>8. CASE error' = "OK"
  <2>1. /\ StoreBatch /\ pc' = "load" /\ buffer' = buffer
      BY <1>1, <1>8 DEF LoadBatch
  <2>2. loaded' = loaded + READ_COUNT /\ loaded' \in Nat
      BY <1>1, <2>1, ReadCountAssumption DEF StoreBatch
  <2>3. DOMAIN entries' = 0..(loaded + Batch - 1)
      BY <2>1 DEF StoreBatch
  <2>4. LoadedCount' = loaded + Batch
      BY <1>1, <1>2, <1>3, <2>2, ReadCountAssumption DEF LoadedCount
  <2>5. \A k \in 0..(loaded + Batch - 1) :
            entries'[k] = EntryAt(info.offset + k * ENTRY)
    <3> SUFFICES ASSUME NEW k \in 0..(loaded + Batch - 1)
                 PROVE  entries'[k] = EntryAt(info.offset + k * ENTRY)
        OBVIOUS
    <3>1. entries'[k] = IF k < loaded THEN entries[k]
                        ELSE EntryAt(BatchOffset + (k - loaded) * ENTRY)
        BY <2>1 DEF StoreBatch
    <3>2. CASE k < loaded
      <4>1. LoadedCount = loaded
          BY <1>1 DEF LoadedCount
      <4>2. k \in 0..(LoadedCount - 1)
          BY <4>1, <3>2, <1>1, <1>3
      <4>3. QED
          BY <4>2, <3>1, <3>2, <1>1 DEF IInv, LoadInv
    <3>3. CASE ~(k < loaded)
      <4>1. BatchOffset + (k - loaded) * ENTRY = info.offset + k * ENTRY
          BY <1>1, <1>2, <1>3 DEF BatchOffset, ENTRY
      <4>2. QED
          BY <4>1, <3>1, <3>3
    <3>4. QED
        BY <3>2, <3>3
  <2>6. LoadInv'
    <3>1. buffer' = "held" /\ dmadata' = "null"
        BY <1>1, <2>1 DEF IInv, LoadInv
    <3>2. DOMAIN entries' = 0..(LoadedCount' - 1)
        BY <2>3, <2>4, <1>1, <1>3
    <3>3. (\A k \in 0..(LoadedCount - 1) :
              entries[k] = EntryAt(info.offset + k * ENTRY))'
      <4> SUFFICES ASSUME NEW k \in 0..(LoadedCount' - 1)
                   PROVE  entries'[k] = (EntryAt(info.offset + k * ENTRY))'
          OBVIOUS
      <4>1. (EntryAt(info.offset + k * ENTRY))' = EntryAt(info.offset + k * ENTRY)
          BY <1>1 DEF EntryAt, ENTRY
      <4>2. QED
        <5>1. k \in 0..(loaded + Batch - 1)
            BY <2>4, <1>1, <1>3
        <5>2. QED
            BY <5>1, <4>1, <2>5
    <3>4. loaded' >= info.count' => pc' = "load"
        BY <2>1
    <3>5. QED
        BY <3>1, <3>2, <3>3, <2>1, <1>8 DEF LoadInv, Found
  <2>7. TypeOK'
    <3>1. DOMAIN entries' \subseteq Nat
        BY <2>3, <1>1, <1>3
    <3>2. QED
        BY <1>1, <1>8, <2>1, <2>2, <3>1 DEF IInv, TypeOK, Results, IsRom, Entries
  <2>8. QED
      BY <1>5, <1>6, <2>6, <2>7 DEF IInv
<1>9. QED
    BY <1>4, <1>7, <1>8

(* The loaded entries are handed to the ROM. *)
LEMMA PublishInv == IInv /\ Publish => IInv'
<1> SUFFICES ASSUME IInv, Publish PROVE IInv'
    OBVIOUS
<1> USE DEF Publish, search
<1>1. error = "OK" /\ error' = "OK" /\ Found
    BY DEF IInv, ErrorInv, Found
<1>2. TypeOK'
    BY DEF IInv, TypeOK, Results, IsRom, Entries
<1>3. SearchInv' /\ ErrorInv' /\ FoundInv'
    BY <1>1, Frame DEF IInv, SearchInv, ErrorInv, FoundInv, Found
<1>4. LoadInv'
    BY <1>1, Frame DEF IInv, LoadInv, Found, LoadedCount, EntryAt
<1>5. QED
    BY <1>2, <1>3, <1>4 DEF IInv

(* The invariant is inductive. *)
LEMMA NextInv == IInv /\ [Next]_vars => IInv'
<1>1. IInv /\ UNCHANGED vars => IInv'
  <2> SUFFICES ASSUME IInv, UNCHANGED vars PROVE IInv'
      OBVIOUS
  <2> USE DEF IInv, vars
  <2>1. TypeOK'
      BY DEF TypeOK, Results, IsRom, Entries
  <2>2. SearchInv'
      BY Frame DEF SearchInv, Want
  <2>3. ErrorInv' /\ FoundInv'
      BY Frame DEF ErrorInv, FoundInv, Found
  <2>4. LoadInv'
      BY Frame DEF LoadInv, Found, LoadedCount, EntryAt
  <2>5. QED
      BY <2>1, <2>2, <2>3, <2>4
<1>2. QED
    BY <1>1, GetSizeInv, ReadChunkInv, GiveUpInv, SkipSlotInv, ProbeSlotInv,
       NextChunkInv, AllocateInv, LoadBatchInv, PublishInv
    DEF Next, Find, Load

-----------------------------------------------------------------------------
(* The inductive invariant holds of the search and the load of every image *)
(* with every chunk and batch size (rom_dma.c, both loops).                *)
THEOREM Invariance == Spec => []IInv
BY InitInv, NextInv, PTL DEF Spec

(* Every variable keeps its type and no offset leaves the image, so the    *)
(* 32-bit sums of rom_dma.c never wrap.                                    *)
THEOREM TypeCorrect == Spec => []TypeOK
<1>1. IInv => TypeOK
    BY DEF IInv
<1>2. QED
    BY Invariance, <1>1, PTL

(* zelda64_find_dmadata finds the first table of the image. *)
THEOREM FirstTable == Spec => []FindsFirstTable
<1>1. IInv => FindsFirstTable
  <2> SUFFICES ASSUME IInv, Found
               PROVE  TableAt(info.offset) /\ \A a \in Tables : info.offset <= a
      BY DEF FindsFirstTable, Found
  <2>1. info.offset \in Tables /\ NoTableBefore(info.offset)
      BY DEF IInv, FoundInv
  <2>2. \A a \in Tables : a \in Int
      BY DEF Tables, Slots, IInv, TypeOK, IsRom
  <2>3. QED
      BY <2>1, <2>2, FoundTable DEF Tables, NoTableBefore
<1>2. QED
    BY Invariance, <1>1, PTL

(* An image reported as truncated or without DMADATA holds no table. *)
THEOREM NoneMissed == Spec => []MissesNoTable
<1>1. IInv => MissesNoTable
    BY DEF IInv, ErrorInv, MissesNoTable
<1>2. QED
    BY Invariance, <1>1, PTL

(* zelda64_read_dmadata publishes the whole table, entry for entry. *)
THEOREM WholeTable == Spec => []PublishesWholeTable
<1>1. IInv => PublishesWholeTable
  <2> SUFFICES ASSUME IInv, dmadata = "buffer"
               PROVE  /\ DOMAIN entries = 0..(info.count - 1)
                      /\ \A k \in 0..(info.count - 1) :
                            entries[k] = EntryAt(info.offset + k * ENTRY)
      BY DEF PublishesWholeTable
  <2>1. pc = "done" /\ error = "OK" /\ loaded >= info.count /\ Found
      BY DEF IInv, LoadInv, TypeOK, Found
  <2>2. LoadedCount = info.count
      BY <2>1, FoundTable DEF LoadedCount, IInv, TypeOK
  <2>3. QED
      BY <2>1, <2>2 DEF IInv, LoadInv
<1>2. QED
    BY Invariance, <1>1, PTL

(* The entries are owned by the ROM exactly when loading succeeded. *)
THEOREM Ownership == Spec => []OwnedIffLoaded
<1>1. IInv => OwnedIffLoaded
    BY DEF IInv, LoadInv, OwnedIffLoaded
<1>2. QED
    BY Invariance, <1>1, PTL

(* A table that was found is never reported as cut short. *)
THEOREM FoundIsLoadable == Spec => []FoundTableIsNeverTruncated
<1>1. IInv => FoundTableIsNeverTruncated
    BY DEF IInv, ErrorInv, FoundTableIsNeverTruncated
<1>2. QED
    BY Invariance, <1>1, PTL

(* An opened ROM has at least three files and its entry 2 describes the    *)
(* table itself, which zelda64_write_dmadata relies on.                    *)
THEOREM SelfDescribing == Spec => []OpenedTableDescribesItself
<1>1. IInv /\ PublishesWholeTable => OpenedTableDescribesItself
  <2> SUFFICES ASSUME IInv, PublishesWholeTable, dmadata = "buffer"
               PROVE  /\ info.count >= 3
                      /\ entries[2].vrom_start = info.offset
                      /\ entries[2].vrom_end - entries[2].vrom_start = info.count * ENTRY
                      /\ \A k \in 0..2 : entries[k].rom_end = 0
                      /\ \A k \in 0..1 : entries[k].vrom_end = entries[k + 1].vrom_start
      BY DEF OpenedTableDescribesItself
  <2> DEFINE o == info.offset
  <2>1. Found
      BY DEF IInv, LoadInv, TypeOK, Found
  <2>2. /\ o \in Nat /\ info.count \in Nat /\ info.count >= 3
        /\ EntryAt(o + 2 * ENTRY) =
              [vrom_start |-> o, vrom_end |-> o + info.count * ENTRY,
               rom_start |-> o, rom_end |-> 0]
      BY <2>1, FoundTable
  <2>3. \A k \in 0..2 : entries[k] = EntryAt(o + k * ENTRY)
      BY <2>2 DEF PublishesWholeTable
  <2>4. /\ entries[0] = EntryAt(o)
        /\ entries[1] = EntryAt(o + ENTRY)
        /\ entries[2] = EntryAt(o + 2 * ENTRY)
      BY <2>2, <2>3 DEF ENTRY
  <2>5. PICK A : /\ EntryAt(o) = [vrom_start |-> 0, vrom_end |-> A,
                                  rom_start |-> 0, rom_end |-> 0]
                 /\ EntryAt(o + ENTRY) = [vrom_start |-> A, vrom_end |-> o,
                                          rom_start |-> A, rom_end |-> 0]
      BY <2>1 DEF IInv, FoundInv, Tables, TableAt
  <2>6. /\ entries[0].rom_end = 0 /\ entries[1].rom_end = 0 /\ entries[2].rom_end = 0
        /\ entries[0].vrom_end = entries[1].vrom_start
        /\ entries[1].vrom_end = entries[2].vrom_start
        /\ entries[2].vrom_start = o
        /\ entries[2].vrom_end = o + info.count * ENTRY
      BY <2>2, <2>4, <2>5
  <2>7. info.count * ENTRY \in Nat
      BY <2>2 DEF ENTRY
  <2>8. \A k \in 0..2 : k = 0 \/ k = 1 \/ k = 2
      OBVIOUS
  <2>9. \A k \in 0..1 : k = 0 \/ k = 1
      OBVIOUS
  <2>10. QED
      BY <2>2, <2>6, <2>7, <2>8, <2>9
<1>2. QED
    BY Invariance, WholeTable, <1>1, PTL

(* The two loops implement the lookup of the first table, DmaLookup. *)
THEOREM Refinement == Spec => ImplementsLookup
<1> DEFINE ans == IF pc # "done"
                  THEN [result |-> "PENDING", offset |-> 0]
                  ELSE [result |-> error,
                        offset |-> IF error = "OK" THEN info.offset ELSE 0]
<1>1. Init => Lookup!Init
    BY DEF Init, Lookup!Init, Lookup!Pending, Tables, Slots, IsRom
<1>2. IInv /\ IInv' /\ [Next]_vars => [Lookup!Next]_(Lookup!vars)
  <2> SUFFICES ASSUME IInv, IInv', [Next]_vars
               PROVE  [Lookup!Next]_(Lookup!vars)
      OBVIOUS
  <2>1. Tables' = Tables
      BY Frame DEF Next, Find, Load, vars, GetSize, ReadChunk, GiveUp, SkipSlot,
         ProbeSlot, NextChunk, Allocate, LoadBatch, Publish
  <2>2. CASE pc' # "done"
    <3>1. pc # "done"
        BY <2>2 DEF Next, Find, Load, vars, GetSize, ReadChunk, GiveUp, SkipSlot,
           ProbeSlot, NextChunk, Allocate, LoadBatch, Publish
    <3>2. ans' = ans
        BY <2>2, <3>1
    <3>3. QED
        BY <2>1, <3>2 DEF Lookup!vars
  <2>3. CASE pc = "done"
    <3>1. UNCHANGED vars
        BY <2>3 DEF Next, Find, Load, vars, GetSize, ReadChunk, GiveUp, SkipSlot,
           ProbeSlot, NextChunk, Allocate, LoadBatch, Publish
    <3>2. ans' = ans
        BY <3>1 DEF vars
    <3>3. QED
        BY <2>1, <3>2 DEF Lookup!vars
  <2>4. CASE pc # "done" /\ pc' = "done"
    <3>1. ans = Lookup!Pending
        BY <2>4 DEF Lookup!Pending
    <3>2. ans' = [result |-> error',
                  offset |-> IF error' = "OK" THEN info'.offset ELSE 0]
        BY <2>4
    <3>3. CASE error' = "OK"
      <4>1. /\ info'.offset \in Tables'
            /\ \A b \in Tables' : b >= info'.offset
          BY <2>4, <3>3 DEF IInv, FoundInv, Found, NoTableBefore
      <4>2. \A b \in Tables : b \in Int
          BY DEF Tables, Slots, IInv, TypeOK, IsRom
      <4>3. Lookup!AnswerFirst
          BY <4>1, <4>2, <2>1, <3>2, <3>3 DEF Lookup!AnswerFirst
      <4>4. QED
          BY <4>3, <3>1, <2>1 DEF Lookup!Next
    <3>4. CASE error' \in {"NO_DMADATA", "TRUNCATED"}
      <4>1. Tables' = {}
          BY <2>4, <3>4 DEF IInv, ErrorInv
      <4>2. Lookup!AnswerNone
          BY <4>1, <2>1, <3>2, <3>4 DEF Lookup!AnswerNone
      <4>3. QED
          BY <4>2, <3>1, <2>1 DEF Lookup!Next
    <3>5. CASE error' \in {"ERRNO", "MEMORY_ERROR", "OUT_OF_RANGE"}
      <4>1. Lookup!AnswerFailed
          BY <3>2, <3>5 DEF Lookup!AnswerFailed
      <4>2. QED
          BY <4>1, <3>1, <2>1 DEF Lookup!Next
    <3>6. error' \in Results
        BY DEF IInv, TypeOK
    <3>7. QED
        BY <3>3, <3>4, <3>5, <3>6 DEF Results
  <2>5. QED
      BY <2>2, <2>3, <2>4
<1>3. QED
    BY <1>1, <1>2, Invariance, PTL DEF Spec, ImplementsLookup, Lookup!Spec

-----------------------------------------------------------------------------
(* The search and the load end: what is left of the call, of the image, of *)
(* the chunk and of the table becomes less with every step.                *)

CallsLeft ==
    CASE pc = "size" -> 4 [] pc \in {"chunk", "slot"} -> 3 [] pc = "alloc" -> 2
      [] pc = "load" -> 1 [] OTHER -> 0
ImageLeft == rom.size - offset
ChunkLeft == IF pc = "chunk" THEN 1 ELSE 0
SlotsLeft == IF i < Want THEN Want - i ELSE 0
EntriesLeft == IF loaded < info.count THEN info.count - loaded ELSE 0

Left == <<CallsLeft, ImageLeft, ChunkLeft,
          IF pc = "load" THEN EntriesLeft ELSE IF pc = "slot" THEN SlotsLeft ELSE 0>>

LEMMA LeftIsMeasure == IInv => IsMeasure(Left)
<1> SUFFICES ASSUME IInv PROVE IsMeasure(Left)
    OBVIOUS
<1>1. /\ rom.size \in Nat /\ offset \in Nat /\ offset <= rom.size /\ i \in Nat
      /\ loaded \in Nat /\ info.count \in Nat /\ CHUNK_SIZE \in Nat
    BY ChunkAssumption DEF IInv, TypeOK, IsRom
<1>2. Want \in Nat
    BY <1>1 DEF Want
<1>3. /\ CallsLeft \in Nat /\ ImageLeft \in Nat /\ ChunkLeft \in Nat
      /\ SlotsLeft \in Nat /\ EntriesLeft \in Nat
    BY <1>1, <1>2 DEF CallsLeft, ImageLeft, ChunkLeft, SlotsLeft, EntriesLeft
<1>4. QED
    BY <1>3 DEF Left, IsMeasure

(* Enough for a tuple of four to be less. *)
LEMMA IsLessIf ==
    ASSUME NEW u, NEW v, Len(v) = 4,
           \/ u[1] < v[1]
           \/ u[1] = v[1] /\ u[2] < v[2]
           \/ u[1] = v[1] /\ u[2] = v[2] /\ u[3] < v[3]
           \/ u[1] = v[1] /\ u[2] = v[2] /\ u[3] = v[3] /\ u[4] < v[4]
    PROVE  IsLess(u, v)
<1>1. CASE u[1] < v[1]
    BY <1>1 DEF IsLess
<1>2. CASE u[1] = v[1] /\ u[2] < v[2]
    BY <1>2 DEF IsLess
<1>3. CASE u[1] = v[1] /\ u[2] = v[2] /\ u[3] < v[3]
    BY <1>3 DEF IsLess
<1>4. CASE u[1] = v[1] /\ u[2] = v[2] /\ u[3] = v[3] /\ u[4] < v[4]
    BY <1>4 DEF IsLess
<1>5. QED
    BY <1>1, <1>2, <1>3, <1>4

LEMMA StepIsLess == IInv /\ Next => IsLess(Left', Left)
<1> SUFFICES ASSUME IInv, Next PROVE IsLess(Left', Left)
    OBVIOUS
<1> DEFINE last(p, e, s) == IF p = "load" THEN e ELSE IF p = "slot" THEN s ELSE 0
<1>1. /\ Len(Left) = 4
      /\ Left[1] = CallsLeft /\ Left[2] = ImageLeft /\ Left[3] = ChunkLeft
      /\ Left[4] = last(pc, EntriesLeft, SlotsLeft)
      /\ Left'[1] = CallsLeft' /\ Left'[2] = ImageLeft' /\ Left'[3] = ChunkLeft'
      /\ Left'[4] = last(pc', EntriesLeft', SlotsLeft')
    BY DEF Left
<1>2. /\ rom.size \in Nat /\ offset \in Nat /\ offset <= rom.size /\ i \in Nat
      /\ loaded \in Nat /\ info.count \in Nat
      /\ CHUNK_SIZE \in Nat /\ CHUNK_SIZE > 0 /\ READ_COUNT \in Nat /\ READ_COUNT > 0
    BY ChunkAssumption, ReadCountAssumption DEF IInv, TypeOK, IsRom
<1>3. pc = "slot" => offset < rom.size
    BY DEF IInv, SearchInv
<1>4. CASE GetSize \/ GiveUp \/ Allocate \/ Publish
    BY <1>1, <1>4, IsLessIf DEF GetSize, GiveUp, Allocate, Publish, CallsLeft
<1>5. CASE ReadChunk
    BY <1>1, <1>2, <1>5, IsLessIf DEF ReadChunk, CallsLeft, ImageLeft, ChunkLeft
<1>6. CASE SkipSlot \/ ProbeSlot
  <2>1. rom' = rom /\ offset' = offset
      BY <1>6 DEF SkipSlot, ProbeSlot
  <2>2. CASE pc' = "slot"
    <3>1. pc = "slot" /\ i' = i + 16 /\ i + 16 <= Want
        BY <1>6, <2>2 DEF SkipSlot, ProbeSlot, SlotInChunk, ENTRY
    <3>2. Want' = Want /\ Want \in Nat
        BY <2>1, <1>2 DEF Want
    <3>3. SlotsLeft' < SlotsLeft
        BY <3>1, <3>2, <1>2 DEF SlotsLeft
    <3>4. QED
        BY <1>1, <2>1, <2>2, <3>1, <3>3, IsLessIf DEF CallsLeft, ImageLeft, ChunkLeft
  <2>3. CASE pc' # "slot"
    <3>1. pc = "slot" /\ pc' \in {"done", "alloc"}
        BY <1>6, <2>3 DEF SkipSlot, ProbeSlot
    <3>2. QED
        BY <1>1, <3>1, IsLessIf DEF CallsLeft
  <2>4. QED
      BY <2>2, <2>3
<1>7. CASE NextChunk
  <2>1. pc = "slot" /\ pc' = "chunk" /\ rom' = rom /\ offset' = offset + Want
      BY <1>7 DEF NextChunk
  <2>2. Want \in Nat /\ Want > 0
      BY <1>2, <1>3, <2>1 DEF Want
  <2>3. ImageLeft' < ImageLeft /\ CallsLeft' = CallsLeft
      BY <1>2, <2>1, <2>2 DEF ImageLeft, CallsLeft
  <2>4. QED
      BY <1>1, <2>3, IsLessIf
<1>8. CASE LoadBatch
  <2>1. pc = "load" /\ rom' = rom /\ offset' = offset /\ info' = info
        /\ loaded < info.count
      BY <1>8 DEF LoadBatch, search
  <2>2. CASE pc' = "done"
      BY <1>1, <2>1, <2>2, IsLessIf DEF CallsLeft
  <2>3. CASE pc' # "done"
    <3>1. pc' = "load" /\ loaded' = loaded + READ_COUNT
        BY <1>8, <2>1, <2>3 DEF LoadBatch, StoreBatch
    <3>2. EntriesLeft' < EntriesLeft
        BY <1>2, <2>1, <3>1 DEF EntriesLeft
    <3>3. QED
        BY <1>1, <2>1, <3>1, <3>2, IsLessIf DEF CallsLeft, ImageLeft, ChunkLeft
  <2>4. QED
      BY <2>2, <2>3
<1>9. QED
    BY <1>4, <1>5, <1>6, <1>7, <1>8 DEF Next, Find, Load

(* zelda64_find_dmadata and zelda64_read_dmadata end on every image: each  *)
(* step of their loops leaves less to do.                                  *)
THEOREM ScanEnds == Spec => []IsMeasure(Left) /\ [][IsLess(Left', Left)]_vars
<1>1. IInv /\ [Next]_vars => [IsLess(Left', Left)]_vars
    BY StepIsLess
<1>2. QED
    BY <1>1, LeftIsMeasure, Invariance, PTL DEF Spec
=============================================================================
