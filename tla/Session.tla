------------------------------ MODULE Session ------------------------------
(***************************************************************************)
(* A caller of libzelda64 and the memory behind its handles: ROMs are      *)
(* opened from files and buffers and closed (lib/rom_open.c, with what     *)
(* lib/rom_dma.c and lib/rom_cic.c decide), layouts are made, changed,     *)
(* written and freed (lib/rom_compress.c, lib/rom_decompress.c,            *)
(* lib/layout_operation.c, lib/layout_write.c, lib/layout_free.c).         *)
(*                                                                         *)
(* The heap holds tagged blocks; a handle is an address, and the first     *)
(* free one is given out again.  An open FILE is a block of the C library. *)
(* Every allocation and every call of the host may fail.  The caller makes *)
(* only the calls it may: on handles it holds, and on a layout what reads  *)
(* its ROM only while that is open.                                        *)
(***************************************************************************)
EXTENDS Integers

CONSTANTS
    Blocks,      \* the addresses, numbers from 1 on
    Allocators,
    RomSlots, LayoutSlots,
    Counts,      \* the numbers of files ROMs have
    Indexes, LayoutIndexes,
    TableErrors, \* how zelda64_read_dmadata fails when there is memory,
    CicErrors,   \* how zelda64_detect_cic fails,
    WriteErrors  \* and write_rom

VARIABLES
    heap,     \* what is at each address
    roms,     \* the ROM handle in each of the caller's slots, or NULL
    layouts,  \* [at, of]: the layout handle, and the slot of its ROM
    pc,       \* the next step of the call under way
    local,    \* its arguments and variables
    said      \* the last call that returned, and the error record it left

vars == <<heap, roms, layouts, pc, local, said>>
held == <<roms, layouts>>

NULL == 0
Nowhere == [at |-> NULL, of |-> "none"]
Gone == "closed"
NoLocal == [call |-> <<"none">>]

ASSUME SessionAssumption ==
    /\ Blocks \subseteq Nat \ {NULL}
    /\ Counts \subseteq Nat \ {0}
    /\ Indexes \subseteq Nat /\ LayoutIndexes \subseteq Nat
    /\ RomSlots \cap {Nowhere.of, Gone} = {}

Errors == {"MEMORY_ERROR", "ERRNO", "OUT_OF_RANGE"} \cup TableErrors \cup CicErrors \cup WriteErrors

-----------------------------------------------------------------------------
(* External: the heap, as allocators see it.  Giving back what is not      *)
(* allocated, or was allocated by another allocator, corrupts it.          *)

Free == [what |-> "free"]
Corrupt == [what |-> "corrupt"]
Taken(h) == {p \in Blocks : h[p] # Free}
NextFree(h) ==
    LET free == Blocks \ Taken(h)
    IN IF free = {} THEN NULL ELSE CHOOSE p \in free : \A q \in free : p <= q
Room(h) == NextFree(h) # NULL

Put(h, block) == [h EXCEPT ![NextFree(h)] = block]

zelda64_free(h, a, p) ==
    IF p = NULL THEN h
    ELSE [h EXCEPT ![p] = IF h[p] \in {Free, Corrupt} THEN Corrupt
                          ELSE IF h[p].by = a THEN Free ELSE Corrupt]

(* The blocks the library allocates; struct zelda64_io is part of its ROM. *)
Stream == [what |-> "FILE", by |-> "stdio"]
IoState(a, file) == [what |-> "io", by |-> a, allocator |-> a, file |-> file]
Rom(a, io) ==
    [what |-> "rom", by |-> a, allocator |-> a, io |-> io, dmadata |-> NULL, count |-> 0]
Table(a) == [what |-> "table", by |-> a]
Entries(a, rom, n) == [what |-> "entries", by |-> a, rom |-> rom, count |-> n]

(* Mutant: the layout remembers the allocator of its ROM. *)
LayoutOfRom(a, entries) ==
    [what |-> "layout", by |-> a, allocator |-> heap[local.rom].allocator,
     entries |-> entries, count |-> heap[entries].count]

Layout(a, entries) ==
    [what |-> "layout", by |-> a, allocator |-> a, entries |-> entries,
     count |-> heap[entries].count]

Init ==
    /\ heap = [p \in Blocks |-> Free]
    /\ roms = [r \in RomSlots |-> NULL]
    /\ layouts = [l \in LayoutSlots |-> Nowhere]
    /\ pc = "idle" /\ local = NoLocal
    /\ said = [call |-> <<"none">>, error |-> "OK"]

-----------------------------------------------------------------------------
(* The parts of a call. *)

(* The call is over: it leaves the heap h, and e in the caller's record. *)
Return(h, c, e) ==
    /\ heap' = h
    /\ pc' = "idle" /\ local' = NoLocal
    /\ said' = [call |-> c, error |-> e]

Fail(h, e) == Return(h, local.call, e) /\ UNCHANGED held

Continue(h, step, l) ==
    /\ heap' = h
    /\ pc' = step /\ local' = l
    /\ UNCHANGED <<held, said>>

(* zelda64_io_close: the FILE of an object that has one, and its state. *)
zelda64_io_close(h, io) ==
    zelda64_free(zelda64_free(h, "stdio", h[io].file), h[io].allocator, io)

zelda64_close(h, p) ==
    LET h1 == zelda64_free(h, h[p].allocator, h[p].dmadata)
        h2 == zelda64_io_close(h1, h[p].io)
    IN zelda64_free(h2, h[p].allocator, p)

(* zelda64_io_fopen, zelda64_io_fopen_ro and the two for buffers; the call  *)
(* goes on at the given step with the new object.                          *)
OpenIo(a, kind, step, l) ==
    LET io == NextFree(heap)
        h1 == Put(heap, IoState(a, NULL))
        file == NextFree(h1)
        h2 == [Put(h1, Stream) EXCEPT ![io].file = file]
    IN \/ Return(heap, l.call, "MEMORY_ERROR") /\ UNCHANGED held
       \/ /\ Room(heap) /\ kind = "file"
          /\ Return(zelda64_free(h1, a, io), l.call, "ERRNO")
          /\ UNCHANGED held
       \/ /\ Room(heap) /\ kind = "file" /\ Room(h1)
          /\ Continue(h2, step, [l EXCEPT !.io = io])
       \/ /\ Room(heap) /\ kind = "buffer"
          /\ Continue(h1, step, [l EXCEPT !.io = io])

-----------------------------------------------------------------------------
(* zelda64_open and zelda64_open_buffer, with or without an allocator. *)

zelda64_open(r, a, kind) ==
    /\ pc = "idle" /\ roms[r] = NULL
    /\ OpenIo(a, kind, "rom",
              [call |-> <<"open", r>>, slot |-> r, io |-> NULL, a |-> a, rom |-> NULL])

(* Mutant: the I/O object is forgotten when there is no memory. *)
OpenRomLeaks ==
    /\ pc = "rom"
    /\ \/ Fail(heap, "MEMORY_ERROR")
       \/ /\ Room(heap)
          /\ Continue(Put(heap, Rom(local.a, local.io)), "dmadata",
                      [local EXCEPT !.rom = NextFree(heap)])

(* open_from_io: the ROM takes the I/O object over. *)
OpenRom ==
    /\ pc = "rom"
    /\ \/ Fail(zelda64_io_close(heap, local.io), "MEMORY_ERROR")
       \/ /\ Room(heap)
          /\ Continue(Put(heap, Rom(local.a, local.io)), "dmadata",
                      [local EXCEPT !.rom = NextFree(heap)])

(* A read of the table t breaks off: zelda64_read_dmadata gives it back. *)
LoadBreaksOff(h, p, t) == zelda64_free(h, h[p].allocator, t)

(* zelda64_read_dmadata: no table is found, or there is no memory for it,  *)
(* or reading it breaks off, or the ROM has it.  See DmaScan.              *)
ReadDmadata ==
    LET p == local.rom
        t == NextFree(heap)
        h1 == Put(heap, Table(heap[p].allocator))
    IN /\ pc = "dmadata"
       /\ \/ \E e \in TableErrors \cup {"MEMORY_ERROR"} :
                Fail(zelda64_close(heap, p), e)
          \/ /\ Room(heap)
             /\ \E e \in TableErrors : Fail(zelda64_close(LoadBreaksOff(h1, p, t), p), e)
          \/ /\ Room(heap)
             /\ \E n \in Counts :
                   Continue([h1 EXCEPT ![p].dmadata = t, ![p].count = n], "cic", local)

(* Mutant: the ROM is closed and returned. *)
DetectCicReturns ==
    /\ pc = "cic"
    /\ \/ \E e \in CicErrors : Return(zelda64_close(heap, local.rom), local.call, e)
       \/ Return(heap, local.call, "OK")
    /\ roms' = [roms EXCEPT ![local.slot] = local.rom]
    /\ UNCHANGED layouts

(* zelda64_detect_cic; see CheckCode.  Then the handle is the caller's. *)
DetectCic ==
    /\ pc = "cic"
    /\ \/ \E e \in CicErrors : Fail(zelda64_close(heap, local.rom), e)
       \/ /\ Return(heap, local.call, "OK")
          /\ roms' = [roms EXCEPT ![local.slot] = local.rom]
          /\ UNCHANGED layouts

CloseRom(r) ==
    /\ pc = "idle" /\ roms[r] # NULL
    /\ roms' = [roms EXCEPT ![r] = NULL]
    /\ layouts' = [l \in LayoutSlots |->
                      IF layouts[l].of = r THEN [layouts[l] EXCEPT !.of = Gone] ELSE layouts[l]]
    /\ Return(zelda64_close(heap, roms[r]), <<"close", r>>, "OK")

(* Mutant: one entry too many. *)
entry_off_by_one(r, i) ==
    /\ pc = "idle" /\ roms[r] # NULL
    /\ Return(heap, <<"entry", r, i>>, IF i > heap[roms[r]].count THEN "OUT_OF_RANGE" ELSE "OK")
    /\ UNCHANGED held

zelda64_dmadata_entry(r, i) ==
    /\ pc = "idle" /\ roms[r] # NULL
    /\ Return(heap, <<"entry", r, i>>, IF i >= heap[roms[r]].count THEN "OUT_OF_RANGE" ELSE "OK")
    /\ UNCHANGED held

-----------------------------------------------------------------------------
(* zelda64_compress and zelda64_decompress.  The allocator may differ from *)
(* the ROM's.  What the entries say is in RomFiles.                        *)

AllocEntries(r, l, a) ==
    LET c == <<"layout", r, l>>
        p == roms[r]
    IN /\ pc = "idle" /\ p # NULL /\ layouts[l] = Nowhere
       /\ \/ Return(heap, c, "MEMORY_ERROR") /\ UNCHANGED held
          \/ /\ Room(heap)
             /\ Continue(Put(heap, Entries(a, p, heap[p].count)), "layout",
                         [call |-> c, slot |-> l, of |-> r, rom |-> p, a |-> a,
                          entries |-> NextFree(heap)])

AllocLayout ==
    /\ pc = "layout"
    /\ \/ Fail(zelda64_free(heap, local.a, local.entries), "MEMORY_ERROR")
       \/ /\ Room(heap)
          /\ Return(Put(heap, Layout(local.a, local.entries)), local.call, "OK")
          /\ layouts' = [layouts EXCEPT ![local.slot] = [at |-> NextFree(heap), of |-> local.of]]
          /\ UNCHANGED roms

zelda64_free_layout(l) ==
    LET p == layouts[l].at
        h1 == zelda64_free(heap, heap[p].allocator, heap[p].entries)
    IN /\ pc = "idle" /\ p # NULL
       /\ layouts' = [layouts EXCEPT ![l] = Nowhere]
       /\ Return(zelda64_free(h1, heap[p].allocator, p), <<"free", l>>, "OK")
       /\ UNCHANGED roms

(* An entry behind the last one is memory of something else. *)
zelda64_layout_set_operation(l, i) ==
    LET p == layouts[l].at
        c == <<"set", l, i>>
    IN /\ pc = "idle" /\ p # NULL
       /\ IF i > heap[p].count THEN Return(heap, c, "OUT_OF_RANGE")
          ELSE IF i < heap[heap[p].entries].count THEN Return(heap, c, "OK")
          ELSE Return([heap EXCEPT ![heap[p].entries] = Corrupt], c, "OK")
       /\ UNCHANGED held

-----------------------------------------------------------------------------
(* zelda64_write and zelda64_write_buffer; what they write is in RomWriter.*)

OpenOutput(l, kind) ==
    LET p == layouts[l].at
    IN /\ pc = "idle" /\ p # NULL
       /\ layouts[l].of \in RomSlots
       /\ OpenIo(heap[p].allocator, kind, "table",
                 [call |-> <<"write", l>>, layout |-> p, io |-> NULL, table |-> NULL])

(* write_rom allocates the new table, *)
AllocTable ==
    /\ pc = "table"
    /\ \/ Fail(zelda64_io_close(heap, local.io), "MEMORY_ERROR")
       \/ /\ Room(heap)
          /\ Continue(Put(heap, Table(heap[local.layout].allocator)), "write",
                      [local EXCEPT !.table = NextFree(heap)])

(* and gives it back on every way out; the output is closed behind it. *)
WriteRom ==
    LET h1 == zelda64_free(heap, heap[local.layout].allocator, local.table)
        h2 == zelda64_io_close(h1, local.io)
    IN /\ pc = "write"
       /\ \E e \in WriteErrors \cup {"OK"} : Fail(h2, e)

-----------------------------------------------------------------------------
Roms ==
    \/ \E r \in RomSlots :
          \/ \E a \in Allocators, kind \in {"file", "buffer"} : zelda64_open(r, a, kind)
          \/ CloseRom(r)
          \/ \E i \in Indexes : zelda64_dmadata_entry(r, i)
    \/ OpenRom \/ ReadDmadata \/ DetectCic

Layouts ==
    \/ \E l \in LayoutSlots :
          \/ \E r \in RomSlots, a \in Allocators : AllocEntries(r, l, a)
          \/ zelda64_free_layout(l)
          \/ \E i \in LayoutIndexes : zelda64_layout_set_operation(l, i)
          \/ \E kind \in {"file", "buffer"} : OpenOutput(l, kind)
    \/ AllocLayout \/ AllocTable \/ WriteRom

Next == Roms \/ Layouts

Spec == Init /\ [][Next]_vars

-----------------------------------------------------------------------------
(* Properties. *)

(* Every variable keeps its type. *)
TypeOK ==
    /\ \A p \in Blocks : heap[p].what \in
          {"free", "corrupt", "FILE", "io", "rom", "table", "entries", "layout"}
    /\ \A r \in RomSlots : roms[r] # NULL => heap[roms[r]].what = "rom"
    /\ \A l \in LayoutSlots : layouts[l].at # NULL => heap[layouts[l].at].what = "layout"
    /\ pc \in {"idle", "rom", "dmadata", "cic", "layout", "table", "write"}
    /\ said.error \in Errors \cup {"OK"}

(* No block is given back twice or to an allocator it is not from, and     *)
(* nothing is written behind one: on every way out of opening a ROM,       *)
(* making a layout and writing it, with different allocators for the ROM   *)
(* and its layouts, and in every order in which they may be released.      *)
HeapIsSound == \A p \in Blocks : heap[p] # Corrupt

(* What the handles of the caller lead to; the entries of a layout lead to *)
(* its ROM while that is open.                                             *)
OfRom(p) == {p, heap[p].dmadata, heap[p].io, heap[heap[p].io].file} \ {NULL}
OfLayout(l) ==
    LET p == l.at
    IN {p, heap[p].entries}
       \cup IF l.of = Gone THEN {} ELSE OfRom(heap[heap[p].entries].rom)
Reachable ==
    UNION ({OfRom(roms[r]) : r \in {s \in RomSlots : roms[s] # NULL}}
           \cup {OfLayout(layouts[l]) : l \in {k \in LayoutSlots : layouts[k].at # NULL}})

(* zelda64.h: zelda64_close "releases all associated resources".  Between  *)
(* calls, what is allocated and which files are open is what the caller's  *)
(* handles lead to: a call that failed, wherever it broke off, has         *)
(* released all it took, and no handle leads to what was released.         *)
NothingLeaks == pc = "idle" => Taken(heap) = Reachable

(* The handles the caller sees behave as if there were no memory at all.   *)
Promise == INSTANCE Handles WITH
    open <- [r \in RomSlots |-> IF roms[r] = NULL THEN 0 ELSE heap[roms[r]].count],
    layouts <- [l \in LayoutSlots |->
                   IF layouts[l].at = NULL THEN [of |-> "none", count |-> 0]
                   ELSE [of |-> layouts[l].of, count |-> heap[layouts[l].at].count]]

ImplementsHandles == Promise!Spec

(* rom_dma.c asks "Is the entry within range?" of an index and refuses the *)
(* number of entries itself; no index it would refuse reaches an entry of  *)
(* a layout.                                                               *)
IndexIsInLayout ==
    [][\A l \in LayoutSlots, i \in LayoutIndexes :
          said' # said /\ said'.call = <<"set", l, i>> /\ said'.error = "OK"
             => i < heap[layouts[l].at].count]_vars
=============================================================================
