------------------------------ MODULE RomFiles ------------------------------
(***************************************************************************)
(* A ROM as the library sees it once it is open: the DMADATA table and the *)
(* bytes behind it, what zelda64_stat and the readers make of an entry     *)
(* (lib/rom_stat.c, lib/rom_read.c), the layouts that say what to do with  *)
(* each file (lib/rom_compress.c, lib/rom_decompress.c,                    *)
(* lib/layout_operation.c) and the bound on what they produce              *)
(* (lib/layout_bound.c).                                                   *)
(*                                                                         *)
(* Sizes and addresses are counted in cells of 8 bytes: an alignment unit, *)
(* a table entry and a Yaz0 header are two cells each.  A cell is a tuple: *)
(* <<"file", f, form, k>> is the k-th cell of file f under `form' layers   *)
(* of Yaz0; the other tags name what the writer puts between the files.    *)
(***************************************************************************)
EXTENDS Words, Sequences, FiniteSets

HEADER == 2         \* the 16 bytes yaz0_read_header looks at
ENTRY_CELLS == 2    \* ZELDA64_DMA_ENTRY_SIZE

(* A ROM: its table, its cells, and the sizes of its files as they are and *)
(* as a Yaz0 stream.                                                       *)
Files(rom) == DOMAIN rom.dma
Count(rom) == Cardinality(Files(rom))
Content(rom, f, form) ==
    [k \in 1..(IF form = 0 THEN rom.plain[f] ELSE rom.packed[f]) |->
        <<"file", f, form, k>>]

Zero == <<"zero">>
Stale == <<"stale">>

IsYaz0Header(c) == c # Stale /\ c[1] = "file" /\ c[3] > 0 /\ c[4] = 1

(* What every ROM is, wherever it is cut off: a record whose table holds   *)
(* words, in which a stream's header names a file and gives its sizes.     *)
IsRom(rom) ==
    /\ {"dma", "cells", "plain", "packed"} \subseteq DOMAIN rom
    /\ rom.cells \in Seq({rom.cells[k] : k \in DOMAIN rom.cells})
    /\ \A k \in DOMAIN rom.cells :
          IsYaz0Header(rom.cells[k]) => /\ rom.cells[k][2] \in Files(rom)
                                        /\ rom.cells[k][3] \in Nat
    /\ \A f \in Files(rom) :
          {rom.dma[f].vrom_start, rom.dma[f].vrom_end, rom.dma[f].rom_start,
           rom.dma[f].rom_end, rom.plain[f], rom.packed[f]} \subseteq Word

(* What a read of n cells at a leaves in a chunk: past the end of the ROM  *)
(* the chunk keeps what was in it before.                                  *)
ChunkAt(rom, a, n) ==
    [k \in 1..n |-> IF a + k <= Len(rom.cells) THEN rom.cells[a + k] ELSE Stale]

-----------------------------------------------------------------------------
(* zelda64_dmadata_kind and zelda64_stat. *)

zelda64_dmadata_kind(e) ==
    IF e.rom_end = UINT32_MAX THEN "DELETED"
    ELSE IF e.rom_end = 0 THEN "STORED" ELSE "COMPRESSED"

Failure(r) == [result |-> r, offset |-> 0, size |-> 0, file_size |-> 0]

CompressedStat(rom, e) ==
    LET size == e.rom_end - e.rom_start
        header == rom.cells[e.rom_start + 1]
    IN IF size < HEADER THEN Failure("OUT_OF_RANGE")
       ELSE IF e.rom_start + HEADER > Len(rom.cells) THEN Failure("TRUNCATED")
       ELSE IF ~IsYaz0Header(header) THEN Failure("DECOMPRESS_ERROR")
       ELSE [result |-> "OK", offset |-> e.rom_start, size |-> size,
             file_size |-> Len(Content(rom, header[2], header[3] - 1))]

zelda64_stat(rom, i) ==
    LET e == rom.dma[i]
        kind == zelda64_dmadata_kind(e)
        span == e.vrom_end - e.vrom_start
    IN IF kind = "DELETED" THEN Failure("DELETED")
       ELSE IF span < 0 THEN Failure("OUT_OF_RANGE")
       ELSE IF kind = "STORED"
            THEN [result |-> "OK", offset |-> e.rom_start, size |-> span, file_size |-> span]
       ELSE IF e.rom_start > e.rom_end THEN Failure("OUT_OF_RANGE")
       ELSE CompressedStat(rom, e)

(* zelda64_read_storage: up to n cells of the storage of file i from off,  *)
(* whatever lies behind its end or the end of the ROM left out.            *)
zelda64_read_storage(rom, i, off, n) ==
    LET st == zelda64_stat(rom, i)
        want == IF st.size - off < n THEN st.size - off ELSE n
        from == st.offset + off
        to == IF from + want < Len(rom.cells) THEN from + want ELSE Len(rom.cells)
    IN IF st.result # "OK" \/ off >= st.size THEN <<>>
       ELSE SubSeq(rom.cells, from + 1, to)

(* zelda64_read_file: the file, or the error.  A Yaz0 stream reads back as *)
(* what was compressed when all of it is there.                            *)
zelda64_read_file(rom, i) ==
    LET st == zelda64_stat(rom, i)
        storage == zelda64_read_storage(rom, i, 0, st.size)
        header == storage[1]
        stream == Content(rom, header[2], header[3])
    IN IF st.result # "OK" THEN <<st.result>>
       ELSE IF zelda64_dmadata_kind(rom.dma[i]) = "STORED" THEN storage
       ELSE IF Len(stream) <= Len(storage) /\ SubSeq(storage, 1, Len(stream)) = stream
            THEN Content(rom, header[2], header[3] - 1)
       ELSE <<"DECOMPRESS_ERROR">>

-----------------------------------------------------------------------------
(* Layouts: one operation per file. *)

Operations == {"COPY", "COMPRESS", "DECOMPRESS", "DELETE"}

Layout(rom, Operation(_)) ==
    [i \in Files(rom) |-> [vrom_start |-> rom.dma[i].vrom_start,
                           vrom_end |-> rom.dma[i].vrom_end,
                           operation |-> Operation(i)]]

(* The first three files are copied whatever they are. *)
zelda64_compress(rom) ==
    LET Operation(i) ==
            CASE i < 3 -> "COPY"
              [] zelda64_dmadata_kind(rom.dma[i]) = "DELETED" -> "DELETE"
              [] zelda64_dmadata_kind(rom.dma[i]) = "STORED" -> "COMPRESS"
              [] OTHER -> "COPY"
    IN Layout(rom, Operation)

zelda64_decompress(rom) ==
    LET Operation(i) ==
            CASE zelda64_dmadata_kind(rom.dma[i]) = "DELETED" -> "DELETE"
              [] zelda64_dmadata_kind(rom.dma[i]) = "STORED" -> "COPY"
              [] OTHER -> "DECOMPRESS"
    IN Layout(rom, Operation)

zelda64_layout_set_operation(layout, i, op) == [layout EXCEPT ![i].operation = op]

-----------------------------------------------------------------------------
(* zelda64_write_bound. *)

(* External (libyaz0): the largest stream n cells can compress to. *)
yaz0_compress_bound(n) == HEADER + n + (n + 7) \div 8

Bounded(r, n) == [result |-> r, bound |-> n]

zelda64_layout_entry_bound(rom, layout, i) ==
    LET op == layout[i].operation
        st == zelda64_stat(rom, i)
        span == (layout[i].vrom_end - layout[i].vrom_start + WORD) % WORD
    IN IF op = "DELETE" THEN Bounded("OK", 0)
       ELSE IF op = "DECOMPRESS" THEN Bounded("OK", span)
       ELSE IF st.result # "OK" THEN Bounded(st.result, 0)
       ELSE IF op = "COPY" THEN Bounded("OK", st.size)
       ELSE IF yaz0_compress_bound(st.size) >= UINT32_MAX THEN Bounded("OUT_OF_RANGE", 0)
       ELSE Bounded("OK", yaz0_compress_bound(st.size))

Skipped(l) == l.operation = "DELETE" \/ l.vrom_start = l.vrom_end

(* Mutant: files are added up without their alignment. *)
AddUnaligned(rom, layout, pack, b, i) ==
    LET own == zelda64_layout_entry_bound(rom, layout, i)
        start == IF pack = "SPARSE" THEN layout[i].vrom_start ELSE b.bound
        end == start + own.bound
    IN IF b.result # "OK" \/ Skipped(layout[i]) THEN b
       ELSE IF own.result # "OK" THEN own
       ELSE IF end > b.bound THEN Bounded("OK", end) ELSE b

(* One round of either loop: the running bound b after file i, which       *)
(* starts at the running bound (dense) or at its own address (sparse).     *)
AddBound(rom, layout, pack, b, i) ==
    LET own == zelda64_layout_entry_bound(rom, layout, i)
        size == zelda64_align16(own.bound)
        start == IF pack = "SPARSE" THEN layout[i].vrom_start ELSE b.bound
        end == start + size
    IN IF b.result # "OK" \/ Skipped(layout[i]) THEN b
       ELSE IF own.result # "OK" THEN own
       ELSE IF start > UINT32_MAX - size THEN Bounded("OUT_OF_RANGE", 0)
       ELSE IF end > b.bound THEN Bounded("OK", end) ELSE b

zelda64_write_bound(rom, layout, pack, pad) ==
    LET upto[k \in 0..Count(rom)] ==
            IF k = 0 THEN Bounded("OK", 0)
            ELSE AddBound(rom, layout, pack, upto[k - 1], k - 1)
        all == upto[Count(rom)]
    IN IF pack = "DENSE" /\ pad # "NONE" /\ all.result = "OK"
       THEN Bounded("OK", zelda64_ceil_pow2(all.bound)) ELSE all
=============================================================================
