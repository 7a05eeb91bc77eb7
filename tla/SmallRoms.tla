----------------------------- MODULE SmallRoms -----------------------------
(***************************************************************************)
(* Small ROMs to check the reader and the writer on: MAKEROM, BOOTCODE and *)
(* the table, then two files of every kind (stored, compressed, deleted,   *)
(* empty), sizes on and off the alignment, Yaz0 streams shorter and longer *)
(* than their file.                                                        *)
(***************************************************************************)
EXTENDS RomFiles

N == 5
Kinds == {"stored", "packed", "deleted", "empty"}
Aligned(n) == zelda64_align16(n)

(* The VROM extents: MAKEROM [0, 4), BOOTCODE [4, 6), DMADATA [6, 16). *)
VromStart(len, hole) ==
    <<0, 4, 6, 16, 16 + Aligned(len[4]) + hole>>

Ends(len, hole) == [k \in 1..N |-> VromStart(len, hole)[k] + len[k]]

Room(kind, len, packed) ==
    CASE kind = "stored" -> Aligned(len)
      [] kind = "packed" -> Aligned(packed)
      [] OTHER -> 0

(* A ROM that stores its files densely; kind, len and packed are sequences *)
(* over the five files.                                                    *)
MakeRom(kind, len, packed, hole) ==
    LET at3 == 16
        at4 == 16 + Room(kind[4], len[4], packed[4])
        from == <<0, 4, 6, at3, at4>>
        span(k) == IF kind[k] = "empty" THEN 0 ELSE len[k]
        Entry(k) ==
            [vrom_start |-> VromStart(len, hole)[k],
             vrom_end |-> VromStart(len, hole)[k] + span(k),
             rom_start |-> IF kind[k] = "deleted" THEN UINT32_MAX ELSE from[k],
             rom_end |-> CASE kind[k] = "deleted" -> UINT32_MAX
                           [] kind[k] = "packed" -> from[k] + Aligned(packed[k])
                           [] OTHER -> 0]
        end == at4 + Room(kind[5], len[5], packed[5])
        Owner(c) == CHOOSE k \in 1..N : /\ from[k] <= c
                                        /\ \A j \in 1..N : from[j] <= c => j <= k
        CellAt(c) ==
            LET k == Owner(c)
                at == c - from[k] + 1
                stored == IF kind[k] = "packed" THEN packed[k] ELSE len[k]
            IN IF at <= stored
               THEN <<"file", k - 1, IF kind[k] = "packed" THEN 1 ELSE 0, at>> ELSE Zero
    IN [dma |-> [f \in 0..(N - 1) |-> Entry(f + 1)],
        cells |-> [c \in 1..end |-> CellAt(c - 1)],
        plain |-> [f \in 0..(N - 1) |-> span(f + 1)],
        packed |-> [f \in 0..(N - 1) |-> packed[f + 1]]]

Rom(k3, k4, n3, n4, p3, hole) ==
    MakeRom(<<"stored", "stored", "stored", k3, k4>>, <<4, 2, 10, n3, n4>>,
            <<7, 5, 14, p3, 3>>, hole)

(* The ROM without its last n cells. *)
Cut(r, n) == [r EXCEPT !.cells = SubSeq(r.cells, 1, Len(r.cells) - n)]

Longest(n) == yaz0_compress_bound(n)

(* Every kind of file 3, and every kind of file 4 behind one that is Yaz0. *)
KindPairs == {<<k, "stored">> : k \in Kinds} \cup {<<"packed", k>> : k \in Kinds}

(* Sizes of file 3 and of its stream. *)
Sizes == {<<1, 3>>, <<4, 3>>, <<4, Longest(4)>>}

MCRoms ==
    {Rom(k[1], k[2], n[1], 3, n[2], hole) : k \in KindPairs, n \in Sizes, hole \in {0, 2}}
=============================================================================
