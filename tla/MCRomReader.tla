---------------------------- MODULE MCRomReader ----------------------------
(***************************************************************************)
(* What RomReader is checked on: every file of small ROMs, whole or cut    *)
(* short, their streams larger than the table says or ending early, into   *)
(* buffers too small, just large enough and larger.                        *)
(***************************************************************************)
EXTENDS RomReader, SmallRoms

(* The streams decode to one cell more than their VROM extent. *)
Larger(r) == [r EXCEPT !.plain = [f \in Files(r) |-> r.plain[f] + 1]]

(* The entries of the streams end too early. *)
Clip(r) ==
    [r EXCEPT !.dma = [f \in Files(r) |->
        IF zelda64_dmadata_kind(r.dma[f]) = "COMPRESSED"
        THEN [r.dma[f] EXCEPT !.rom_end = @ - 2] ELSE r.dma[f]]]

RequestsOf(roms) ==
    {q \in UNION {{[rom |-> r, index |-> f, size |-> r.plain[f] + extra] :
                     f \in {3, 4}, extra \in {-1, 0, 2}} : r \in roms} : q.size >= 0}

MCRequests ==
    LET roms == {Rom(k[1], k[2], n[1], 3, n[2], 0) : k \in KindPairs, n \in Sizes}
    IN RequestsOf({Cut(r, n) : r \in roms, n \in {0, 1, 3, 5}}
                  \cup {Larger(r) : r \in roms} \cup {Clip(r) : r \in roms})

(* Whole and cut streams of seven cells. *)
MCStreams ==
    {[rom |-> Cut(Rom("packed", "stored", 4, 3, Longest(4), 0), n), index |-> 3, size |-> 4] :
       n \in 0..10}
=============================================================================
