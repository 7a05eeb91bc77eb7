----------------------------- MODULE MCDmaScan -----------------------------
(***************************************************************************)
(* Small images for DmaScan: two slots per chunk, up to seven slots, with  *)
(* lone MAKEROM candidates anywhere and up to two planted tables, some of  *)
(* them damaged in one field.                                              *)
(***************************************************************************)
EXTENDS DmaScan

Junk == [vrom_start |-> UINT32_MAX, vrom_end |-> UINT32_MAX,
         rom_start |-> UINT32_MAX, rom_end |-> UINT32_MAX]
Makerom(a) == [vrom_start |-> 0, vrom_end |-> a, rom_start |-> 0, rom_end |-> 0]
File(a, b) == [vrom_start |-> a, vrom_end |-> b, rom_start |-> a, rom_end |-> 0]
Packed(a, b) == [File(a, b) EXCEPT !.rom_end = b]

(* Three entries: the second ends at c and the third at e; a is the end of *)
(* the first.                                                              *)
Triples(a, c, e) == { <<Makerom(a), File(a, c), File(c, e)>>,
                      <<Makerom(a), File(a, c), Packed(c, e)>>,
                      <<Makerom(a), Packed(a, c), File(c, e)>> }

(* What may start in slot s of n slots: a sound table of three or more     *)
(* entries, or one whose start, end or order is off.                       *)
Plants(s, n) ==
    LET c == s * ENTRY
    IN UNION {Triples(16, c, c + 48), Triples(16, c, n * ENTRY), Triples(c, c, c + 48),
              {<<Makerom(16), File(16, x), File(x, y)>> :
                  x \in {c, c + 16}, y \in {c, c + 32, c + 56, n * ENTRY, n * ENTRY + 16}},
              {<<Makerom(c + 16), File(c + 16, c), File(c, c + 48)>>}}

Base(n, D) == [k \in 0..(n - 1) |-> IF k \in D THEN Makerom(16) ELSE Junk]
Planted(b, s, p) ==
    [k \in DOMAIN b |-> IF k \in s..(s + 2) THEN p[k - s + 1] ELSE b[k]]

Images(n, D) ==
    {Base(n, D)} \cup
    UNION {{Planted(Base(n, D), s, p) : p \in Plants(s, n)} : s \in 1..(n - 3)}

TwoTables(n, D) ==
    {Planted(Planted(Base(n, D), s, <<Makerom(16), File(16, s * 16), File(s * 16, n * 16)>>),
             t, <<Makerom(16), File(16, t * 16), File(t * 16, n * 16)>>) :
        s \in 1..(n - 3), t \in 1..(n - 3)}

MCRoms ==
    UNION {{[size |-> n * ENTRY + tail, slot |-> m] :
              m \in UNION {Images(n, D) \cup TwoTables(n, D) : D \in SUBSET {0, n - 3, n - 2, n - 1}},
              tail \in {0, 8}} : n \in 1..7}
    \cup {[size |-> 8 * ENTRY + 8, slot |-> Base(8, {})]}   \* beyond UINT32_MAX

(* Lone candidates only: images that hold no table. *)
MCTableless ==
    UNION {{[size |-> n * ENTRY, slot |-> Base(n, D)] : D \in SUBSET (0..(n - 1))} : n \in 1..6}
=============================================================================
