---------------------------- MODULE MCCheckCode ----------------------------
(***************************************************************************)
(* What CheckCode is checked on: words of two bits, every content of a     *)
(* region of five words that is read three words at a time, behind boot    *)
(* codes with different windows; and images cut short anywhere.            *)
(***************************************************************************)
EXTENDS CheckCode

MCBoot == [chip \in {"6101", "6102", "6103", "6105", "6106"} |->
             CASE chip = "6101" -> <<0, 1, 2>>
               [] chip = "6102" -> <<0, 2, 1>>
               [] chip = "6103" -> <<3, 1, 2>>
               [] chip = "6105" -> <<1, 1, 2>>
               [] chip = "6106" -> <<2, 3, 1>>]

Image(chip, region) == <<0>> \o MCBoot[chip] \o region

Request(r, makerom, call) == [rom |-> r, makerom |-> makerom, call |-> call]

Whole == {Image("6105", w) : w \in [1..5 -> Word]}

MCRequests ==
    {Request(r, START, "code") : r \in Whole}
    \cup {Request(Image(chip, SubSeq(<<3, 3, 2, 0, 1, 3>>, 1, n)), makerom, call) :
            chip \in DOMAIN MCBoot, n \in 0..6, makerom \in {START - 1, START, START + 1},
            call \in {"detect", "code"}}
    \cup {Request(SubSeq(Image("6105", <<>>), 1, n), START, call) :
            n \in 0..3, call \in {"detect", "code"}}
=============================================================================
