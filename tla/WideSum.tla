------------------------------ MODULE WideSum ------------------------------
(***************************************************************************)
(* What two accumulators of the check code promise to be: the low and the  *)
(* high word of one double-width sum of a sequence of words, each added    *)
(* once and in order.                                                      *)
(***************************************************************************)
EXTENDS Integers, Sequences

CONSTANT WIDTH   \* the sum is kept modulo this

VARIABLES
    words,   \* what is summed
    added,   \* how many of them were added
    total

vars == <<words, added, total>>

Init ==
    /\ added = 0
    /\ total \in 0..(WIDTH - 1)

Add ==
    /\ added < Len(words)
    /\ total' = (total + words[added + 1]) % WIDTH
    /\ added' = added + 1
    /\ UNCHANGED words

Spec == Init /\ [][Add]_vars
=============================================================================
