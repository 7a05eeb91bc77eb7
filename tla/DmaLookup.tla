----------------------------- MODULE DmaLookup -----------------------------
(***************************************************************************)
(* What opening a ROM promises about its DMADATA file table: one answer,   *)
(* given once and never revised.  The answer is the first table of the     *)
(* image, or a failure; "this image has no table" is only ever answered    *)
(* for an image that has none.                                             *)
(***************************************************************************)
EXTENDS Integers

CONSTANT NoTable   \* the results that tell the caller "not a Zelda 64 ROM"

VARIABLES
    tables,   \* the addresses at which the image holds a table
    answer

Pending == [result |-> "PENDING", offset |-> 0]

Init == tables \subseteq Nat /\ answer = Pending

(* The first table is found and loaded. *)
AnswerFirst ==
    \E a \in tables :
        /\ \A b \in tables : a <= b
        /\ answer' = [result |-> "OK", offset |-> a]

(* There is no table to find. *)
AnswerNone ==
    \E r \in NoTable :
        /\ tables = {}
        /\ answer' = [result |-> r, offset |-> 0]

(* The store or the allocator failed, or the image is too large.  Nothing  *)
(* is said of the image.                                                   *)
AnswerFailed ==
    \E r \in {"ERRNO", "MEMORY_ERROR", "OUT_OF_RANGE"} :
        answer' = [result |-> r, offset |-> 0]

Next ==
    /\ answer = Pending
    /\ UNCHANGED tables
    /\ AnswerFirst \/ AnswerNone \/ AnswerFailed

vars == <<tables, answer>>

Spec == Init /\ [][Next]_vars
=============================================================================
