-------------------------------- MODULE MCIo --------------------------------
(***************************************************************************)
(* The calls Io is checked on: offsets before, at and behind the end of    *)
(* the content and LONG_MAX, short and empty transfers, on contents of up  *)
(* to three bytes.                                                         *)
(***************************************************************************)
EXTENDS Io

ReadCall(o, n, exact) == [op |-> "read", offset |-> o, size |-> n, exact |-> exact]
WriteCall(o, d) == [op |-> "write", offset |-> o, data |-> d]

MCContents == {<<>>, <<1>>, <<1, 2>>, <<1, 2, 1>>}

MCCalls ==
    {ReadCall(o, n, e) : o \in {0, 1, 3}, n \in {0, 2}, e \in BOOLEAN}
    \cup {WriteCall(o, d) : o \in {0, 2}, d \in {<<>>, <<2>>}}
    \cup {WriteCall(1, <<2, 1>>), WriteCall(3, <<1>>)}
    \cup {[op |-> o] : o \in {"size", "close", "close_silent"}}
=============================================================================
