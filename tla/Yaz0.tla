-------------------------------- MODULE Yaz0 --------------------------------
(***************************************************************************)
(* What the code relies on of the streaming coder of libyaz0 (external).   *)
(*                                                                         *)
(* A stream is a record [compress, in, out]: whether it compresses, the    *)
(* cells the coder has to be fed and those it makes of them.  One call of  *)
(* yaz0_compress or yaz0_decompress takes the first c cells of a chunk,    *)
(* produces e cells and may report YAZ0_STREAM_END; how many it takes and  *)
(* produces is its own choice, within the bounds below.                    *)
(***************************************************************************)
EXTENDS Integers, Sequences

Garbage == <<"garbage">>

Prefix(chunk, c) == SubSeq(chunk, 1, c)

(* All of the input was given.  A compressor also has to be told (by       *)
(* YAZ0_FINISH) that nothing more will come.                               *)
Complete(s, n, finish) == n >= Len(s.in) /\ (s.compress => finish)

(* What was given so far is the stream, in order and without holes.        *)
Fed(s, cells) == \A k \in 1..Len(cells) : k <= Len(s.in) => cells[k] = s.in[k]

(* The coder leaves input behind only when the output is full or the       *)
(* stream ended.  The end is reported by the call that completes the       *)
(* stream or, when that filled the output, by the next one.                *)
MayCode(s, taken, made, chunk, room, finish, c, e, end) ==
    LET fed == Complete(s, Len(taken) + c, finish)
        whole == made + e = Len(s.out)
    IN /\ made + e <= Len(s.out)
       /\ whole => fed
       /\ c = Len(chunk) \/ e = room \/ fed
       /\ fed => e = room \/ whole
       /\ end => fed /\ whole
       /\ fed /\ whole /\ (e < room \/ e = 0) => end

(* The e cells produced behind the first `made', from all that was taken.  *)
Produced(s, all, made, e) ==
    [k \in 1..e |-> IF Fed(s, all) THEN s.out[made + k] ELSE Garbage]

(* A decompressor refuses what is no stream, and an end that comes early.  *)
Malformed(s, taken, chunk, finish, c) ==
    /\ ~s.compress
    /\ \/ ~Fed(s, taken \o Prefix(chunk, c))
       \/ finish /\ c = Len(chunk) /\ ~Complete(s, Len(taken) + c, finish)
=============================================================================
