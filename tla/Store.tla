------------------------------- MODULE Store -------------------------------
(***************************************************************************)
(* What libzelda64 expects of an I/O object (lib/io.h): bytes that are     *)
(* read and written at explicit offsets, one call at a time, each call     *)
(* independent of the ones before it.  A call fails only for a reason of   *)
(* its own: the host failed while it ran, or it asked for what the object  *)
(* cannot do.  Nothing is said of where the bytes are.                     *)
(***************************************************************************)
EXTENDS Integers, Sequences

CONSTANTS
    LONG_MAX,  \* the largest offset of a file
    Calls,     \* the calls that are made
    Contents   \* what there may be to open

VARIABLES
    obj,      \* the kind of object that is open, or NoObject
    content,  \* its bytes, as calls see them
    durable,  \* its bytes, as far as the host is sure to keep them
    call,     \* the call under way, or NoCall
    error,    \* the caller's error record, which calls may share
    ret       \* [data, fault]: what the last call returned; did the host fail?

vars == <<obj, content, durable, call, error, ret>>

NoObject == "none"
NoCall == [op |-> "none"]
Owned == {"file", "rofile"}       \* zelda64_io_fopen, zelda64_io_fopen_ro
Streams == Owned \cup {"foreign"} \* zelda64_io_from_file_ro
Buffers == {"buffer", "const"}    \* zelda64_io_from_buffer, .._from_const_buffer
Writable == {"file", "buffer"}
Objects == Streams \cup Buffers
Closes == {"close", "close_silent"} \* with the caller's record, or with NULL

Byte == 0..255
Requests ==
    [op : {"read"}, offset : Nat, size : Nat, exact : BOOLEAN]
    \cup [op : {"write"}, offset : Nat, data : Seq(Byte)]
    \cup [op : {"size"} \cup Closes]

(* The n bytes at offset o, or as many as there are. *)
Slice(c, o, n) == SubSeq(c, o + 1, IF o + n < Len(c) THEN o + n ELSE Len(c))

(* The content c with d written at offset o; a gap is filled with zeros. *)
Overlay(c, o, d) ==
    [k \in 1..(IF d # <<>> /\ o + Len(d) > Len(c) THEN o + Len(d) ELSE Len(c)) |->
        IF k \in (o + 1)..(o + Len(d)) THEN d[k - o]
        ELSE IF k <= Len(c) THEN c[k] ELSE 0]

Prefixes(d) == {SubSeq(d, 1, k) : k \in 0..Len(d)}

Init ==
    /\ obj = NoObject
    /\ content \in Contents /\ durable = content
    /\ call = NoCall /\ error = "OK"
    /\ ret = [data |-> <<>>, fault |-> FALSE]

-----------------------------------------------------------------------------
Idle == call = NoCall

(* A call begins, with a record that is new or left by the call before. *)
Invoke(c) ==
    /\ Idle /\ obj # NoObject
    /\ call' = c
    /\ error' \in {error, "OK"}
    /\ UNCHANGED <<obj, content, durable, ret>>

Answer(data, e, fault) ==
    /\ call' = NoCall
    /\ error' = e
    /\ ret' = [data |-> data, fault |-> fault]

(* What was written becomes durable at times of the host's choosing. *)
Settle ==
    /\ durable' = content
    /\ UNCHANGED <<obj, content, call, error, ret>>

(* read_exact gives all of the bytes or none, and none at all to a caller  *)
(* whose record still holds an earlier failure.                            *)
Read ==
    /\ call.op = "read"
    /\ LET d == Slice(content, call.offset, call.size)
       IN \/ ~call.exact /\ Answer(d, error, FALSE)
          \/ call.exact /\ error # "OK" /\ Answer(<<>>, error, FALSE)
          \/ /\ call.exact /\ error = "OK"
             /\ IF Len(d) = call.size THEN Answer(d, "OK", FALSE)
                ELSE Answer(<<>>, "TRUNCATED", FALSE)
    /\ obj \in Streams => call.offset <= LONG_MAX
    /\ UNCHANGED <<obj, content, durable>>

(* A buffer does not grow. *)
Fits == call.offset + Len(call.data) <= Len(content)

Write ==
    /\ call.op = "write"
    /\ \/ obj = "file" /\ call.offset <= LONG_MAX
       \/ obj = "buffer" /\ Fits
    /\ content' = Overlay(content, call.offset, call.data)
    /\ Answer(<<Len(call.data)>>, error, FALSE)
    /\ durable' \in {durable, content'}
    /\ UNCHANGED obj

Size ==
    /\ call.op = "size"
    /\ Answer(<<Len(content)>>, error, FALSE)
    /\ UNCHANGED <<obj, content, durable>>

(* What the object cannot do changes nothing. *)
Refuse ==
    /\ \/ /\ call.op = "write" /\ obj \notin Writable
          /\ Answer(<<>>, "UNSUPPORTED", FALSE)
       \/ /\ call.op = "write" /\ obj = "buffer" /\ ~Fits
          /\ Answer(<<>>, "OUT_OF_RANGE", FALSE)
       \/ /\ call.op \in {"read", "write"} /\ obj \in Streams
          /\ call.op = "write" => obj \in Writable
          /\ call.offset > LONG_MAX
          /\ Answer(<<>>, "OUT_OF_RANGE", FALSE)
    /\ UNCHANGED <<obj, content, durable>>

(* The host fails: the record says so, a write may have put down a part,   *)
(* and what was not durable yet may be lost.                               *)
Fail ==
    /\ call.op \in {"read", "write", "size"}
    /\ obj \in Streams
    /\ Answer(<<>>, "ERRNO", TRUE)
    /\ IF call.op = "write"
       THEN \E base \in {content, durable}, d \in Prefixes(call.data) :
                content' = Overlay(base, call.offset, d)
       ELSE content' \in {content, durable}
    /\ durable' \in {durable, content'}
    /\ UNCHANGED obj

(* After a close that succeeds everything written is kept.  One that fails *)
(* tells the caller, if the caller wants to know.                          *)
Close ==
    /\ call.op \in Closes
    /\ obj' = NoObject
    /\ \/ /\ UNCHANGED content
          /\ Answer(<<>>, error, FALSE)
       \/ /\ obj \in Owned
          /\ content' = durable
          /\ Answer(<<>>, IF call.op = "close" THEN "ERRNO" ELSE error, TRUE)
    /\ durable' = content'

(* Opening for writing empties the file; a failed one need not have. *)
Open(kind) ==
    /\ Idle /\ obj = NoObject
    /\ \/ /\ obj' = kind
          /\ content' = IF kind = "file" THEN <<>> ELSE content
          /\ error' = "OK"
       \/ /\ UNCHANGED <<obj, content>>
          /\ error' \in {"ERRNO", "MEMORY_ERROR"}
    /\ durable' = content'
    /\ UNCHANGED <<call, ret>>

Return == Read \/ Write \/ Size \/ Refuse \/ Fail \/ Close
Next ==
    \/ \E kind \in Objects : Open(kind)
    \/ \E c \in Calls : Invoke(c)
    \/ Return
    \/ Settle

Spec == Init /\ [][Next]_vars
=============================================================================
