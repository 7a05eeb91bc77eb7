--------------------------------- MODULE Io ---------------------------------
(***************************************************************************)
(* The I/O objects of libzelda64: the dispatch of lib/io.h, files through  *)
(* the C standard library (lib/io_file.c) and buffers (lib/io_buffer.c).   *)
(*                                                                         *)
(* A FILE is external: it has a position, sticky end-of-file and error     *)
(* indicators, and output that reaches the disk when it is flushed, and    *)
(* every stdio call may fail.  The calls of a handler are steps of their   *)
(* own, in the order of the code.                                          *)
(***************************************************************************)
EXTENDS Integers, Sequences

CONSTANTS LONG_MAX, Calls, Contents

VARIABLES
    obj,     \* the kind of the open object, or NoObject
    block,   \* is the object's state allocated?
    file,    \* the FILE: [open, pos, eof, err, last]
    disk,    \* what the host holds of the file, or the caller's buffer
    view,    \* the same with the FILE's unwritten output in it
    pc,      \* the next stdio call of the handler
    call,    \* the call under way
    error,   \* the caller's error record
    ret,     \* what the last call returned
    fault    \* did the host fail in this call?

vars == <<obj, block, file, disk, view, pc, call, error, ret, fault>>
bytes == <<disk, view>>

Promise == INSTANCE Store WITH content <- view, durable <- disk

NoObject == Promise!NoObject
NoCall == Promise!NoCall
Streams == Promise!Streams
Buffers == Promise!Buffers

ASSUME CallsAssumption ==
    /\ LONG_MAX \in Nat
    /\ Contents \subseteq Seq(Promise!Byte)
    /\ Calls \subseteq Promise!Requests

NoFile == [open |-> FALSE, pos |-> 0, eof |-> FALSE, err |-> FALSE, last |-> "none"]
NewFile == [NoFile EXCEPT !.open = TRUE]

(* A FILE the caller opened for reading and has used. *)
UsedFiles ==
    [open : {TRUE}, pos : {0, 1}, eof : BOOLEAN, err : BOOLEAN, last : {"none", "read"}]

Init ==
    /\ obj = NoObject /\ block = FALSE
    /\ file = NoFile
    /\ disk \in Contents /\ view = disk
    /\ pc = "idle" /\ call = NoCall
    /\ error = "OK" /\ fault = FALSE
    /\ ret = [data |-> <<>>, fault |-> FALSE]

-----------------------------------------------------------------------------
(* External: the C standard library.                                       *)

clearerr(f) == [f EXCEPT !.eof = FALSE, !.err = FALSE]

(* Moving the position writes out what is pending, which may fail and lose *)
(* it.  It ends a run of input or output, and the end of the file.         *)
fseek(to, Then, Else) ==
    \/ /\ file' = [file EXCEPT !.pos = to, !.eof = FALSE, !.last = "none"]
       /\ disk' = view
       /\ UNCHANGED <<view, fault>>
       /\ Then
    \/ /\ view' \in {view, disk}
       /\ fault' = TRUE
       /\ UNCHANGED <<file, disk>>
       /\ Else

(* Reading n bytes gives d, writing d puts down p; nothing happens when    *)
(* there is nothing to move.  At the end of the file nothing is read until *)
(* the indicator is cleared.  Where a failed transfer leaves the position  *)
(* is not said.                                                            *)
fread(n, d) ==
    LET all == IF file.eof THEN <<>> ELSE Promise!Slice(view, file.pos, n)
    IN /\ \/ n = 0 /\ d = <<>> /\ UNCHANGED <<file, fault>>
          \/ /\ n > 0 /\ d = all
             /\ file' = [file EXCEPT !.pos = @ + Len(d), !.eof = @ \/ Len(d) < n,
                                     !.last = "read"]
             /\ UNCHANGED fault
          \/ /\ n > 0 /\ d \in Promise!Prefixes(all)
             /\ \E p \in {file.pos, file.pos + Len(d)} :
                   file' = [file EXCEPT !.pos = p, !.err = TRUE, !.last = "read"]
             /\ fault' = TRUE
       /\ UNCHANGED bytes

fwrite(d, p) ==
    /\ view' = Promise!Overlay(view, file.pos, p)
    /\ disk' \in {disk, view'}
    /\ \/ d = <<>> /\ p = d /\ UNCHANGED <<file, fault>>
       \/ /\ d # <<>> /\ p = d
          /\ file' = [file EXCEPT !.pos = @ + Len(d), !.last = "write"]
          /\ UNCHANGED fault
       \/ /\ d # <<>>
          /\ file' = [file EXCEPT !.pos = @ + Len(p), !.err = TRUE, !.last = "write"]
          /\ fault' = TRUE

-----------------------------------------------------------------------------
(* Opening.  Each of the five allocates the state of the object first.     *)

(* Mutant: the state stays allocated when fopen fails. *)
OpenFailedLeaks(e) ==
    /\ error' = e
    /\ block' = (e = "ERRNO")
    /\ UNCHANGED <<obj, file, bytes>>

OpenFailed(e) ==
    /\ error' = e
    /\ UNCHANGED <<obj, block, file, bytes>>

Opened(kind) ==
    /\ obj' = kind
    /\ block' = TRUE
    /\ error' = "OK"

Closed == pc = "idle" /\ obj = NoObject
calling == <<pc, call, ret, fault>>

zelda64_io_fopen ==
    /\ Closed /\ ~file.open
    /\ \/ OpenFailed("MEMORY_ERROR")
       \/ OpenFailed("ERRNO")
       \/ /\ Opened("file")
          /\ file' = NewFile
          /\ disk' = <<>> /\ view' = <<>>
    /\ UNCHANGED calling

zelda64_io_fopen_ro ==
    /\ Closed /\ ~file.open
    /\ \/ OpenFailed("MEMORY_ERROR")
       \/ OpenFailed("ERRNO")
       \/ /\ Opened("rofile")
          /\ file' = NewFile
          /\ UNCHANGED bytes
    /\ UNCHANGED calling

(* The caller opens the FILE it will hand over, and closes its own. *)
CallerOpens ==
    /\ Closed /\ ~file.open
    /\ file' \in UsedFiles
    /\ UNCHANGED <<obj, block, bytes, calling, error>>

CallerCloses ==
    /\ Closed /\ file.open
    /\ file' = NoFile
    /\ UNCHANGED <<obj, block, bytes, calling, error>>

zelda64_io_from_file_ro ==
    /\ Closed /\ file.open
    /\ OpenFailed("MEMORY_ERROR") \/ (Opened("foreign") /\ UNCHANGED <<file, bytes>>)
    /\ UNCHANGED calling

zelda64_io_from_buffer ==
    /\ Closed /\ ~file.open
    /\ OpenFailed("MEMORY_ERROR") \/ (Opened("buffer") /\ UNCHANGED <<file, bytes>>)
    /\ UNCHANGED calling

zelda64_io_from_const_buffer ==
    /\ Closed /\ ~file.open
    /\ OpenFailed("MEMORY_ERROR") \/ (Opened("const") /\ UNCHANGED <<file, bytes>>)
    /\ UNCHANGED calling

-----------------------------------------------------------------------------
(* io.h: a call begins, and ends.                                          *)

(* The entry points of the library clear the record; between the calls one *)
(* of them makes it stays as it is.                                        *)
Invoke(c) ==
    /\ pc = "idle" /\ obj # NoObject
    /\ call' = c
    /\ error' \in {error, "OK"}
    /\ fault' = FALSE
    /\ pc' = "call"
    /\ UNCHANGED <<obj, block, file, bytes, ret>>

Return(data, e) ==
    /\ pc' = "idle" /\ call' = NoCall
    /\ error' = e
    /\ ret' = [data |-> data, fault |-> fault']

(* zelda64_io_read and zelda64_io_read_exact. *)
ReturnRead(data) ==
    IF ~call.exact THEN Return(data, error)
    ELSE IF error # "OK" THEN Return(<<>>, error)
    ELSE IF Len(data) # call.size THEN Return(<<>>, "TRUNCATED")
    ELSE Return(data, "OK")

Calling(ops) == pc = "call" /\ call.op \in ops

Unsupported ==
    /\ Calling({"write"})
    /\ obj \notin Promise!Writable
    /\ UNCHANGED <<obj, block, file, bytes, fault>>
    /\ Return(<<>>, "UNSUPPORTED")

-----------------------------------------------------------------------------
(* io_buffer.c.                                                            *)

zelda64_buffer_read ==
    /\ Calling({"read"}) /\ obj \in Buffers
    /\ UNCHANGED <<obj, block, file, bytes, fault>>
    /\ ReturnRead(IF call.offset >= Len(view) THEN <<>>
                  ELSE LET available == Len(view) - call.offset
                       IN SubSeq(view, call.offset + 1,
                                 call.offset + IF call.size < available THEN call.size
                                               ELSE available))

zelda64_buffer_write ==
    /\ Calling({"write"}) /\ obj = "buffer"
    /\ UNCHANGED <<obj, block, file, fault>>
    /\ IF call.offset > Len(view) \/ Len(call.data) > Len(view) - call.offset
       THEN Return(<<>>, "OUT_OF_RANGE") /\ UNCHANGED bytes
       ELSE /\ Return(<<Len(call.data)>>, error)
            /\ view' = Promise!Overlay(view, call.offset, call.data)
            /\ disk' = view'

zelda64_buffer_size ==
    /\ Calling({"size"}) /\ obj \in Buffers
    /\ UNCHANGED <<obj, block, file, bytes, fault>>
    /\ Return(<<Len(view)>>, error)

-----------------------------------------------------------------------------
(* io_file.c: zelda64_file_read, zelda64_file_write and zelda64_file_size. *)

StreamOps == {"read", "write", "size"}
TooFar == call.op # "size" /\ call.offset > LONG_MAX
Target == IF call.op = "size" THEN Len(view) ELSE call.offset

(* Mutant: the functions of a file in the table of a buffer. *)
StartAnywhere ==
    /\ Calling(StreamOps)
    /\ call.op = "write" => obj \in Promise!Writable
    /\ file' = clearerr(file)
    /\ UNCHANGED <<obj, block, bytes, fault>>
    /\ \/ TooFar /\ Return(<<>>, "OUT_OF_RANGE")
       \/ /\ ~TooFar
          /\ pc' = "seek"
          /\ UNCHANGED <<call, error, ret>>

(* Mutant: the indicators of the call before are left standing. *)
StartUncleared ==
    /\ Calling(StreamOps) /\ obj \in Streams
    /\ call.op = "write" => obj \in Promise!Writable
    /\ UNCHANGED <<obj, block, file, bytes, fault>>
    /\ \/ TooFar /\ Return(<<>>, "OUT_OF_RANGE")
       \/ /\ ~TooFar
          /\ pc' = "seek"
          /\ UNCHANGED <<call, error, ret>>

(* A clean slate, and the range of an offset. *)
Start ==
    /\ Calling(StreamOps) /\ obj \in Streams
    /\ call.op = "write" => obj \in Promise!Writable
    /\ file' = clearerr(file)
    /\ UNCHANGED <<obj, block, bytes, fault>>
    /\ \/ TooFar /\ Return(<<>>, "OUT_OF_RANGE")
       \/ /\ ~TooFar
          /\ pc' = "seek"
          /\ UNCHANGED <<call, error, ret>>

(* Mutant: no seek when the position is right already. *)
SeekOnlyIfElsewhere ==
    /\ pc = "seek"
    /\ \/ /\ file.pos = Target
          /\ pc' = "transfer"
          /\ UNCHANGED <<file, bytes, fault, call, error, ret>>
       \/ /\ file.pos # Target
          /\ fseek(Target,
                   pc' = "transfer" /\ UNCHANGED <<call, error, ret>>,
                   Return(<<>>, "ERRNO"))
    /\ UNCHANGED <<obj, block>>

Seek ==
    /\ pc = "seek"
    /\ fseek(Target,
             pc' = "transfer" /\ UNCHANGED <<call, error, ret>>,
             Return(<<>>, "ERRNO"))
    /\ UNCHANGED <<obj, block>>

(* The error indicator decides, not the count. *)
Read ==
    /\ pc = "transfer" /\ call.op = "read"
    /\ \E d \in Promise!Prefixes(Promise!Slice(view, file.pos, call.size)) :
          /\ fread(call.size, d)
          /\ IF file'.err THEN Return(<<>>, "ERRNO") ELSE ReturnRead(d)
    /\ UNCHANGED <<obj, block>>

Write ==
    /\ pc = "transfer" /\ call.op = "write"
    /\ \E p \in Promise!Prefixes(call.data) :
          /\ fwrite(call.data, p)
          /\ IF file'.err THEN Return(<<>>, "ERRNO") ELSE Return(<<Len(p)>>, error)
    /\ UNCHANGED <<obj, block>>

(* ftell, which cannot name a position above LONG_MAX. *)
Tell ==
    /\ pc = "transfer" /\ call.op = "size"
    /\ \/ file.pos <= LONG_MAX /\ UNCHANGED fault /\ Return(<<file.pos>>, error)
       \/ fault' = TRUE /\ Return(<<>>, "ERRNO")
    /\ UNCHANGED <<obj, block, file, bytes>>

-----------------------------------------------------------------------------
(* Closing: the state of the object is freed whatever else happens.        *)

Release ==
    /\ obj' = NoObject
    /\ block' = FALSE

(* Mutant: the result of fclose is not looked at. *)
file_close_unchecked ==
    /\ Calling(Promise!Closes) /\ obj \in Promise!Owned
    /\ \/ disk' = view /\ UNCHANGED <<view, fault>>
       \/ view' = disk /\ fault' = TRUE /\ UNCHANGED disk
    /\ Return(<<>>, error)
    /\ file' = NoFile
    /\ Release

(* fclose writes out what is pending, and closes even when it fails. *)
zelda64_file_close ==
    /\ Calling(Promise!Closes) /\ obj \in Promise!Owned
    /\ \/ /\ disk' = view
          /\ UNCHANGED <<view, fault>>
          /\ Return(<<>>, error)
       \/ /\ view' = disk
          /\ fault' = TRUE
          /\ UNCHANGED disk
          /\ Return(<<>>, IF call.op = "close" THEN "ERRNO" ELSE error)
    /\ file' = NoFile
    /\ Release

zelda64_file_close_non_owning ==
    /\ Calling(Promise!Closes) /\ obj = "foreign"
    /\ UNCHANGED <<file, bytes, fault>>
    /\ Return(<<>>, error)
    /\ Release

zelda64_buffer_close ==
    /\ Calling(Promise!Closes) /\ obj \in Buffers
    /\ UNCHANGED <<file, bytes, fault>>
    /\ Return(<<>>, error)
    /\ Release

Open ==
    \/ zelda64_io_fopen \/ zelda64_io_fopen_ro \/ zelda64_io_from_file_ro
    \/ zelda64_io_from_buffer \/ zelda64_io_from_const_buffer
Caller == CallerOpens \/ CallerCloses \/ \E c \in Calls : Invoke(c)
OnBuffer == zelda64_buffer_read \/ zelda64_buffer_write \/ zelda64_buffer_size
OnFile == Start \/ Seek \/ Read \/ Write \/ Tell
Close == zelda64_file_close \/ zelda64_file_close_non_owning \/ zelda64_buffer_close

Next == Open \/ Caller \/ Unsupported \/ OnBuffer \/ OnFile \/ Close

Spec == Init /\ [][Next]_vars

-----------------------------------------------------------------------------
(* Properties. *)

(* Every variable keeps its type. *)
TypeOK ==
    /\ obj \in Promise!Objects \cup {NoObject}
    /\ block \in BOOLEAN /\ fault \in BOOLEAN
    /\ file.last \in {"none", "read", "write"}
    /\ file.pos \in Nat
    /\ pc \in {"idle", "call", "seek", "transfer"}
    /\ pc = "idle" <=> call = NoCall
    /\ pc \in {"seek", "transfer"} => obj \in Streams /\ call.op \in StreamOps
    /\ error \in {"OK", "ERRNO", "MEMORY_ERROR", "OUT_OF_RANGE", "UNSUPPORTED", "TRUNCATED"}

(* An I/O object is a store: whatever the calls before it have left in the *)
(* FILE (its position, its indicators, a transfer that broke off), each    *)
(* call reads, writes or measures the same bytes, at the offset it names,  *)
(* and reports a failure of the host exactly when there was one.           *)
ImplementsStore == Promise!Spec

(* The rule of C for files opened "w+b" (C11 7.21.5.3): input does not     *)
(* directly follow output, nor output input, without the position being    *)
(* set in between.                                                         *)
UpdateRule ==
    [][/\ file.last = "write" => file'.last # "read"
       /\ file.last = "read" => file'.last # "write"]_vars

(* The object holds its state and, when it owns one, its FILE from opening *)
(* to closing, through every failure; a FILE that is the caller's own is   *)
(* still open when the object is closed.                                   *)
HoldsItsParts ==
    /\ block <=> obj # NoObject
    /\ obj \in Streams => file.open
    /\ obj \in Buffers => ~file.open

(* A close whose caller sees no failure has written everything out. *)
ClosedIsWritten ==
    [][/\ obj # NoObject /\ obj' = NoObject
       /\ call.op = "close" /\ error' = "OK"
       => disk' = view /\ view' = view]_vars
=============================================================================
