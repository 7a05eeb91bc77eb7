------------------------------ MODULE IoProofs ------------------------------
(***************************************************************************)
(* Proofs about Io, for every content, every set of calls and every        *)
(* LONG_MAX.                                                               *)
(*                                                                         *)
(* The invariant says where a handler stands: once it has started, the     *)
(* indicators are clear; once it has moved the position, that is where the *)
(* call wants it and no run of input or output is open; and only a file    *)
(* open for writing has bytes that are not on the disk yet.                *)
(***************************************************************************)
EXTENDS Io, SequenceTheorems, TLAPS

Bytes == Seq(Promise!Byte)

FileType ==
    [open : BOOLEAN, pos : Nat, eof : BOOLEAN, err : BOOLEAN, last : {"none", "read", "write"}]

Types ==
    /\ obj \in Promise!Objects \cup {NoObject}
    /\ block \in BOOLEAN /\ fault \in BOOLEAN
    /\ file \in FileType
    /\ disk \in Bytes /\ view \in Bytes
    /\ pc \in {"idle", "call", "seek", "transfer"}
    /\ call \in Promise!Requests \cup {NoCall}
    /\ error \in {"OK", "ERRNO", "MEMORY_ERROR", "OUT_OF_RANGE", "UNSUPPORTED", "TRUNCATED"}

(* Where a handler stands. *)
Progress ==
    /\ pc = "idle" <=> call = NoCall
    /\ pc # "idle" => obj # NoObject /\ ~fault
    /\ pc \in {"seek", "transfer"} =>
          /\ obj \in Streams /\ call.op \in StreamOps /\ ~TooFar
          /\ call.op = "write" => obj = "file"
          /\ ~file.eof /\ ~file.err
    /\ pc = "transfer" => file.pos = Target /\ file.last = "none"

(* What is pending, and in which FILE. *)
Pending ==
    /\ obj # "file" => disk = view
    /\ ~file.open => file.last = "none"

IInv == Types /\ Progress /\ Pending /\ HoldsItsParts

-----------------------------------------------------------------------------
(* Writing keeps a sequence of bytes one; writing nothing changes nothing. *)
LEMMA OverlayBytes ==
    ASSUME NEW c \in Bytes, NEW o \in Nat, NEW d \in Bytes
    PROVE  Promise!Overlay(c, o, d) \in Bytes
<1> DEFINE n == IF d # <<>> /\ o + Len(d) > Len(c) THEN o + Len(d) ELSE Len(c)
           cell(k) == IF k \in (o + 1)..(o + Len(d)) THEN d[k - o]
                      ELSE IF k <= Len(c) THEN c[k] ELSE 0
<1>1. Len(c) \in Nat /\ Len(d) \in Nat
    BY LenProperties DEF Bytes
<1>2. n \in Nat
    BY <1>1
<1>3. \A k \in 1..n : cell(k) \in Promise!Byte
  <2> SUFFICES ASSUME NEW k \in 1..n PROVE cell(k) \in Promise!Byte
      OBVIOUS
  <2>1. CASE k \in (o + 1)..(o + Len(d))
    <3>1. k - o \in 1..Len(d)
        BY <2>1, <1>1, <1>2
    <3>2. QED
        BY <2>1, <3>1, ElementOfSeq DEF Bytes
  <2>2. CASE k \notin (o + 1)..(o + Len(d)) /\ k <= Len(c)
    <3>1. k \in 1..Len(c)
        BY <2>2, <1>1, <1>2
    <3>2. QED
        BY <2>2, <3>1, ElementOfSeq DEF Bytes
  <2>3. CASE k \notin (o + 1)..(o + Len(d)) /\ ~(k <= Len(c))
      BY <2>3 DEF Promise!Byte
  <2>4. QED
      BY <2>1, <2>2, <2>3
<1>4. Promise!Overlay(c, o, d) = [k \in 1..n |-> cell(k)]
    BY DEF Promise!Overlay
<1> HIDE DEF n, cell
<1>5. [k \in 1..n |-> cell(k)] \in [1..n -> Promise!Byte]
    BY <1>3
<1>6. QED
    BY <1>2, <1>4, <1>5, SeqDef DEF Bytes

LEMMA OverlayNothing ==
    ASSUME NEW c \in Bytes, NEW o \in Nat
    PROVE  Promise!Overlay(c, o, <<>>) = c
BY SMTT(30) DEF Promise!Overlay, Bytes, Promise!Byte

(* The first k bytes of a sequence. *)
LEMMA PrefixBytes ==
    ASSUME NEW d \in Bytes, NEW p \in Promise!Prefixes(d)
    PROVE  p \in Bytes /\ Len(p) \in Nat
<1>1. PICK k \in 0..Len(d) : p = SubSeq(d, 1, k)
    BY DEF Promise!Prefixes
<1>2. Len(d) \in Nat /\ k \in Int
    BY LenProperties DEF Bytes
<1>3. \A j \in 1..k : d[j] \in Promise!Byte
    BY <1>2, ElementOfSeq DEF Bytes
<1>4. QED
    BY <1>1, <1>2, <1>3, SubSeqProperties, LenProperties DEF Bytes

LEMMA SliceBytes ==
    ASSUME NEW c \in Bytes, NEW o \in Nat, NEW n \in Nat
    PROVE  Promise!Slice(c, o, n) \in Bytes
<1> DEFINE last == IF o + n < Len(c) THEN o + n ELSE Len(c)
<1>1. Len(c) \in Nat
    BY LenProperties DEF Bytes
<1>2. last \in Int /\ o + 1 \in Int
    BY <1>1
<1>3. \A j \in (o + 1)..last : c[j] \in Promise!Byte
    BY <1>1, ElementOfSeq DEF Bytes
<1>4. Promise!Slice(c, o, n) = SubSeq(c, o + 1, last)
    BY DEF Promise!Slice
<1> HIDE DEF last
<1>5. QED
    BY <1>2, <1>3, <1>4, SubSeqProperties DEF Bytes

(* What the fields of a call are. *)
LEMMA RequestFields ==
    ASSUME NEW c \in Promise!Requests
    PROVE  /\ c # NoCall
           /\ c.op \in {"read", "write", "size", "close", "close_silent"}
           /\ c.op = "read" => c.offset \in Nat /\ c.size \in Nat /\ c.exact \in BOOLEAN
           /\ c.op = "write" => c.offset \in Nat /\ c.data \in Bytes
BY DEF Promise!Requests, Promise!Closes, NoCall, Promise!NoCall, Bytes

-----------------------------------------------------------------------------
(* One lemma per group of actions. *)

LEMMA InitIsGood == Init => IInv
<1> SUFFICES ASSUME Init PROVE IInv
    OBVIOUS
<1>1. NoFile \in FileType /\ ~NoFile.open /\ NoFile.last = "none"
    BY DEF NoFile, FileType
<1>2. disk \in Bytes /\ view = disk
    BY CallsAssumption DEF Init, Bytes
<1>3. QED
    BY <1>1, <1>2
       DEF Init, IInv, Types, Progress, Pending, HoldsItsParts, NoObject, NoCall, Streams, Buffers,
           Promise!NoObject, Promise!Streams, Promise!Owned, Promise!Buffers

(* What opening does to the FILE and the bytes. *)
Opening ==
    \/ UNCHANGED <<obj, block, file, disk, view>>
    \/ /\ obj' = "file" /\ block' = TRUE /\ file' = NewFile
       /\ disk' = <<>> /\ view' = <<>>
    \/ /\ obj' = "rofile" /\ block' = TRUE /\ file' = NewFile
       /\ UNCHANGED <<disk, view>>
    \/ /\ obj' = "foreign" /\ block' = TRUE /\ file.open
       /\ UNCHANGED <<file, disk, view>>
    \/ /\ obj' \in {"buffer", "const"} /\ block' = TRUE /\ ~file.open
       /\ UNCHANGED <<file, disk, view>>
    \/ /\ UNCHANGED <<obj, block, disk, view>>
       /\ ~file.open /\ file' \in UsedFiles
    \/ /\ UNCHANGED <<obj, block, disk, view>>
       /\ file.open /\ file' = NoFile

LEMMA OpenKeeps == IInv /\ (Open \/ CallerOpens \/ CallerCloses) => IInv'
<1> SUFFICES ASSUME IInv, Open \/ CallerOpens \/ CallerCloses PROVE IInv'
    OBVIOUS
<1>1. /\ pc' = pc /\ call' = call /\ fault' = fault /\ pc = "idle" /\ obj = NoObject
      /\ error' \in {error, "OK", "MEMORY_ERROR", "ERRNO"}
    BY DEF Open, CallerOpens, CallerCloses, zelda64_io_fopen, zelda64_io_fopen_ro,
           zelda64_io_from_file_ro, zelda64_io_from_buffer, zelda64_io_from_const_buffer,
           OpenFailed, Opened, Closed, calling
<1>2. Opening
    BY DEF Open, CallerOpens, CallerCloses, zelda64_io_fopen, zelda64_io_fopen_ro,
           zelda64_io_from_file_ro, zelda64_io_from_buffer, zelda64_io_from_const_buffer,
           OpenFailed, Opened, Closed, bytes, Opening
<1>3. /\ NoFile \in FileType /\ NewFile \in FileType /\ UsedFiles \subseteq FileType
      /\ NoFile.last = "none" /\ ~NoFile.open
      /\ NewFile.open /\ \A f \in UsedFiles : f.open
  <2>1. NoFile \in FileType /\ NoFile.last = "none" /\ ~NoFile.open
      BY DEF NoFile, FileType
  <2>2. NewFile \in FileType /\ NewFile.open
      BY DEF NoFile, NewFile, FileType
  <2>3. ASSUME NEW f \in UsedFiles PROVE f \in FileType /\ f.open
    <3>1. f.open = TRUE
        BY DEF UsedFiles
    <3>2. UsedFiles \subseteq FileType
      <4>1. {0, 1} \subseteq Nat /\ {TRUE} \subseteq BOOLEAN
            /\ {"none", "read"} \subseteq {"none", "read", "write"}
          OBVIOUS
      <4>2. QED
          BY <4>1, Zenon DEF UsedFiles, FileType
    <3>3. QED
        BY <3>1, <3>2
  <2>4. QED
      BY <2>1, <2>2, <2>3
<1>4. <<>> \in Bytes
    BY EmptySeq DEF Bytes
<1> USE DEF NoObject, Promise!NoObject, Streams, Promise!Streams, Promise!Owned, Buffers,
            Promise!Buffers, Promise!Objects
<1>5. Types'
    BY <1>1, <1>2, <1>3, <1>4 DEF Opening, IInv, Types
<1>6. Progress'
    BY <1>1 DEF IInv, Progress
<1>7. Pending'
    BY <1>1, <1>2, <1>3 DEF Opening, IInv, Pending
<1>8. HoldsItsParts'
    BY <1>1, <1>2, <1>3 DEF Opening, IInv, HoldsItsParts
<1>9. QED
    BY <1>5, <1>6, <1>7, <1>8 DEF IInv

LEMMA InvokeKeeps == ASSUME IInv, NEW c \in Calls, Invoke(c) PROVE IInv'
<1>1. c \in Promise!Requests /\ c # NoCall
    BY CallsAssumption, RequestFields
<1>2. QED
    BY <1>1 DEF IInv, Types, Progress, Pending, HoldsItsParts, Invoke, bytes

(* Every call that ends leaves nothing of itself behind. *)
LEMMA ReturnKeeps ==
    ASSUME IInv, pc # "idle", NEW d, NEW e, Return(d, e),
           e \in {"OK", "ERRNO", "MEMORY_ERROR", "OUT_OF_RANGE", "UNSUPPORTED", "TRUNCATED"}
    PROVE  /\ Progress'
           /\ pc' = "idle" /\ call' = NoCall /\ error' = e
BY DEF Return, Progress

LEMMA ReturnReadKeeps ==
    ASSUME IInv, pc # "idle", NEW d, ReturnRead(d)
    PROVE  /\ Progress'
           /\ pc' = "idle" /\ call' = NoCall
           /\ error' \in {error, "TRUNCATED", "OK"}
BY DEF ReturnRead, Return, Progress

LEMMA BufferKeeps == IInv /\ (OnBuffer \/ Unsupported) => IInv'
<1> SUFFICES ASSUME IInv, OnBuffer \/ Unsupported PROVE IInv'
    OBVIOUS
<1> USE DEF bytes, Calling
<1>0. /\ pc = "call" /\ UNCHANGED <<obj, block, file, fault>>
      /\ call \in Promise!Requests
    BY DEF OnBuffer, Unsupported, zelda64_buffer_read, zelda64_buffer_write,
           zelda64_buffer_size, IInv, Types, Progress
<1>1. CASE Unsupported
  <2>1. Return(<<>>, "UNSUPPORTED") /\ UNCHANGED <<disk, view>>
      BY <1>1 DEF Unsupported
  <2>2. QED
      BY <1>0, <2>1, ReturnKeeps DEF IInv, Types, Pending, HoldsItsParts
<1>2. CASE zelda64_buffer_read
  <2>1. UNCHANGED <<disk, view>> /\ \E d : ReturnRead(d)
      BY <1>2 DEF zelda64_buffer_read
  <2>2. QED
      BY <1>0, <2>1, ReturnReadKeeps DEF IInv, Types, Pending, HoldsItsParts
<1>3. CASE zelda64_buffer_size
  <2>1. UNCHANGED <<disk, view>> /\ Return(<<Len(view)>>, error)
      BY <1>3 DEF zelda64_buffer_size
  <2>2. QED
      BY <1>0, <2>1, ReturnKeeps DEF IInv, Types, Pending, HoldsItsParts
<1>4. CASE zelda64_buffer_write
  <2>1. call.offset \in Nat /\ call.data \in Bytes
      BY <1>0, <1>4, RequestFields DEF zelda64_buffer_write
  <2>2. \/ UNCHANGED <<disk, view>>
        \/ view' = Promise!Overlay(view, call.offset, call.data) /\ disk' = view'
      BY <1>4 DEF zelda64_buffer_write
  <2>3. Promise!Overlay(view, call.offset, call.data) \in Bytes
      BY <2>1, OverlayBytes DEF IInv, Types
  <2>4. \E d : \E e \in {"OUT_OF_RANGE", error} : Return(d, e)
      BY <1>4 DEF zelda64_buffer_write
  <2>5. Progress' /\ pc' = "idle" /\ call' = NoCall /\ error' \in {"OUT_OF_RANGE", error}
      BY <1>0, <2>4, ReturnKeeps DEF IInv, Types
  <2>6. QED
      BY <1>0, <2>2, <2>3, <2>5 DEF IInv, Types, Pending, HoldsItsParts
<1>5. QED
    BY <1>1, <1>2, <1>3, <1>4 DEF OnBuffer

LEMMA StartKeeps == IInv /\ Start => IInv'
<1> SUFFICES ASSUME IInv, Start PROVE IInv'
    OBVIOUS
<1> USE DEF bytes, Calling
<1>1. /\ pc = "call" /\ obj \in Streams /\ call.op \in StreamOps
      /\ call.op = "write" => obj = "file"
      /\ UNCHANGED <<obj, block, disk, view, fault>>
    BY DEF Start, Promise!Writable, Streams, Promise!Streams, Promise!Owned
<1>2. /\ file' \in FileType /\ ~file'.eof /\ ~file'.err
      /\ file'.open = file.open /\ file'.last = file.last
  <2>1. file' = [file EXCEPT !.eof = FALSE, !.err = FALSE] /\ file \in FileType
      BY DEF Start, clearerr, IInv, Types
  <2>2. QED
      BY <2>1 DEF FileType
<1>3. CASE TooFar /\ Return(<<>>, "OUT_OF_RANGE")
  <2>1. Progress' /\ pc' = "idle" /\ call' = NoCall /\ error' = "OUT_OF_RANGE"
      BY <1>1, <1>3, ReturnKeeps
  <2>2. QED
      BY <1>1, <1>2, <2>1 DEF IInv, Types, Pending, HoldsItsParts
<1>4. CASE ~TooFar /\ pc' = "seek" /\ UNCHANGED <<call, error, ret>>
  <2>1. Progress'
      BY <1>1, <1>2, <1>4 DEF IInv, Progress, TooFar
  <2>2. QED
      BY <1>1, <1>2, <1>4, <2>1 DEF IInv, Types, Pending, HoldsItsParts
<1>5. QED
    BY <1>3, <1>4 DEF Start

(* Where a call wants the position. *)
LEMMA TargetIsNat ==
    ASSUME IInv, pc \in {"seek", "transfer"}
    PROVE  Target \in Nat
<1>1. call \in Promise!Requests
    BY DEF IInv, Types, Progress
<1>2. Len(view) \in Nat
    BY LenProperties DEF IInv, Types, Bytes
<1>3. QED
    BY <1>1, <1>2, RequestFields DEF Target, IInv, Progress, StreamOps

LEMMA SeekKeeps == IInv /\ Seek => IInv'
<1> SUFFICES ASSUME IInv, Seek PROVE IInv'
    OBVIOUS
<1>1. pc = "seek" /\ UNCHANGED <<obj, block>> /\ Target \in Nat
    BY TargetIsNat DEF Seek
<1>2. CASE /\ file' = [file EXCEPT !.pos = Target, !.eof = FALSE, !.last = "none"]
           /\ disk' = view /\ UNCHANGED <<view, fault>>
           /\ pc' = "transfer" /\ UNCHANGED <<call, error, ret>>
  <2>1. /\ file' \in FileType /\ file'.pos = Target /\ file'.last = "none"
        /\ ~file'.eof /\ file'.err = file.err /\ file'.open = file.open
      BY <1>1, <1>2 DEF IInv, Types, FileType
  <2>2. Target' = Target /\ TooFar' = TooFar
      BY <1>2 DEF Target, TooFar
  <2>3. Progress'
      BY <1>1, <1>2, <2>1, <2>2 DEF IInv, Progress
  <2>4. QED
      BY <1>1, <1>2, <2>1, <2>3 DEF IInv, Types, Pending, HoldsItsParts
<1>3. CASE /\ view' \in {view, disk} /\ fault' = TRUE /\ UNCHANGED <<file, disk>>
           /\ Return(<<>>, "ERRNO")
  <2>1. Progress' /\ pc' = "idle" /\ call' = NoCall /\ error' = "ERRNO"
      BY <1>1, <1>3, ReturnKeeps
  <2>2. QED
      BY <1>1, <1>3, <2>1 DEF IInv, Types, Pending, HoldsItsParts
<1>4. QED
    BY <1>2, <1>3 DEF Seek, fseek

(* What reading and writing do to a FILE. *)
LEMMA ReadFile ==
    ASSUME NEW f \in FileType, NEW g, NEW p \in Nat, NEW e \in BOOLEAN,
           g = [f EXCEPT !.pos = p, !.eof = e, !.last = "read"]
    PROVE  g \in FileType /\ g.open = f.open
BY DEF FileType

LEMMA BrokenFile ==
    ASSUME NEW f \in FileType, NEW g, NEW p \in Nat, NEW e \in BOOLEAN,
           NEW l \in {"read", "write"},
           g = [f EXCEPT !.pos = p, !.err = e, !.last = l]
    PROVE  g \in FileType /\ g.open = f.open
BY DEF FileType

LEMMA ReadKeeps == IInv /\ Read => IInv'
<1> SUFFICES ASSUME IInv, Read PROVE IInv'
    OBVIOUS
<1>1. /\ pc = "transfer" /\ call.op = "read" /\ call \in Promise!Requests
      /\ obj \in Streams /\ UNCHANGED <<obj, block>>
    BY DEF Read, IInv, Types, Progress
<1>2. call.size \in Nat
    BY <1>1, RequestFields
<1>3. PICK d \in Promise!Prefixes(Promise!Slice(view, file.pos, call.size)) :
         /\ fread(call.size, d)
         /\ IF file'.err THEN Return(<<>>, "ERRNO") ELSE ReturnRead(d)
    BY DEF Read
<1>4. file \in FileType /\ view \in Bytes
    BY DEF IInv, Types
<1>5. Len(d) \in Nat
    BY <1>2, <1>4, SliceBytes, PrefixBytes DEF FileType
<1>6. /\ file' \in FileType /\ file'.open = file.open
      /\ file.open /\ UNCHANGED <<disk, view>> /\ fault' \in BOOLEAN
  <2>1. file.open /\ fault \in BOOLEAN
      BY <1>1 DEF IInv, Types, HoldsItsParts
  <2>2. UNCHANGED <<disk, view>>
      BY <1>3 DEF fread, bytes
  <2>3. \/ file' = file /\ fault' = fault
        \/ \E e \in BOOLEAN : file' = [file EXCEPT !.pos = @ + Len(d), !.eof = e, !.last = "read"]
                             /\ fault' = fault
        \/ \E p \in {file.pos, file.pos + Len(d)} :
              file' = [file EXCEPT !.pos = p, !.err = TRUE, !.last = "read"] /\ fault' = TRUE
    <3>1. (file.eof \/ Len(d) < call.size) \in BOOLEAN
        BY <1>4 DEF FileType
    <3>2. QED
        BY <1>3, <3>1 DEF fread
  <2>4. file' \in FileType /\ file'.open = file.open
    <3>1. file.pos \in Nat /\ file.pos + Len(d) \in Nat
        BY <1>4, <1>5 DEF FileType
    <3>2. CASE \E e \in BOOLEAN :
                  file' = [file EXCEPT !.pos = @ + Len(d), !.eof = e, !.last = "read"]
      <4>1. PICK e \in BOOLEAN :
               file' = [file EXCEPT !.pos = file.pos + Len(d), !.eof = e, !.last = "read"]
          BY <3>2
      <4>2. QED
          BY <1>4, <3>1, <4>1, ReadFile
    <3>3. CASE \E p \in {file.pos, file.pos + Len(d)} :
                  file' = [file EXCEPT !.pos = p, !.err = TRUE, !.last = "read"]
      <4>1. PICK p \in Nat : file' = [file EXCEPT !.pos = p, !.err = TRUE, !.last = "read"]
          BY <3>1, <3>3
      <4>2. QED
          BY <1>4, <4>1, BrokenFile
    <3>4. QED
        BY <1>4, <2>3, <3>2, <3>3
  <2>5. fault' \in BOOLEAN
      BY <2>1, <2>3
  <2>6. QED
      BY <2>1, <2>2, <2>4, <2>5
<1>7. Progress' /\ pc' = "idle" /\ call' = NoCall /\ error' \in {error, "TRUNCATED", "OK", "ERRNO"}
    BY <1>1, <1>3, ReturnKeeps, ReturnReadKeeps
<1>8. QED
    BY <1>1, <1>6, <1>7 DEF IInv, Types, Pending, HoldsItsParts

LEMMA WriteKeeps == IInv /\ Write => IInv'
<1> SUFFICES ASSUME IInv, Write PROVE IInv'
    OBVIOUS
<1>1. /\ pc = "transfer" /\ call.op = "write" /\ call \in Promise!Requests
      /\ obj = "file" /\ UNCHANGED <<obj, block>>
    BY DEF Write, IInv, Types, Progress
<1>2. call.data \in Bytes
    BY <1>1, RequestFields
<1>3. PICK p \in Promise!Prefixes(call.data) :
         /\ fwrite(call.data, p)
         /\ IF file'.err THEN Return(<<>>, "ERRNO") ELSE Return(<<Len(p)>>, error)
    BY DEF Write
<1>4. file \in FileType /\ view \in Bytes
    BY DEF IInv, Types
<1>5. p \in Bytes /\ Len(p) \in Nat /\ Len(call.data) \in Nat
    BY <1>2, PrefixBytes, LenProperties DEF Bytes
<1>6. view' \in Bytes /\ disk' \in {disk, view'}
    BY <1>3, <1>4, <1>5, OverlayBytes DEF fwrite, FileType
<1>7. /\ file' \in FileType /\ file'.open = file.open
      /\ file.open /\ fault' \in BOOLEAN
  <2>1. file.open /\ fault \in BOOLEAN
      BY <1>1 DEF IInv, Types, HoldsItsParts, Streams, Promise!Streams, Promise!Owned
  <2>2. \/ file' = file /\ fault' = fault
        \/ \E e \in BOOLEAN, n \in Nat :
              /\ file' = [file EXCEPT !.pos = @ + n, !.err = e, !.last = "write"]
              /\ fault' \in BOOLEAN
    <3>1. file.err \in BOOLEAN /\ file = [file EXCEPT !.err = file.err]
        BY <1>4 DEF FileType
    <3>2. CASE UNCHANGED <<file, fault>>
        BY <3>2
    <3>3. CASE /\ file' = [file EXCEPT !.pos = @ + Len(call.data), !.last = "write"]
               /\ UNCHANGED fault
      <4>1. file' = [file EXCEPT !.pos = @ + Len(call.data), !.err = file.err, !.last = "write"]
          BY <3>3, <1>4 DEF FileType
      <4>2. QED
          BY <4>1, <3>1, <3>3, <2>1, <1>5
    <3>4. CASE /\ file' = [file EXCEPT !.pos = @ + Len(p), !.err = TRUE, !.last = "write"]
               /\ fault' = TRUE
        BY <3>4, <1>5
    <3>5. QED
        BY <1>3, <3>2, <3>3, <3>4 DEF fwrite
  <2>3. file' \in FileType /\ file'.open = file.open
    <3>1. \A n \in Nat : file.pos + n \in Nat
        BY <1>4 DEF FileType
    <3>2. CASE \E e \in BOOLEAN, n \in Nat :
                  file' = [file EXCEPT !.pos = @ + n, !.err = e, !.last = "write"]
      <4>1. PICK e \in BOOLEAN, n \in Nat :
               file' = [file EXCEPT !.pos = file.pos + n, !.err = e, !.last = "write"]
          BY <3>2
      <4>2. QED
          BY <1>4, <3>1, <4>1, BrokenFile
    <3>3. QED
        BY <1>4, <2>2, <3>2
  <2>4. fault' \in BOOLEAN
      BY <2>1, <2>2
  <2>5. QED
      BY <2>1, <2>3, <2>4
<1>8. Progress' /\ pc' = "idle" /\ call' = NoCall /\ error' \in {error, "ERRNO"}
    BY <1>1, <1>3, ReturnKeeps DEF IInv, Types
<1>9. QED
    BY <1>1, <1>6, <1>7, <1>8
       DEF IInv, Types, Pending, HoldsItsParts

LEMMA TellKeeps == IInv /\ Tell => IInv'
<1> SUFFICES ASSUME IInv, Tell PROVE IInv'
    OBVIOUS
<1>1. /\ pc = "transfer" /\ UNCHANGED <<obj, block, file, disk, view>> /\ fault' \in BOOLEAN
      /\ \E d : \E e \in {error, "ERRNO"} : Return(d, e)
    BY DEF Tell, bytes, IInv, Types
<1>2. Progress' /\ pc' = "idle" /\ call' = NoCall /\ error' \in {error, "ERRNO"}
    BY <1>1, ReturnKeeps DEF IInv, Types
<1>3. QED
    BY <1>1, <1>2 DEF IInv, Types, Pending, HoldsItsParts

LEMMA CloseKeeps == IInv /\ Close => IInv'
<1> SUFFICES ASSUME IInv, Close PROVE IInv'
    OBVIOUS
<1> USE DEF Calling, Release, Streams, Promise!Streams, Promise!Owned, Buffers, Promise!Buffers,
            NoObject, Promise!NoObject
<1>1. pc = "call" /\ obj' = NoObject /\ block' = FALSE
    BY DEF Close, zelda64_file_close, zelda64_file_close_non_owning, zelda64_buffer_close
<1>2. \E d : \E e \in {error, "ERRNO"} : Return(d, e)
    BY DEF Close, zelda64_file_close, zelda64_file_close_non_owning, zelda64_buffer_close
<1>3. Progress' /\ pc' = "idle" /\ call' = NoCall /\ error' \in {error, "ERRNO"}
    BY <1>1, <1>2, ReturnKeeps DEF IInv, Types
<1>4. /\ file' \in FileType /\ fault' \in BOOLEAN
      /\ file' = file \/ (~file'.open /\ file'.last = "none")
  <2>1. NoFile \in FileType /\ ~NoFile.open /\ NoFile.last = "none"
      BY DEF NoFile, FileType
  <2>2. file \in FileType /\ fault \in BOOLEAN
      BY DEF IInv, Types
  <2>3. file' \in {file, NoFile} /\ fault' \in {fault, TRUE}
      BY DEF Close, zelda64_file_close, zelda64_file_close_non_owning, zelda64_buffer_close
  <2>4. QED
      BY <2>1, <2>2, <2>3
<1>5. disk' = view' /\ disk' \in Bytes
    BY DEF Close, zelda64_file_close, zelda64_file_close_non_owning, zelda64_buffer_close,
           IInv, Types, Pending, bytes
<1>6. QED
    BY <1>1, <1>3, <1>4, <1>5 DEF IInv, Types, Pending, HoldsItsParts

LEMMA StepKeeps == IInv /\ [Next]_vars => IInv'
<1> SUFFICES ASSUME IInv, [Next]_vars PROVE IInv'
    OBVIOUS
<1>1. CASE Open \/ CallerOpens \/ CallerCloses
    BY <1>1, OpenKeeps
<1>2. CASE \E c \in Calls : Invoke(c)
    BY <1>2, InvokeKeeps
<1>3. CASE Unsupported \/ OnBuffer
    BY <1>3, BufferKeeps
<1>4. CASE OnFile
    BY <1>4, StartKeeps, SeekKeeps, ReadKeeps, WriteKeeps, TellKeeps DEF OnFile
<1>5. CASE Close
    BY <1>5, CloseKeeps
<1>6. CASE UNCHANGED vars
    BY <1>6 DEF vars, IInv, Types, Progress, Pending, HoldsItsParts, TooFar, Target
<1>7. QED
    BY <1>1, <1>2, <1>3, <1>4, <1>5, <1>6 DEF Next, Caller

LEMMA Invariance == Spec => []IInv
<1>1. Init => IInv
    BY InitIsGood
<1>2. IInv /\ [Next]_vars => IInv'
    BY StepKeeps
<1>3. QED
    BY <1>1, <1>2, PTL DEF Spec

-----------------------------------------------------------------------------
(* Every variable of an I/O object keeps its type, in every handler of     *)
(* io_file.c and io_buffer.c.                                              *)
THEOREM TypeCorrect == Spec => []TypeOK
<1>1. IInv => TypeOK
    BY DEF IInv, Types, Progress, FileType, TypeOK
<1>2. QED
    BY <1>1, Invariance, PTL

(* The state of an object is allocated exactly while it is open, and the   *)
(* FILE of a stream is open as long: no way out of the five functions that *)
(* open one, and none of closing it, leaks either or gives it back early.  *)
THEOREM PartsHeld == Spec => []HoldsItsParts
<1>1. IInv => HoldsItsParts
    BY DEF IInv
<1>2. QED
    BY <1>1, Invariance, PTL

(* zelda64_file_read and zelda64_file_write set the position before each   *)
(* transfer, so that input and output on one FILE never follow each other  *)
(* directly, in whatever order the caller reads and writes.                *)
THEOREM UpdateRuleKept == Spec => UpdateRule
<1> DEFINE Rule == /\ file.last = "write" => file'.last # "read"
                   /\ file.last = "read" => file'.last # "write"
<1>1. IInv /\ [Next]_vars => [Rule]_vars
  <2> SUFFICES ASSUME IInv, Next PROVE Rule
      BY DEF vars
  <2>1. CASE file' = file
      BY <2>1
  <2>2. CASE Open \/ CallerOpens \/ CallerCloses
    <3>1. NewFile.last = "none" /\ NoFile.last = "none"
        BY DEF NewFile, NoFile
    <3>2. file.last = "none" \/ file' \in {file, NewFile, NoFile}
        BY <2>2 DEF Open, CallerOpens, CallerCloses, zelda64_io_fopen, zelda64_io_fopen_ro,
                    zelda64_io_from_file_ro, zelda64_io_from_buffer,
                    zelda64_io_from_const_buffer, OpenFailed, IInv, Pending
    <3>3. QED
        BY <3>1, <3>2
  <2>3. CASE Start
    <3>1. file'.last = file.last
        BY <2>3 DEF Start, clearerr, IInv, Types, FileType
    <3>2. QED
        BY <3>1
  <2>4. CASE Seek
    <3>1. file' = file \/ file'.last = "none"
        BY <2>4 DEF Seek, fseek, IInv, Types, FileType
    <3>2. QED
        BY <3>1
  <2>5. CASE Read \/ Write
      BY <2>5 DEF Read, Write, IInv, Progress
  <2>6. CASE zelda64_file_close
      BY <2>6 DEF zelda64_file_close, NoFile
  <2>7. QED
      BY <2>1, <2>2, <2>3, <2>4, <2>5, <2>6
         DEF Next, Caller, Invoke, Unsupported, OnBuffer, zelda64_buffer_read,
             zelda64_buffer_write, zelda64_buffer_size, OnFile, Tell, Close,
             zelda64_file_close_non_owning, zelda64_buffer_close
<1>2. QED
    BY <1>1, Invariance, PTL DEF UpdateRule, Spec

(* A close that leaves no error in the record has put everything written   *)
(* on the disk, for every kind of object.                                  *)
THEOREM ClosedWritten == Spec => ClosedIsWritten
<1> DEFINE Written == /\ obj # NoObject /\ obj' = NoObject
                      /\ call.op = "close" /\ error' = "OK"
                      => disk' = view /\ view' = view
<1>1. IInv /\ [Next]_vars => [Written]_vars
  <2> SUFFICES ASSUME IInv, Next, obj # NoObject, obj' = NoObject,
                      call.op = "close", error' = "OK"
               PROVE  disk' = view /\ view' = view
      BY DEF vars
  <2>1. Close
      BY DEF Next, Open, Caller, CallerOpens, CallerCloses, Invoke, Unsupported, OnBuffer,
             zelda64_buffer_read, zelda64_buffer_write, zelda64_buffer_size, OnFile, Start,
             Seek, Read, Write, Tell, zelda64_io_fopen, zelda64_io_fopen_ro,
             zelda64_io_from_file_ro, zelda64_io_from_buffer, zelda64_io_from_const_buffer,
             Closed
  <2>2. CASE zelda64_file_close
      BY <2>2 DEF zelda64_file_close, Return
  <2>3. CASE zelda64_file_close_non_owning \/ zelda64_buffer_close
      BY <2>3 DEF zelda64_file_close_non_owning, zelda64_buffer_close, bytes, IInv, Pending,
                  Buffers, Promise!Buffers
  <2>4. QED
      BY <2>1, <2>2, <2>3 DEF Close
<1>2. QED
    BY <1>1, Invariance, PTL DEF ClosedIsWritten, Spec

-----------------------------------------------------------------------------
(* The refinement, one lemma per group of actions. *)

LEMMA SliceNothing ==
    ASSUME NEW c \in Bytes, NEW o \in Nat
    PROVE  Promise!Slice(c, o, 0) = <<>>
BY LenProperties DEF Promise!Slice, Bytes

LEMMA NothingIsPrefix ==
    ASSUME NEW d \in Bytes
    PROVE  <<>> \in Promise!Prefixes(d)
<1>1. Len(d) \in Nat /\ SubSeq(d, 1, 0) = <<>>
    BY LenProperties DEF Bytes
<1>2. QED
    BY <1>1 DEF Promise!Prefixes

LEMMA OpenRefines ==
    ASSUME IInv, Open \/ CallerOpens \/ CallerCloses
    PROVE  [Promise!Next]_(Promise!vars)
<1> USE DEF Closed, calling, bytes, OpenFailed, Opened, NoObject, NoCall
<1>1. pc = "idle" /\ call = NoCall /\ obj = NoObject /\ disk = view
    BY DEF Open, CallerOpens, CallerCloses, zelda64_io_fopen, zelda64_io_fopen_ro,
           zelda64_io_from_file_ro, zelda64_io_from_buffer, zelda64_io_from_const_buffer,
           IInv, Progress, Pending, Promise!NoObject
<1>2. \/ UNCHANGED <<obj, view, disk, call, error, ret>>
      \/ \E kind \in Promise!Objects : Promise!Open(kind)
    BY <1>1 DEF Open, CallerOpens, CallerCloses, zelda64_io_fopen, zelda64_io_fopen_ro,
                zelda64_io_from_file_ro, zelda64_io_from_buffer, zelda64_io_from_const_buffer,
                Promise!Open, Promise!Idle, Promise!Objects, Promise!Streams, Promise!Owned,
                Promise!Buffers
<1>3. QED
    BY <1>2 DEF Promise!Next, Promise!vars

LEMMA InvokeRefines ==
    ASSUME IInv, NEW c \in Calls, Invoke(c)
    PROVE  Promise!Next
<1>1. Promise!Invoke(c)
    BY DEF Invoke, bytes, Promise!Invoke, Promise!Idle, IInv, Progress, NoCall, NoObject
<1>2. QED
    BY <1>1 DEF Promise!Next

(* A read that returns what the store holds is a read of the store. *)
LEMMA ReadRefines ==
    ASSUME IInv, pc # "idle", call.op = "read", ~fault',
           obj \in Streams => call.offset <= LONG_MAX,
           ReturnRead(Promise!Slice(view, call.offset, call.size)),
           UNCHANGED <<obj, view, disk>>
    PROVE  Promise!Next
<1> DEFINE d == Promise!Slice(view, call.offset, call.size)
<1>1. \/ ~call.exact /\ Promise!Answer(d, error, FALSE)
      \/ call.exact /\ error # "OK" /\ Promise!Answer(<<>>, error, FALSE)
      \/ /\ call.exact /\ error = "OK"
         /\ IF Len(d) = call.size THEN Promise!Answer(d, "OK", FALSE)
            ELSE Promise!Answer(<<>>, "TRUNCATED", FALSE)
  <2>1. fault' = FALSE
      BY DEF ReturnRead, Return, IInv, Types
  <2>2. \A x, e : Return(x, e) => Promise!Answer(x, e, FALSE)
      BY <2>1 DEF Return, Promise!Answer, NoCall
  <2> HIDE DEF d
  <2>3. ReturnRead(d)
      BY DEF d
  <2>4. QED
      BY <2>2, <2>3 DEF ReturnRead
<1>2. Promise!Read
    BY <1>1 DEF Promise!Read, Streams
<1>3. QED
    BY <1>2 DEF Promise!Next, Promise!Return

LEMMA BufferRefines ==
    ASSUME IInv, OnBuffer \/ Unsupported
    PROVE  Promise!Next
<1>1. pc = "call" /\ call \in Promise!Requests /\ ~fault /\ view \in Bytes
    BY DEF OnBuffer, zelda64_buffer_read, zelda64_buffer_write, zelda64_buffer_size,
           Unsupported, Calling, IInv, Types, Progress
<1>2. Len(view) \in Nat
    BY <1>1, LenProperties DEF Bytes
<1>3. ASSUME fault' = fault PROVE \A x, e : Return(x, e) => Promise!Answer(x, e, FALSE)
  <2>1. fault' = FALSE
      BY <1>1, <1>3 DEF IInv, Types
  <2>2. QED
      BY <2>1 DEF Return, Promise!Answer, NoCall
<1>4. CASE Unsupported
    BY <1>3, <1>4 DEF Unsupported, Calling, bytes, Promise!Refuse, Promise!Next, Promise!Return
<1>5. CASE zelda64_buffer_read
  <2>1. call.op = "read" /\ obj \in Buffers /\ UNCHANGED <<obj, view, disk, fault>>
      BY <1>5 DEF zelda64_buffer_read, Calling, bytes
  <2>2. call.offset \in Nat /\ call.size \in Nat
      BY <1>1, <2>1, RequestFields
  <2>3. ReturnRead(Promise!Slice(view, call.offset, call.size))
    <3>1. CASE call.offset >= Len(view)
      <4>1. Promise!Slice(view, call.offset, call.size) = <<>>
          BY <1>1, <1>2, <2>2, <3>1 DEF Promise!Slice, Bytes
      <4>2. QED
          BY <1>5, <3>1, <4>1 DEF zelda64_buffer_read
    <3>2. CASE ~(call.offset >= Len(view))
      <4> DEFINE available == Len(view) - call.offset
                 last == call.offset + IF call.size < available THEN call.size ELSE available
      <4>1. ReturnRead(SubSeq(view, call.offset + 1, last))
          BY <1>5, <3>2 DEF zelda64_buffer_read
      <4>2. last = IF call.offset + call.size < Len(view) THEN call.offset + call.size
                   ELSE Len(view)
          BY <1>2, <2>2, <3>2
      <4>3. QED
          BY <4>1, <4>2 DEF Promise!Slice
    <3>3. QED
        BY <3>1, <3>2
  <2>4. obj \notin Streams
      BY <2>1 DEF Buffers, Streams, Promise!Buffers, Promise!Streams, Promise!Owned
  <2>5. QED
      BY <1>1, <2>1, <2>3, <2>4, ReadRefines
<1>6. CASE zelda64_buffer_write
  <2>1. call.op = "write" /\ obj = "buffer" /\ UNCHANGED <<obj, fault>>
      BY <1>6 DEF zelda64_buffer_write, Calling
  <2>2. call.offset \in Nat /\ Len(call.data) \in Nat
      BY <1>1, <2>1, RequestFields, LenProperties DEF Bytes
  <2>3. CASE call.offset > Len(view) \/ Len(call.data) > Len(view) - call.offset
    <3>1. ~Promise!Fits
        BY <1>2, <2>2, <2>3 DEF Promise!Fits
    <3>2. Return(<<>>, "OUT_OF_RANGE") /\ UNCHANGED <<view, disk>>
        BY <1>6, <2>3 DEF zelda64_buffer_write, bytes
    <3>3. Promise!Refuse
        BY <1>3, <2>1, <3>1, <3>2 DEF Promise!Refuse
    <3>4. QED
        BY <3>3 DEF Promise!Next, Promise!Return
  <2>4. CASE ~(call.offset > Len(view) \/ Len(call.data) > Len(view) - call.offset)
    <3>1. Promise!Fits
        BY <1>2, <2>2, <2>4 DEF Promise!Fits
    <3>2. /\ Return(<<Len(call.data)>>, error)
          /\ view' = Promise!Overlay(view, call.offset, call.data)
          /\ disk' = view'
        BY <1>6, <2>4 DEF zelda64_buffer_write
    <3>3. Promise!Write
        BY <1>3, <2>1, <3>1, <3>2 DEF Promise!Write
    <3>4. QED
        BY <3>3 DEF Promise!Next, Promise!Return
  <2>5. QED
      BY <2>3, <2>4
<1>7. CASE zelda64_buffer_size
  <2>1. Promise!Size
      BY <1>3, <1>7 DEF zelda64_buffer_size, Calling, bytes, Promise!Size
  <2>2. QED
      BY <2>1 DEF Promise!Next, Promise!Return
<1>8. QED
    BY <1>4, <1>5, <1>6, <1>7 DEF OnBuffer

(* The offset is refused, or the store has not been asked yet. *)
LEMMA StartRefines ==
    ASSUME IInv, Start
    PROVE  [Promise!Next]_(Promise!vars)
<1>1. /\ pc = "call" /\ call.op \in StreamOps /\ obj \in Streams
      /\ call.op = "write" => obj \in Promise!Writable
      /\ UNCHANGED <<obj, view, disk, fault>> /\ ~fault /\ call \in Promise!Requests
    BY DEF Start, Calling, bytes, IInv, Progress, Types
<1>2. CASE TooFar /\ Return(<<>>, "OUT_OF_RANGE")
  <2>1. Promise!Answer(<<>>, "OUT_OF_RANGE", FALSE)
    <3>1. fault' = FALSE
        BY <1>1 DEF IInv, Types
    <3>2. QED
        BY <1>2, <3>1 DEF Return, Promise!Answer, NoCall
  <2>2. call.op \in {"read", "write"} /\ call.offset > LONG_MAX
      BY <1>1, <1>2 DEF TooFar, StreamOps
  <2>3. Promise!Refuse
      BY <1>1, <2>1, <2>2 DEF Promise!Refuse, Streams
  <2>4. QED
      BY <2>3 DEF Promise!Next, Promise!Return
<1>3. CASE UNCHANGED <<call, error, ret>>
    BY <1>1, <1>3 DEF Promise!vars
<1>4. QED
    BY <1>2, <1>3 DEF Start

(* What is known when stdio is called. *)
LEMMA AtStdio ==
    ASSUME IInv, pc \in {"seek", "transfer"}
    PROVE  /\ obj \in Streams /\ call.op \in {"read", "write", "size"}
           /\ call.op # "size" => call.offset <= LONG_MAX
           /\ call.op = "write" => obj = "file" /\ call.offset \in Nat /\ call.data \in Bytes
           /\ call.op = "read" => call.offset \in Nat /\ call.size \in Nat
           /\ ~file.err /\ ~file.eof /\ ~fault /\ Target \in Nat
           /\ view \in Bytes /\ disk \in Bytes /\ file \in FileType
<1>1. call \in Promise!Requests
    BY DEF IInv, Types, Progress
<1>2. call.op # "size" => call.offset \in Nat
    BY <1>1, RequestFields DEF IInv, Progress, StreamOps
<1>3. QED
    BY <1>1, <1>2, RequestFields, TargetIsNat, CallsAssumption
       DEF IInv, Types, Progress, StreamOps, TooFar

(* A failure of the host that put down nothing. *)
LEMMA FailRefines ==
    ASSUME IInv, pc \in {"seek", "transfer"}, fault' = TRUE, Return(<<>>, "ERRNO"),
           view' \in {view, disk}, UNCHANGED <<obj, disk>>
    PROVE  Promise!Next
<1>1. Promise!Answer(<<>>, "ERRNO", TRUE)
    BY DEF Return, Promise!Answer, NoCall
<1>2. CASE call.op = "write"
  <2>1. call.offset \in Nat /\ <<>> \in Promise!Prefixes(call.data)
        /\ Promise!Overlay(view, call.offset, <<>>) = view
        /\ Promise!Overlay(disk, call.offset, <<>>) = disk
      BY <1>2, AtStdio, OverlayNothing, NothingIsPrefix
  <2>2. \E base \in {view, disk}, d \in Promise!Prefixes(call.data) :
           view' = Promise!Overlay(base, call.offset, d)
      BY <2>1
  <2>3. Promise!Fail
      BY <1>1, <1>2, <2>2, AtStdio DEF Promise!Fail, Streams
  <2>4. QED
      BY <2>3 DEF Promise!Next, Promise!Return
<1>3. CASE call.op # "write"
  <2>1. Promise!Fail
      BY <1>1, <1>3, AtStdio DEF Promise!Fail, Streams
  <2>2. QED
      BY <2>1 DEF Promise!Next, Promise!Return
<1>4. QED
    BY <1>2, <1>3

(* Moving the position is the moment at which output may reach the disk. *)
LEMMA SeekRefines ==
    ASSUME IInv, Seek
    PROVE  Promise!Next
<1>1. pc = "seek" /\ obj' = obj
    BY DEF Seek
<1>2. CASE disk' = view /\ UNCHANGED <<view, call, error, ret>>
    BY <1>1, <1>2 DEF Promise!Next, Promise!Settle
<1>3. CASE view' \in {view, disk} /\ fault' = TRUE /\ disk' = disk /\ Return(<<>>, "ERRNO")
    BY <1>1, <1>3, FailRefines
<1>4. QED
    BY <1>2, <1>3 DEF Seek, fseek

LEMMA FileReadRefines ==
    ASSUME IInv, Read
    PROVE  Promise!Next
<1>1. /\ pc = "transfer" /\ call.op = "read" /\ UNCHANGED obj
      /\ file.pos = call.offset /\ call.offset <= LONG_MAX
      /\ call.offset \in Nat /\ call.size \in Nat /\ view \in Bytes
      /\ file \in FileType /\ ~file.err /\ ~file.eof /\ ~fault /\ obj \in Streams
    BY AtStdio DEF Read, IInv, Progress, Target
<1>2. PICK d \in Promise!Prefixes(Promise!Slice(view, file.pos, call.size)) :
         /\ fread(call.size, d)
         /\ IF file'.err THEN Return(<<>>, "ERRNO") ELSE ReturnRead(d)
    BY DEF Read
<1>3. UNCHANGED <<view, disk>>
    BY <1>2 DEF fread, bytes
<1>4. CASE /\ ~file'.err /\ fault' = fault
           /\ d = Promise!Slice(view, call.offset, call.size)
    BY <1>1, <1>2, <1>3, <1>4, ReadRefines
<1>5. CASE file'.err /\ fault' = TRUE
    BY <1>1, <1>2, <1>3, <1>5, FailRefines
<1>6. CASE call.size = 0 /\ d = <<>> /\ UNCHANGED <<file, fault>>
    BY <1>1, <1>4, <1>6, SliceNothing
<1>7. CASE /\ d = Promise!Slice(view, file.pos, call.size)
           /\ file' = [file EXCEPT !.pos = @ + Len(d), !.eof = @ \/ Len(d) < call.size,
                                   !.last = "read"]
           /\ UNCHANGED fault
  <2>1. file'.err = file.err
      BY <1>1, <1>7 DEF FileType
  <2>2. QED
      BY <1>1, <1>4, <1>7, <2>1
<1>8. CASE /\ \E p \in {file.pos, file.pos + Len(d)} :
                 file' = [file EXCEPT !.pos = p, !.err = TRUE, !.last = "read"]
           /\ fault' = TRUE
  <2>1. file'.err
      BY <1>1, <1>8 DEF FileType
  <2>2. QED
      BY <1>5, <1>8, <2>1
<1>9. QED
    BY <1>1, <1>2, <1>6, <1>7, <1>8 DEF fread

LEMMA FileWriteRefines ==
    ASSUME IInv, Write
    PROVE  Promise!Next
<1>1. /\ pc = "transfer" /\ call.op = "write" /\ UNCHANGED obj /\ obj = "file"
      /\ file.pos = call.offset /\ call.offset <= LONG_MAX
      /\ file \in FileType /\ ~file.err /\ ~fault /\ obj \in Streams
    BY AtStdio DEF Write, IInv, Progress, Target
<1>2. PICK p \in Promise!Prefixes(call.data) :
         /\ fwrite(call.data, p)
         /\ IF file'.err THEN Return(<<>>, "ERRNO") ELSE Return(<<Len(p)>>, error)
    BY DEF Write
<1>3. view' = Promise!Overlay(view, call.offset, p) /\ disk' \in {disk, view'}
    BY <1>1, <1>2 DEF fwrite
<1>4. CASE ~file'.err /\ fault' = fault /\ p = call.data
  <2>1. Promise!Answer(<<Len(call.data)>>, error, FALSE)
    <3>1. fault' = FALSE
        BY <1>1, <1>4 DEF IInv, Types
    <3>2. QED
        BY <1>2, <1>4, <3>1 DEF Return, Promise!Answer, NoCall
  <2>2. Promise!Write
      BY <1>1, <1>3, <1>4, <2>1 DEF Promise!Write
  <2>3. QED
      BY <2>2 DEF Promise!Next, Promise!Return
<1>5. CASE file'.err /\ fault' = TRUE
  <2>1. Promise!Answer(<<>>, "ERRNO", TRUE)
      BY <1>2, <1>5 DEF Return, Promise!Answer, NoCall
  <2>2. Promise!Fail
      BY <1>1, <1>3, <2>1 DEF Promise!Fail, Streams
  <2>3. QED
      BY <2>2 DEF Promise!Next, Promise!Return
<1>6. CASE p = call.data /\ UNCHANGED <<file, fault>>
    BY <1>1, <1>4, <1>6
<1>7. CASE /\ p = call.data /\ UNCHANGED fault
           /\ file' = [file EXCEPT !.pos = @ + Len(call.data), !.last = "write"]
  <2>1. file'.err = file.err
      BY <1>1, <1>7 DEF FileType
  <2>2. QED
      BY <1>1, <1>4, <1>7, <2>1
<1>8. CASE /\ file' = [file EXCEPT !.pos = @ + Len(p), !.err = TRUE, !.last = "write"]
           /\ fault' = TRUE
  <2>1. file'.err
      BY <1>1, <1>8 DEF FileType
  <2>2. QED
      BY <1>5, <1>8, <2>1
<1>9. QED
    BY <1>2, <1>6, <1>7, <1>8 DEF fwrite

(* The end of the file is where the position was moved to. *)
LEMMA TellRefines ==
    ASSUME IInv, Tell
    PROVE  Promise!Next
<1>1. /\ pc = "transfer" /\ call.op = "size" /\ UNCHANGED <<obj, view, disk>>
      /\ file.pos = Len(view) /\ ~fault
    BY AtStdio DEF Tell, bytes, IInv, Progress, Target
<1>2. CASE UNCHANGED fault /\ Return(<<file.pos>>, error)
  <2>1. fault' = FALSE
      BY <1>1, <1>2 DEF IInv, Types
  <2>2. Promise!Size
      BY <1>1, <1>2, <2>1 DEF Return, Promise!Answer, NoCall, Promise!Size
  <2>3. QED
      BY <2>2 DEF Promise!Next, Promise!Return
<1>3. CASE fault' = TRUE /\ Return(<<>>, "ERRNO")
    BY <1>1, <1>3, FailRefines
<1>4. QED
    BY <1>2, <1>3 DEF Tell

LEMMA CloseRefines ==
    ASSUME IInv, Close
    PROVE  Promise!Next
<1>1. pc = "call" /\ ~fault /\ call.op \in Promise!Closes /\ obj' = NoObject
    BY DEF Close, zelda64_file_close, zelda64_file_close_non_owning, zelda64_buffer_close,
           Calling, Release, IInv, Progress
<1>2. ASSUME disk' = view, view' = view, fault' = fault, Return(<<>>, error)
      PROVE  Promise!Next
  <2>1. fault' = FALSE
      BY <1>1, <1>2 DEF IInv, Types
  <2>2. Promise!Close
      BY <1>1, <1>2, <2>1 DEF Return, Promise!Answer, NoCall, NoObject, Promise!Close
  <2>3. QED
      BY <2>2 DEF Promise!Next, Promise!Return
<1>3. ASSUME view' = disk, disk' = disk, fault' = TRUE, obj \in Promise!Owned,
             Return(<<>>, IF call.op = "close" THEN "ERRNO" ELSE error)
      PROVE  Promise!Next
  <2>1. Promise!Close
      BY <1>1, <1>3 DEF Return, Promise!Answer, NoCall, NoObject, Promise!Close
  <2>2. QED
      BY <2>1 DEF Promise!Next, Promise!Return
<1>4. CASE zelda64_file_close
    BY <1>2, <1>3, <1>4 DEF zelda64_file_close
<1>5. CASE zelda64_file_close_non_owning \/ zelda64_buffer_close
  <2>1. obj # "file"
      BY <1>5 DEF zelda64_file_close_non_owning, zelda64_buffer_close, Buffers, Promise!Buffers
  <2>2. disk = view
      BY <2>1 DEF IInv, Pending
  <2>3. QED
      BY <1>2, <1>5, <2>2 DEF zelda64_file_close_non_owning, zelda64_buffer_close, bytes
<1>6. QED
    BY <1>4, <1>5 DEF Close

(* An I/O object is a store (Store): through whatever handlers the calls   *)
(* go, and whatever earlier calls left in the FILE, each call acts on the  *)
(* same bytes, at the offset it names, and reports what went wrong.        *)
THEOREM Refinement == Spec => ImplementsStore
<1>1. Init => Promise!Init
    BY DEF Init, Promise!Init, NoObject, NoCall
<1>2. IInv /\ [Next]_vars => [Promise!Next]_(Promise!vars)
  <2> SUFFICES ASSUME IInv, [Next]_vars PROVE [Promise!Next]_(Promise!vars)
      OBVIOUS
  <2>1. CASE Open \/ CallerOpens \/ CallerCloses
      BY <2>1, OpenRefines
  <2>2. CASE \E c \in Calls : Invoke(c)
      BY <2>2, InvokeRefines
  <2>3. CASE OnBuffer \/ Unsupported
      BY <2>3, BufferRefines
  <2>4. CASE OnFile
      BY <2>4, StartRefines, SeekRefines, FileReadRefines, FileWriteRefines, TellRefines
         DEF OnFile
  <2>5. CASE Close
      BY <2>5, CloseRefines
  <2>6. CASE UNCHANGED vars
      BY <2>6 DEF vars, Promise!vars
  <2>7. QED
      BY <2>1, <2>2, <2>3, <2>4, <2>5, <2>6 DEF Next, Caller
<1>3. QED
    BY <1>1, <1>2, Invariance, PTL DEF Spec, ImplementsStore, Promise!Spec
=============================================================================
