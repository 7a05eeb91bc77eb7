----------------------------- MODULE RomReader -----------------------------
(***************************************************************************)
(* zelda64_read_file (lib/rom_read.c): a stored file is read in one go, a  *)
(* compressed one is passed through the Yaz0 decoder chunk by chunk into   *)
(* the caller's buffer.  The ROM may be shorter than its table says: reads *)
(* past its end return less, and are no error.                             *)
(***************************************************************************)
EXTENDS RomFiles, Yaz0

CONSTANTS
    CHUNK_SIZE,
    Requests,   \* what is asked for: [rom, index, size] with the buffer's size
    Faults      \* may the store, the allocator or the coder fail?

ASSUME ChunkAssumption == CHUNK_SIZE \in Nat \ {0}
ASSUME RequestsAssumption ==
    \A q \in Requests : IsRom(q.rom) /\ q.index \in Files(q.rom) /\ q.size \in Word

VARIABLES
    request,
    pc,
    error,
    position,   \* cells of the storage read so far
    chunk,      \* the cells read last
    finish,     \* the flush given with them: YAZ0_FINISH or YAZ0_NO_FLUSH
    taken,      \* the cells the decoder took
    buffer,     \* what was written to the caller's buffer
    stream,     \* the decoder: "none", "open" or "ended"
    result      \* the size returned

vars == <<request, pc, error, position, chunk, finish, taken, buffer, stream, result>>

rom == request.rom
index == request.index
st == zelda64_stat(rom, index)
IsStream == zelda64_dmadata_kind(rom.dma[index]) = "COMPRESSED"

Init ==
    /\ request \in Requests
    /\ pc = "stat" /\ error = "OK"
    /\ position = 0 /\ chunk = <<>> /\ finish = FALSE /\ taken = <<>>
    /\ buffer = <<>> /\ stream = "none" /\ result = 0

(* Mutant: a way out that forgets the decoder. *)
FailLeaks(r) ==
    /\ pc' = "done"
    /\ error' = r
    /\ UNCHANGED <<request, position, chunk, finish, taken, buffer, stream, result>>

(* A failing step ends a decoder that was started and returns 0. *)
Fail(r) ==
    /\ pc' = "done"
    /\ error' = r
    /\ stream' = IF stream = "open" THEN "ended" ELSE stream
    /\ UNCHANGED <<request, position, chunk, finish, taken, buffer, result>>

(* Mutant: the size of the buffer is not checked. *)
StatAnySize ==
    /\ pc = "stat"
    /\ IF st.result # "OK" THEN Fail(st.result)
       ELSE /\ pc' = IF IsStream THEN "read" ELSE "stored"
            /\ stream' = IF IsStream THEN "open" ELSE "none"
            /\ UNCHANGED <<request, error, position, chunk, finish, taken, buffer, result>>

(* The file's place and size, the room for it, and the decoder for it. *)
Stat ==
    /\ pc = "stat"
    /\ \/ /\ st.result # "OK"
          /\ Fail(st.result)
       \/ /\ st.result = "OK"
          /\ request.size < st.file_size
          /\ Fail("INVALID_PARAMETER")
       \/ /\ st.result = "OK"
          /\ request.size >= st.file_size
          /\ pc' = IF IsStream THEN "read" ELSE "stored"
          /\ stream' = IF IsStream THEN "open" ELSE "none"
          /\ UNCHANGED <<request, error, position, chunk, finish, taken, buffer, result>>
       \/ /\ Faults
          /\ IsStream
          /\ Fail("ERRNO") \/ Fail("DECOMPRESS_ERROR")

(* Mutant: the buffer is filled with what lies behind the file. *)
ReadStoredToEnd ==
    /\ pc = "stored"
    /\ LET end == st.offset + request.size
       IN buffer' = SubSeq(rom.cells, st.offset + 1,
                           IF end < Len(rom.cells) THEN end ELSE Len(rom.cells))
    /\ result' = Len(buffer')
    /\ pc' = "done"
    /\ UNCHANGED <<request, error, position, chunk, finish, taken, stream>>

(* A stored file: as much of its storage as the ROM holds. *)
ReadStored ==
    /\ pc = "stored"
    /\ \/ /\ buffer' = zelda64_read_storage(rom, index, 0, request.size)
          /\ result' = Len(buffer')
          /\ pc' = "done"
          /\ UNCHANGED <<request, error, position, chunk, finish, taken, stream>>
       \/ Faults /\ Fail("ERRNO")

(* Mutant: what a short read did not return is counted as read. *)
ReadWanted ==
    /\ pc = "read"
    /\ LET want == IF st.size - position < CHUNK_SIZE THEN st.size - position ELSE CHUNK_SIZE
       IN /\ chunk' = zelda64_read_storage(rom, index, position, want)
          /\ position' = position + want
    /\ finish' = (position' = st.size)
    /\ pc' = "decompress"
    /\ UNCHANGED <<request, error, taken, buffer, stream, result>>

(* Mutant: the decoder is never told that the last chunk was the last. *)
ReadUnfinished ==
    /\ pc = "read"
    /\ chunk' = zelda64_read_storage(rom, index, position, CHUNK_SIZE)
    /\ position' = position + Len(chunk')
    /\ pc' = "decompress"
    /\ UNCHANGED <<request, error, finish, taken, buffer, stream, result>>

(* The next chunk of the stream, and whether it is the last one. *)
ReadChunk ==
    /\ pc = "read"
    /\ \/ /\ LET want == IF st.size - position < CHUNK_SIZE
                         THEN st.size - position ELSE CHUNK_SIZE
             IN chunk' = zelda64_read_storage(rom, index, position, want)
          /\ position' = position + Len(chunk')
          /\ finish' = (position' = st.size)
          /\ pc' = "decompress"
          /\ UNCHANGED <<request, error, taken, buffer, stream, result>>
       \/ Faults /\ Fail("ERRNO")

(* External (libyaz0): what the storage is a stream of, and its file. *)
Stream ==
    LET header == rom.cells[st.offset + 1]
    IN [compress |-> FALSE, in |-> Content(rom, header[2], header[3]),
        out |-> Content(rom, header[2], header[3] - 1)]

(* Mutant: an error of the decoder ends the loop like the end of the       *)
(* stream.                                                                 *)
DecompressAnyEnd ==
    /\ pc = "decompress"
    /\ \/ \E c \in 0..Len(chunk), end \in BOOLEAN :
             LET all == taken \o Prefix(chunk, c)
                 e == IF Fed(Stream, all) /\ Len(all) >= Len(Stream.in)
                      THEN Len(Stream.out) - Len(buffer) ELSE 0
             IN /\ MayCode(Stream, taken, Len(buffer), chunk, st.file_size - Len(buffer),
                           finish, c, e, end)
                /\ taken' = all
                /\ buffer' = buffer \o Produced(Stream, all, Len(buffer), e)
                /\ pc' = IF end THEN "done" ELSE "read"
                /\ stream' = IF end THEN "ended" ELSE stream
                /\ result' = IF end THEN Len(buffer') ELSE result
                /\ UNCHANGED <<request, error, position, chunk, finish>>
       \/ /\ \E c \in 0..Len(chunk) : Malformed(Stream, taken, chunk, finish, c)
          /\ pc' = "done"
          /\ stream' = "ended"
          /\ result' = Len(buffer)
          /\ UNCHANGED <<request, error, position, chunk, finish, taken, buffer>>

(* One call of the decoder: the whole buffer is its room. *)
Decompress ==
    LET s == Stream
        room == st.file_size - Len(buffer)
    IN /\ pc = "decompress"
       /\ \/ \E c \in 0..Len(chunk), e \in 0..room, end \in BOOLEAN :
                LET all == taken \o Prefix(chunk, c)
                IN /\ MayCode(s, taken, Len(buffer), chunk, room, finish, c, e, end)
                   /\ ~Malformed(s, taken, chunk, finish, c)
                   /\ taken' = all
                   /\ buffer' = buffer \o Produced(s, all, Len(buffer), e)
                   /\ pc' = IF end THEN "done" ELSE "read"
                   /\ stream' = IF end THEN "ended" ELSE stream
                   /\ result' = IF end THEN Len(buffer') ELSE result
                   /\ UNCHANGED <<request, error, position, chunk, finish>>
          \/ /\ Faults \/ \E c \in 0..Len(chunk) : Malformed(s, taken, chunk, finish, c)
             /\ Fail("DECOMPRESS_ERROR")

Next == Stat \/ ReadStored \/ ReadChunk \/ Decompress

Spec == Init /\ [][Next]_vars

(* One thread runs the loop; the contract of the decoder makes it return.  *)
FairSpec == Spec /\ WF_vars(Next)

-----------------------------------------------------------------------------
(* Properties. *)

(* Every variable of the reader keeps its type. *)
TypeOK ==
    /\ pc \in {"stat", "stored", "read", "decompress", "done"}
    /\ position = 0 \/ st.offset + position \in 1..Len(rom.cells)
    /\ Len(chunk) <= CHUNK_SIZE
    /\ finish \in BOOLEAN
    /\ stream \in {"none", "open", "ended"}
    /\ result \in Word

(* All of the storage is in the ROM. *)
IsThere == st.result = "OK" /\ st.offset + st.size <= Len(rom.cells)

(* What is returned without an error is the file from its first cell on, in *)
(* order, and its size is returned, however the storage falls into chunks  *)
(* and however much of each the decoder takes.  A compressed file is       *)
(* returned whole or not at all, and only when all of its stream is in the *)
(* storage.  A stored file is as large as its VROM extent; set apart are   *)
(* those the ROM ends inside, which the code returns short and calls a     *)
(* success: of them nothing is missing but what the ROM lacks.             *)
ReadsTheFile ==
    pc = "done" /\ error = "OK" =>
        /\ result = Len(buffer) /\ result <= st.file_size
        /\ IsStream => buffer = zelda64_read_file(rom, index)
        /\ ~IsStream => \A k \in 1..result : buffer[k] = rom.cells[st.offset + k]
        /\ result < st.file_size => ~IsStream /\ st.offset + result >= Len(rom.cells)

(* The caller's buffer is never written past its end, though its size is   *)
(* only compared with a number read from the stream's own header.          *)
StaysInBuffer == Len(buffer) <= request.size

(* A decoder that was started is ended once, on every way out; and until   *)
(* then it is the one in use.                                              *)
DecoderReleased ==
    /\ pc = "done" => stream # "open"
    /\ pc \in {"read", "decompress"} => stream = "open"

(* Reading a file whose storage is all there ends. *)
Terminates == IsThere ~> pc = "done"

(* rom_read.c:91 says "If no more bytes are coming, the compressor needs   *)
(* to finish work": once the last cell of the ROM was read, by a read that *)
(* just reached it or by one that came back short, no more are coming.     *)
FinishesWhenNoMoreComes ==
    pc = "decompress" /\ st.offset + position >= Len(rom.cells) => finish
=============================================================================
