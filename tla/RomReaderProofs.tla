-------------------------- MODULE RomReaderProofs --------------------------
(***************************************************************************)
(* RomReader for every ROM, however it is cut off, every chunk size and    *)
(* every request: what is read without an error is the file (of a stored   *)
(* one as much as the ROM holds), the buffer the caller gave is never      *)
(* overrun, and a decoder that was started is ended.                       *)
(*                                                                         *)
(* The invariant of the loop says that what the decoder was given is a     *)
(* part of the storage without holes, for as long as it wants more: after  *)
(* that the rest of a chunk may be dropped, and what is read behind it no  *)
(* longer matters.  What the decoder made so far is the front of the file. *)
(* That relates four variables (position, chunk, taken and buffer) none of *)
(* which says alone that the next chunk is the right one.                  *)
(*                                                                         *)
(* A request whose storage is all there ends: Left says what is left of    *)
(* it.                                                                     *)
(***************************************************************************)
EXTENDS RomReader, RomFilesProofs

Storage == {rom.cells[k] : k \in 1..Len(rom.cells)}
OutCells == {Stream.out[k] : k \in 1..Len(Stream.out)}

(* What all states keep. *)
BoundsInv ==
    /\ request \in Requests
    /\ pc \in {"stat", "stored", "read", "decompress", "done"}
    /\ position \in Nat
    /\ position > 0 => /\ st.result = "OK"
                       /\ position <= st.size
                       /\ st.offset + position <= Len(rom.cells)
    /\ chunk \in Seq(Storage)
    /\ Len(chunk) <= CHUNK_SIZE
    /\ finish \in BOOLEAN
    /\ stream \in {"none", "open", "ended"}
    /\ Len(buffer) \in 0..request.size
    /\ result \in 0..request.size

(* Nothing was read yet. *)
StartInv ==
    /\ error = "OK"
    /\ position = 0 /\ chunk = <<>> /\ taken = <<>> /\ buffer = <<>>
    /\ stream = "none" /\ result = 0
    /\ pc = "stored" => /\ st.result = "OK"
                        /\ request.size >= st.file_size
                        /\ ~IsStream

(* The cells taken are those of the storage, as far as the stream goes.    *)
TakenIsStorage ==
    \A k \in 1..Len(taken) :
        k <= Len(Stream.in) => /\ k <= st.size
                               /\ st.offset + k <= Len(rom.cells)
                               /\ taken[k] = rom.cells[st.offset + k]

BufferIsFront ==
    /\ buffer \in Seq(OutCells)
    /\ Len(buffer) <= Len(Stream.out)
    /\ \A k \in 1..Len(buffer) : buffer[k] = Stream.out[k]

(* The chunk is the part of the storage in front of the position. *)
ChunkIsRead ==
    /\ Len(chunk) <= position
    /\ \A k \in 1..Len(chunk) : chunk[k] = rom.cells[st.offset + (position - Len(chunk)) + k]

AllTaken == Len(taken) >= Len(Stream.in)

LoopInv ==
    /\ error = "OK" /\ stream = "open" /\ result = 0
    /\ st.result = "OK" /\ IsStream
    /\ request.size >= st.file_size
    /\ taken \in Seq(Storage)
    /\ TakenIsStorage
    /\ Fed(Stream, taken)
    /\ BufferIsFront
    /\ pc = "read" => AllTaken \/ position = Len(taken)
    /\ pc = "decompress" => /\ ChunkIsRead
                            /\ AllTaken \/ position = Len(taken) + Len(chunk)

DoneInv ==
    /\ stream # "open"
    /\ ReadsTheFile

IInv ==
    /\ BoundsInv
    /\ pc \in {"stat", "stored"} => StartInv
    /\ pc \in {"read", "decompress"} => LoopInv
    /\ pc = "done" => DoneInv

-----------------------------------------------------------------------------
(* The request and what it says of the ROM. *)

LEMMA RequestIs ==
    ASSUME request \in Requests
    PROVE  /\ IsRom(rom) /\ index \in Files(rom)
           /\ request.size \in Word /\ request.size \in Nat
           /\ Len(rom.cells) \in Nat
           /\ rom.cells \in Seq(Storage)
<1>1. IsRom(rom) /\ index \in Files(rom) /\ request.size \in Word
    BY RequestsAssumption DEF rom, index
<1>2. QED
    BY <1>1, CellsAreSeq, WordsAreNat DEF Storage

LEMMA SameRequest ==
    ASSUME request' = request
    PROVE  /\ rom' = rom /\ index' = index /\ st' = st /\ (IsStream' <=> IsStream)
           /\ Stream' = Stream /\ Storage' = Storage /\ OutCells' = OutCells
<1>1. rom' = rom /\ index' = index
    BY DEF rom, index
<1>2. st' = st /\ (IsStream' <=> IsStream)
    BY <1>1 DEF st, IsStream
<1>3. Stream' = Stream /\ Storage' = Storage
    BY <1>1, <1>2 DEF Stream, Storage
<1>4. QED
    BY <1>1, <1>2, <1>3 DEF OutCells

LEMMA StatIs ==
    ASSUME request \in Requests, st.result = "OK"
    PROVE  /\ st.offset \in Nat /\ st.size \in Nat /\ st.file_size \in Nat
           /\ ~IsStream => /\ zelda64_dmadata_kind(rom.dma[index]) = "STORED"
                           /\ st.file_size = st.size
BY RequestIs, StatSays, WordsAreNat DEF st, IsStream

LEMMA StorageIs ==
    ASSUME request \in Requests, st.result = "OK", NEW off \in Nat, NEW n \in Nat
    PROVE  IsRead(zelda64_read_storage(rom, index, off, n), rom, st, off, n)
<1>1. IsRom(rom) /\ index \in Files(rom) /\ zelda64_stat(rom, index).result = "OK"
    BY RequestIs DEF st
<1>2. IsRead(zelda64_read_storage(rom, index, off, n), rom, zelda64_stat(rom, index), off, n)
    BY <1>1, StorageRead
<1>3. QED
    BY <1>2 DEF st

(* The stream in the storage, and the file it decodes to. *)
LEMMA StreamIs ==
    ASSUME request \in Requests, st.result = "OK", IsStream
    PROVE  /\ Stream.compress = FALSE
           /\ Len(Stream.in) \in Nat
           /\ Stream.in \in Seq({Stream.in[k] : k \in 1..Len(Stream.in)})
           /\ Stream.out \in Seq(OutCells)
           /\ Len(Stream.out) \in Nat
           /\ Len(Stream.out) = st.file_size
           /\ st.size >= HEADER /\ st.offset + HEADER <= Len(rom.cells)
<1> DEFINE header == rom.cells[st.offset + 1]
           in == Content(rom, header[2], header[3])
           out == Content(rom, header[2], header[3] - 1)
<1>1. /\ st.size >= HEADER /\ st.offset + HEADER <= Len(rom.cells)
      /\ header[2] \in Files(rom) /\ st.file_size = Len(out) /\ IsRom(rom)
  <2>1. IsRom(rom) /\ index \in Files(rom)
    BY RequestIs
  <2>2. zelda64_dmadata_kind(rom.dma[index]) # "STORED"
    BY DEF IsStream
  <2>3. QED
    BY <2>1, <2>2, StatSays DEF st
<1>2. Stream = [compress |-> FALSE, in |-> in, out |-> out]
    BY DEF Stream
<1> HIDE DEF header
<1>3. /\ in \in Seq({in[k] : k \in 1..Len(in)}) /\ Len(in) \in Nat
      /\ out \in Seq({out[k] : k \in 1..Len(out)}) /\ Len(out) \in Nat
    BY <1>1, ContentIsSeq, WordsAreNat
<1> HIDE DEF in, out
<1>4. Stream.compress = FALSE /\ Stream.in = in /\ Stream.out = out
    BY <1>2
<1>5. QED
    BY <1>1, <1>3, <1>4 DEF OutCells

-----------------------------------------------------------------------------

LEMMA InitInv == Init => IInv
<1> SUFFICES ASSUME Init
             PROVE  IInv
    OBVIOUS
<1>1. request \in Requests
    BY DEF Init
<1>2. Len(<<>>) = 0 /\ <<>> \in Seq(Storage)
    OBVIOUS
<1>3. BoundsInv
  <2>1. Len(buffer) \in 0..request.size /\ result \in 0..request.size
    BY <1>1, <1>2, RequestIs DEF Init
  <2>2. chunk \in Seq(Storage) /\ Len(chunk) <= CHUNK_SIZE
    BY <1>2, ChunkAssumption DEF Init
  <2>3. position \in Nat /\ ~(position > 0)
    BY DEF Init
  <2>4. QED
    BY <1>1, <2>1, <2>2, <2>3, Zenon DEF Init, BoundsInv
<1>4. StartInv /\ pc = "stat"
    BY DEF Init, StartInv
<1>5. QED
    BY <1>3, <1>4 DEF IInv

(* A way out with an error. *)
LEMMA FailKeeps ==
    ASSUME IInv, NEW r, r # "OK", Fail(r)
    PROVE  IInv'
<1>1. request' = request
    BY DEF Fail
<1>2. BoundsInv'
    BY <1>1, SameRequest DEF IInv, BoundsInv, Fail
<1>3. DoneInv'
    BY DEF Fail, DoneInv, ReadsTheFile
<1>4. QED
    BY <1>2, <1>3 DEF IInv, Fail

LEMMA StatKeeps ==
    ASSUME IInv, Stat
    PROVE  IInv'
<1>1. pc = "stat" /\ StartInv /\ request \in Requests /\ BoundsInv
    BY DEF IInv, BoundsInv, Stat
<1>2. CASE \E r \in {"INVALID_PARAMETER", "ERRNO", "DECOMPRESS_ERROR"} : Fail(r)
    BY <1>2, FailKeeps
<1>3. CASE st.result # "OK" /\ Fail(st.result)
    BY <1>3, FailKeeps
<1>4. CASE /\ st.result = "OK"
           /\ request.size >= st.file_size
           /\ pc' = IF IsStream THEN "read" ELSE "stored"
           /\ stream' = IF IsStream THEN "open" ELSE "none"
           /\ UNCHANGED <<request, error, position, chunk, finish, taken, buffer, result>>
  <2>1. request' = request
    BY <1>4
  <2>2. BoundsInv'
    BY <1>1, <1>4, <2>1, SameRequest DEF BoundsInv
  <2>3. CASE IsStream
    <3>1. /\ error' = "OK" /\ stream' = "open" /\ result' = 0 /\ position' = 0
          /\ taken' = <<>> /\ buffer' = <<>> /\ pc' = "read"
        BY <1>1, <1>4, <2>3 DEF StartInv
    <3>2. Len(<<>>) = 0 /\ <<>> \in Seq(Storage) /\ <<>> \in Seq(OutCells)
        OBVIOUS
    <3>3. Len(Stream.out) \in Nat
        BY <1>1, <1>4, <2>3, StreamIs
    <3>4. TakenIsStorage' /\ Fed(Stream, taken)' /\ BufferIsFront'
        BY <2>1, <3>1, <3>2, <3>3, SameRequest DEF TakenIsStorage, Fed, BufferIsFront
    <3>5. LoopInv'
        BY <1>4, <2>1, <2>3, <3>1, <3>2, <3>4, SameRequest DEF LoopInv
    <3>6. QED
        BY <2>2, <3>1, <3>5 DEF IInv
  <2>4. CASE ~IsStream
    <3>1. StartInv' /\ pc' = "stored"
        BY <1>1, <1>4, <2>1, <2>4, SameRequest DEF StartInv
    <3>2. QED
        BY <2>2, <3>1 DEF IInv
  <2>5. QED
    BY <2>3, <2>4
<1>5. QED
    BY <1>2, <1>3, <1>4 DEF Stat

(* A stored file is its storage, whatever is asked for beyond it; what is  *)
(* read of it is what the ROM has.                                         *)
LEMMA StoredIs ==
    ASSUME request \in Requests, st.result = "OK", request.size >= st.size,
           NEW c, c = zelda64_read_storage(rom, index, 0, request.size)
    PROVE  /\ Len(c) \in Nat /\ Len(c) <= st.size
           /\ \A k \in 1..Len(c) : c[k] = rom.cells[st.offset + k]
           /\ Len(c) < st.size => st.offset + Len(c) >= Len(rom.cells)
<1> DEFINE o == st.offset  size == st.size  cells == rom.cells  S == Storage
           to == IF o + size < Len(cells) THEN o + size ELSE Len(cells)
<1>1. /\ o \in Nat /\ size \in Nat /\ request.size \in Nat
      /\ cells \in Seq(S) /\ Len(cells) \in Nat
    BY RequestIs, StatIs
<1>2. CASE size = 0
  <2>1. 0 >= st.size
    BY <1>2
  <2>2. c = <<>>
    BY <2>1, Zenon DEF zelda64_read_storage, st
  <2>3. QED
    BY <1>1, <1>2, <2>2
<1>3. CASE size # 0
  <2>1. c = SubSeq(cells, o + 1, to)
    <3>1. (IF st.size - 0 < request.size THEN st.size - 0 ELSE request.size) = st.size
        BY <1>1
    <3>2. ~(0 >= st.size) /\ st.offset + 0 = st.offset
        BY <1>1, <1>3
    <3>3. QED
        BY <3>1, <3>2, Zenon DEF zelda64_read_storage, st
  <2>2. to \in Nat /\ to <= Len(cells)
    BY <1>1
  <2>3. to = o + size \/ to = Len(cells)
    OBVIOUS
  <2>4. to <= o + size
    BY <1>1
  <2> HIDE DEF to, o, size, cells, S
  <2>5. /\ Len(c) = IF o < to THEN to - o ELSE 0
        /\ \A k \in 1..Len(c) : c[k] = cells[o + k]
    BY <1>1, <2>1, <2>2, SubSeqIs
  <2>6. /\ Len(c) \in Nat /\ Len(c) <= size
        /\ Len(c) < size => o + Len(c) >= Len(cells)
    BY <1>1, <2>2, <2>3, <2>4, <2>5
  <2>7. QED
    BY <2>5, <2>6 DEF o, size, cells
<1>4. QED
    BY <1>2, <1>3

LEMMA ReadStoredKeeps ==
    ASSUME IInv, ReadStored
    PROVE  IInv'
<1>1. /\ pc = "stored" /\ StartInv /\ request \in Requests /\ BoundsInv
      /\ st.result = "OK" /\ request.size >= st.file_size /\ ~IsStream
    BY DEF IInv, BoundsInv, StartInv, ReadStored
<1>2. CASE Fail("ERRNO")
    BY <1>2, FailKeeps
<1>3. CASE /\ buffer' = zelda64_read_storage(rom, index, 0, request.size)
           /\ result' = Len(buffer')
           /\ pc' = "done"
           /\ UNCHANGED <<request, error, position, chunk, finish, taken, stream>>
  <2>1. request' = request
    BY <1>3
  <2>2. /\ IsRom(rom) /\ index \in Files(rom) /\ request.size \in Nat
        /\ st.offset \in Nat /\ st.size \in Nat
        /\ zelda64_dmadata_kind(rom.dma[index]) = "STORED"
        /\ st.file_size = st.size
    BY <1>1, RequestIs, StatIs
  <2>3. buffer' \in Seq(Storage) /\ Len(buffer') <= request.size
    <3>1. IsRead(buffer', rom, st, 0, request.size)
        BY <1>1, <1>3, <2>2, StorageIs
    <3>2. QED
        BY <3>1 DEF IsRead, Storage
  <2>4. Len(buffer') \in 0..request.size
    BY <2>2, <2>3
  <2>5. BoundsInv'
    BY <1>1, <1>3, <2>1, <2>4, SameRequest DEF BoundsInv
  <2>6. /\ Len(buffer') \in Nat /\ Len(buffer') <= st.size
        /\ \A k \in 1..Len(buffer') : buffer'[k] = rom.cells[st.offset + k]
        /\ Len(buffer') < st.size => st.offset + Len(buffer') >= Len(rom.cells)
    BY <1>1, <1>3, <2>2, StoredIs
  <2>7. ReadsTheFile'
    BY <1>1, <1>3, <2>1, <2>2, <2>6, SameRequest DEF ReadsTheFile, StartInv
  <2>8. DoneInv'
    BY <1>1, <1>3, <2>7 DEF DoneInv, StartInv
  <2>9. QED
    BY <1>3, <2>5, <2>8 DEF IInv
<1>4. QED
    BY <1>2, <1>3 DEF ReadStored

LEMMA ReadChunkKeeps ==
    ASSUME IInv, ReadChunk
    PROVE  IInv'
<1>1. /\ pc = "read" /\ LoopInv /\ request \in Requests /\ BoundsInv
      /\ st.result = "OK" /\ IsStream
    BY DEF IInv, BoundsInv, LoopInv, ReadChunk
<1>2. CASE Fail("ERRNO")
    BY <1>2, FailKeeps
<1>3. CASE ~Fail("ERRNO")
  <2> DEFINE want == IF st.size - position < CHUNK_SIZE THEN st.size - position ELSE CHUNK_SIZE
  <2>1. /\ chunk' = zelda64_read_storage(rom, index, position, want)
        /\ position' = position + Len(chunk')
        /\ finish' = (position' = st.size)
        /\ pc' = "decompress"
        /\ UNCHANGED <<request, error, taken, buffer, stream, result>>
    BY <1>3 DEF ReadChunk
  <2>2. request' = request
    BY <2>1
  <2>3. /\ IsRom(rom) /\ index \in Files(rom) /\ Len(rom.cells) \in Nat
        /\ st.offset \in Nat /\ st.size \in Nat /\ position \in Nat /\ position <= st.size
    BY <1>1, RequestIs, StatIs DEF BoundsInv
  <2>4. want \in Nat /\ want <= CHUNK_SIZE
    BY <2>3, ChunkAssumption
  <2> HIDE DEF want
  <2>5. /\ chunk' \in Seq(Storage)
        /\ Len(chunk') <= want
        /\ Len(chunk') > 0 => /\ position + Len(chunk') <= st.size
                              /\ st.offset + position + Len(chunk') <= Len(rom.cells)
        /\ \A k \in 1..Len(chunk') : chunk'[k] = rom.cells[st.offset + position + k]
    <3>1. IsRead(chunk', rom, st, position, want)
        BY <1>1, <2>1, <2>3, <2>4, StorageIs
    <3>2. QED
        BY <3>1 DEF IsRead, Storage
  <2>6. Len(chunk') \in Nat /\ Len(chunk') <= CHUNK_SIZE
    BY <2>4, <2>5, ChunkAssumption
  <2>7. /\ position' \in Nat /\ Len(chunk') <= position' /\ position' - Len(chunk') = position
        /\ position' > 0 => /\ position' <= st.size
                            /\ st.offset + position' <= Len(rom.cells)
    <3>1. position > 0 => position <= st.size /\ st.offset + position <= Len(rom.cells)
        BY <1>1 DEF BoundsInv
    <3>2. position' = position + Len(chunk')
        BY <2>1
    <3> HIDE DEF Storage
    <3>3. QED
        BY <2>3, <2>5, <2>6, <3>1, <3>2
  <2>8. BoundsInv'
    BY <1>1, <2>1, <2>2, <2>5, <2>6, <2>7, SameRequest DEF BoundsInv
  <2>9. ChunkIsRead'
    BY <2>2, <2>5, <2>7, SameRequest, Zenon DEF ChunkIsRead
  <2>10. (AllTaken \/ position = Len(taken) + Len(chunk))'
    BY <1>1, <2>1, <2>2, SameRequest DEF LoopInv, AllTaken
  <2>11. TakenIsStorage' /\ Fed(Stream, taken)' /\ BufferIsFront'
    BY <1>1, <2>1, <2>2, SameRequest DEF LoopInv, TakenIsStorage, Fed, BufferIsFront
  <2>12. LoopInv'
    BY <1>1, <2>1, <2>2, <2>9, <2>10, <2>11, SameRequest DEF LoopInv
  <2>13. QED
    BY <2>1, <2>8, <2>12 DEF IInv
<1>4. QED
    BY <1>2, <1>3

-----------------------------------------------------------------------------
(* A call of the decoder. *)

LEMMA PrefixIs ==
    ASSUME NEW S, NEW ch \in Seq(S), NEW c \in 0..Len(ch)
    PROVE  /\ Prefix(ch, c) \in Seq(S) /\ Len(Prefix(ch, c)) = c
           /\ \A k \in 1..c : Prefix(ch, c)[k] = ch[k]
BY DEF Prefix

LEMMA AppendPrefix ==
    ASSUME NEW S, NEW t \in Seq(S), NEW ch \in Seq(S), NEW c \in 0..Len(ch)
    PROVE  /\ t \o Prefix(ch, c) \in Seq(S)
           /\ Len(t \o Prefix(ch, c)) = Len(t) + c
           /\ \A k \in 1..(Len(t) + c) :
                 (t \o Prefix(ch, c))[k] = IF k <= Len(t) THEN t[k] ELSE ch[k - Len(t)]
<1> DEFINE p == Prefix(ch, c)
<1>1. p \in Seq(S) /\ Len(p) = c /\ \A k \in 1..c : p[k] = ch[k]
    BY PrefixIs
<1>2. Len(ch) \in Nat /\ Len(t) \in Nat /\ c \in Nat
    OBVIOUS
<1> HIDE DEF p
<1>3. t \o p \in Seq(S) /\ Len(t \o p) = Len(t) + c
    BY <1>1, ConcatIs
<1>4. ASSUME NEW k \in 1..(Len(t) + c)
      PROVE  (t \o p)[k] = IF k <= Len(t) THEN t[k] ELSE ch[k - Len(t)]
  <2>1. (t \o p)[k] = IF k <= Len(t) THEN t[k] ELSE p[k - Len(t)]
    BY <1>1, ConcatIs
  <2>2. ~(k <= Len(t)) => k - Len(t) \in 1..c
    BY <1>2
  <2>3. QED
    BY <1>1, <2>1, <2>2
<1>5. QED
    BY <1>3, <1>4 DEF p

LEMMA AppendFront ==
    ASSUME NEW S, NEW out \in Seq(S), NEW b \in Seq(S), Len(b) <= Len(out),
           \A k \in 1..Len(b) : b[k] = out[k],
           NEW e \in 0..(Len(out) - Len(b)), NEW p, p = [k \in 1..e |-> out[Len(b) + k]],
           NEW all, all = b \o p
    PROVE  /\ all \in Seq(S)
           /\ Len(all) = Len(b) + e
           /\ \A k \in 1..Len(all) : all[k] = out[k]
<1>1. p \in Seq(S) /\ Len(p) = e /\ \A k \in 1..e : p[k] = out[Len(b) + k]
  <2>1. \A k \in 1..e : out[Len(b) + k] \in S
    OBVIOUS
  <2>2. QED
    BY <2>1
<1>2. all \in Seq(S) /\ Len(all) = Len(b) + e
    BY <1>1, ConcatIs
<1>3. Len(b) \in Nat /\ e \in Nat
    OBVIOUS
<1>4. ASSUME NEW k \in 1..Len(all)
      PROVE  all[k] = out[k]
  <2>1. all[k] = IF k <= Len(b) THEN b[k] ELSE p[k - Len(b)]
    BY <1>1, <1>2, ConcatIs
  <2>2. ~(k <= Len(b)) => k - Len(b) \in 1..e /\ Len(b) + (k - Len(b)) = k
    BY <1>2, <1>3
  <2>3. k <= Len(b) => k \in 1..Len(b)
    BY <1>2, <1>3
  <2>4. QED
    BY <1>1, <2>1, <2>2, <2>3
<1>5. QED
    BY <1>2, <1>4

LEMMA SameSeq ==
    ASSUME NEW S, NEW s \in Seq(S), NEW t \in Seq(S), Len(s) = Len(t),
           \A k \in 1..Len(s) : s[k] = t[k]
    PROVE  s = t
OBVIOUS

(* A storage that starts with all of the stream is read as its file. *)
LEMMA WholeStreamIsFile ==
    ASSUME request \in Requests, st.result = "OK", IsStream,
           NEW S, NEW all \in Seq(S), Fed(Stream, all), Len(all) >= Len(Stream.in),
           \A k \in 1..Len(all) : k <= Len(Stream.in) =>
               /\ k <= st.size
               /\ st.offset + k <= Len(rom.cells)
               /\ all[k] = rom.cells[st.offset + k]
    PROVE  zelda64_read_file(rom, index) = Stream.out
<1> DEFINE header == rom.cells[st.offset + 1]
           in == Content(rom, header[2], header[3])
           storage == zelda64_read_storage(rom, index, 0, st.size)
<1>1. /\ IsRom(rom) /\ index \in Files(rom) /\ Len(rom.cells) \in Nat
      /\ st.offset \in Nat /\ st.size \in Nat
      /\ st.size >= HEADER /\ st.offset + HEADER <= Len(rom.cells)
      /\ Len(Stream.in) \in Nat
      /\ Stream.in \in Seq({Stream.in[k] : k \in 1..Len(Stream.in)})
    BY RequestIs, StatIs, StreamIs
<1>2. Stream.in = in /\ Stream.out = Content(rom, header[2], header[3] - 1)
    BY DEF Stream
<1> HIDE DEF header, in, storage
<1>3. /\ storage \in Seq(Storage)
      /\ Len(storage) >= Len(in) /\ Len(storage) \in Nat /\ Len(storage) > 0
      /\ \A k \in 1..Len(storage) : storage[k] = rom.cells[st.offset + k]
  <2> DEFINE to == IF st.offset + st.size < Len(rom.cells)
                   THEN st.offset + st.size ELSE Len(rom.cells)
  <2>1. storage = SubSeq(rom.cells, st.offset + 1, to)
    <3>1. ~(0 >= st.size) /\ st.size - 0 = st.size /\ st.offset + 0 = st.offset
        BY <1>1 DEF HEADER
    <3>2. storage = SubSeq(rom.cells, st.offset + 0 + 1,
                           IF st.offset + 0 + (st.size - 0) < Len(rom.cells)
                           THEN st.offset + 0 + (st.size - 0) ELSE Len(rom.cells))
        BY <1>1, <3>1, StorageReadWhole, Zenon DEF storage, st
    <3>3. QED
        BY <3>1, <3>2, Zenon
  <2>2. rom.cells \in Seq(Storage)
    BY RequestIs
  <2>3. Len(in) <= st.size /\ st.offset + Len(in) <= Len(rom.cells)
    <3>1. CASE Len(in) = 0
        BY <1>1, <3>1 DEF HEADER
    <3>2. CASE Len(in) # 0
      <4>1. Len(in) \in 1..Len(all)
        BY <1>1, <1>2, <3>2
      <4>2. QED
        BY <1>1, <1>2, <4>1
    <3>3. QED
        BY <3>1, <3>2
  <2>4. /\ to \in Nat /\ to <= Len(rom.cells) /\ st.offset < to
        /\ to - st.offset >= Len(in)
    <3> DEFINE o == st.offset  n == st.size  cells == Len(rom.cells)  l == Len(in)
    <3>1. /\ o \in Nat /\ n \in Nat /\ cells \in Nat /\ l \in Nat
          /\ n >= 2 /\ o + 2 <= cells /\ l <= n /\ o + l <= cells
        BY <1>1, <1>2, <2>3 DEF HEADER
    <3> HIDE DEF o, n, cells, l
    <3>2. /\ (IF o + n < cells THEN o + n ELSE cells) \in Nat
          /\ (IF o + n < cells THEN o + n ELSE cells) <= cells
          /\ o < (IF o + n < cells THEN o + n ELSE cells)
          /\ (IF o + n < cells THEN o + n ELSE cells) - o >= l
        BY <3>1
    <3>3. QED
        BY <3>2 DEF o, n, cells, l
  <2> HIDE DEF to
  <2>5. /\ storage \in Seq(Storage)
        /\ Len(storage) = to - st.offset
        /\ \A k \in 1..Len(storage) : storage[k] = rom.cells[st.offset + k]
    <3> DEFINE from == st.offset  cells == rom.cells
    <3>1. from \in Nat /\ cells \in Seq(Storage) /\ to <= Len(cells) /\ from < to /\ to \in Nat
        BY <1>1, <2>2, <2>4
    <3>2. storage = SubSeq(cells, from + 1, to)
        BY <2>1
    <3> HIDE DEF from, cells
    <3>3. /\ storage \in Seq(Storage)
          /\ Len(storage) = IF from < to THEN to - from ELSE 0
          /\ \A k \in 1..Len(storage) : storage[k] = cells[from + k]
        BY <3>1, <3>2, SubSeqIs
    <3>4. QED
        BY <3>1, <3>3, Zenon DEF from, cells
  <2>6. Len(storage) >= Len(in) /\ Len(storage) \in Nat /\ Len(storage) > 0
    BY <1>1, <2>4, <2>5
  <2>7. QED
    BY <2>5, <2>6
<1>4. storage[1] = header
    BY <1>3 DEF header
<1>5. SubSeq(storage, 1, Len(in)) = in
  <2>1. Len(in) \in 0..Len(storage) /\ Len(in) \in Nat
    BY <1>1, <1>2, <1>3
  <2> DEFINE front == SubSeq(storage, 1, Len(in))
  <2>2. Len(front) = Len(in) /\ front \in Seq(Storage)
        /\ \A k \in 1..Len(in) : front[k] = storage[k]
    BY <1>3, <2>1
  <2> HIDE DEF front
  <2>3. \A k \in 1..Len(in) : in[k] = storage[k]
    <3> SUFFICES ASSUME NEW k \in 1..Len(in)
                 PROVE  in[k] = storage[k]
        OBVIOUS
    <3>0. Len(all) \in Nat /\ Len(in) \in Nat /\ Len(in) = Len(Stream.in)
        BY <1>1, <1>2
    <3>1. k \in 1..Len(all) /\ k \in 1..Len(storage) /\ k <= Len(Stream.in)
        BY <1>3, <3>0
    <3>2. all[k] = in[k]
        BY <1>2, <3>1 DEF Fed
    <3>3. all[k] = rom.cells[st.offset + k]
        BY <3>1
    <3>4. storage[k] = rom.cells[st.offset + k]
        BY <1>3, <3>1
    <3>5. QED
        BY <3>2, <3>3, <3>4
  <2>4. front = in
    <3>1. in \in Seq({Stream.in[k] : k \in 1..Len(Stream.in)})
        BY <1>1, <1>2
    <3> DEFINE T == Storage \cup {Stream.in[k] : k \in 1..Len(Stream.in)}
    <3>2. front \in Seq(T) /\ in \in Seq(T)
        BY <2>2, <3>1
    <3> HIDE DEF T
    <3>3. QED
        BY <2>2, <2>3, <3>2, SameSeq
  <2>5. QED
    BY <2>4 DEF front
<1>6. zelda64_dmadata_kind(rom.dma[index]) # "STORED"
    BY DEF IsStream
<1>7. Len(in) <= Len(storage)
    BY <1>1, <1>2, <1>3
<1>8. zelda64_read_file(rom, index) = Content(rom, header[2], header[3] - 1)
    BY <1>4, <1>5, <1>6, <1>7, Zenon DEF zelda64_read_file, st, storage, in
<1>9. QED
    BY <1>2, <1>8

(* What a call takes are the next cells of the storage: the position lags  *)
(* behind nothing but the chunk at hand, as long as the stream goes on.    *)
LEMMA TakenGrows ==
    ASSUME BoundsInv, LoopInv, pc = "decompress", NEW c \in 0..Len(chunk),
           NEW all, all = taken \o Prefix(chunk, c)
    PROVE  /\ all \in Seq(Storage)
           /\ Len(all) = Len(taken) + c
           /\ \A k \in 1..Len(all) :
                 k <= Len(Stream.in) => /\ k <= st.size
                                        /\ st.offset + k <= Len(rom.cells)
                                        /\ all[k] = rom.cells[st.offset + k]
<1>1. /\ taken \in Seq(Storage) /\ chunk \in Seq(Storage)
      /\ Len(taken) \in Nat /\ Len(chunk) \in Nat /\ c \in Nat /\ c <= Len(chunk)
    BY DEF BoundsInv, LoopInv
<1>2. /\ all \in Seq(Storage) /\ Len(all) = Len(taken) + c
      /\ \A k \in 1..(Len(taken) + c) :
            all[k] = IF k <= Len(taken) THEN taken[k] ELSE chunk[k - Len(taken)]
    BY <1>1, AppendPrefix
<1>3. /\ request \in Requests /\ st.result = "OK" /\ IsStream /\ position \in Nat
      /\ position > 0 => position <= st.size /\ st.offset + position <= Len(rom.cells)
      /\ TakenIsStorage /\ ChunkIsRead
      /\ AllTaken \/ position = Len(taken) + Len(chunk)
    BY DEF BoundsInv, LoopInv
<1>4. /\ st.offset \in Nat /\ st.size \in Nat /\ Len(Stream.in) \in Nat
      /\ Len(rom.cells) \in Nat
    BY <1>3, RequestIs, StatIs, StreamIs
<1>5. ASSUME NEW k \in 1..Len(all), k <= Len(Stream.in)
      PROVE  /\ k <= st.size
             /\ st.offset + k <= Len(rom.cells)
             /\ all[k] = rom.cells[st.offset + k]
  <2>1. k \in Nat /\ k >= 1 /\ k <= Len(taken) + c
    BY <1>1, <1>2
  <2>2. CASE k <= Len(taken)
    <3>1. k \in 1..Len(taken) /\ all[k] = taken[k]
        BY <1>1, <1>2, <2>1, <2>2
    <3>2. QED
        BY <1>3, <1>5, <3>1 DEF TakenIsStorage
  <2>3. CASE k > Len(taken)
    <3>1. position = Len(taken) + Len(chunk)
        BY <1>1, <1>3, <1>4, <1>5, <2>1, <2>3 DEF AllTaken
    <3>2. k - Len(taken) \in 1..Len(chunk) /\ position > 0 /\ k <= position
        BY <1>1, <1>3, <2>1, <2>3, <3>1
    <3>3. all[k] = chunk[k - Len(taken)]
        BY <1>1, <1>2, <2>1, <2>3
    <3>4. chunk[k - Len(taken)] = rom.cells[st.offset + (position - Len(chunk)) + (k - Len(taken))]
        BY <1>3, <3>2 DEF ChunkIsRead
    <3>5. st.offset + (position - Len(chunk)) + (k - Len(taken)) = st.offset + k
        BY <1>1, <1>4, <2>1, <3>1
    <3>6. k <= st.size /\ st.offset + k <= Len(rom.cells)
      <4>1. position <= st.size /\ st.offset + position <= Len(rom.cells)
        BY <1>3, <3>2
      <4>2. k <= position /\ k \in Nat /\ position \in Nat
        BY <1>3, <2>1, <3>2
      <4>3. QED
        BY <1>4, <4>1, <4>2
    <3>7. QED
        BY <3>3, <3>4, <3>5, <3>6
  <2>4. QED
    BY <1>1, <2>1, <2>2, <2>3
<1>6. QED
    BY <1>2, <1>5

LEMMA DecompressKeeps ==
    ASSUME IInv, Decompress
    PROVE  IInv'
<1>1. /\ pc = "decompress" /\ LoopInv /\ request \in Requests /\ BoundsInv
      /\ st.result = "OK" /\ IsStream /\ BufferIsFront /\ Fed(Stream, taken)
    BY DEF IInv, BoundsInv, LoopInv, Decompress
<1>2. CASE Fail("DECOMPRESS_ERROR")
    BY <1>2, FailKeeps
<1>3. CASE ~Fail("DECOMPRESS_ERROR")
  <2> DEFINE room == st.file_size - Len(buffer)
  <2>1. PICK c \in 0..Len(chunk), e \in 0..room, end \in BOOLEAN :
          /\ MayCode(Stream, taken, Len(buffer), chunk, room, finish, c, e, end)
          /\ ~Malformed(Stream, taken, chunk, finish, c)
          /\ taken' = taken \o Prefix(chunk, c)
          /\ buffer' = buffer \o Produced(Stream, taken \o Prefix(chunk, c), Len(buffer), e)
          /\ pc' = IF end THEN "done" ELSE "read"
          /\ stream' = IF end THEN "ended" ELSE stream
          /\ result' = IF end THEN Len(buffer') ELSE result
          /\ UNCHANGED <<request, error, position, chunk, finish>>
    BY <1>3, Zenon DEF Decompress
  <2> DEFINE all == taken \o Prefix(chunk, c)
  <2>2. request' = request
    BY <2>1
  <2>3. /\ Stream.compress = FALSE /\ Len(Stream.in) \in Nat /\ Len(Stream.out) \in Nat
        /\ Stream.out \in Seq(OutCells) /\ Len(Stream.out) = st.file_size
    BY <1>1, StreamIs
  <2>4. /\ request.size \in Nat /\ request.size >= st.file_size /\ Len(buffer) \in Nat
        /\ Len(buffer) <= Len(Stream.out) /\ buffer \in Seq(OutCells)
    BY <1>1, RequestIs DEF LoopInv, BufferIsFront
  <2>5. /\ all \in Seq(Storage) /\ Len(all) = Len(taken) + c
        /\ \A k \in 1..Len(all) :
              k <= Len(Stream.in) => /\ k <= st.size
                                     /\ st.offset + k <= Len(rom.cells)
                                     /\ all[k] = rom.cells[st.offset + k]
    BY <1>1, TakenGrows
  <2>6. Fed(Stream, all)
    BY <2>1, <2>3 DEF Malformed
  <2>7. Len(taken) \in Nat /\ Len(chunk) \in Nat /\ c \in Nat
    BY <1>1 DEF LoopInv, BoundsInv
  <2> HIDE DEF all
  <2>8. /\ buffer' \in Seq(OutCells)
        /\ Len(buffer') = Len(buffer) + e
        /\ \A k \in 1..Len(buffer') : buffer'[k] = Stream.out[k]
    <3> DEFINE p == Produced(Stream, all, Len(buffer), e)
    <3>1. p = [k \in 1..e |-> Stream.out[Len(buffer) + k]]
        BY <2>6 DEF Produced
    <3>2. e \in 0..(Len(Stream.out) - Len(buffer))
        BY <2>3
    <3>3. \A k \in 1..Len(buffer) : buffer[k] = Stream.out[k]
        BY <1>1 DEF BufferIsFront
    <3>4. buffer' = buffer \o p
        BY <2>1 DEF all
    <3> DEFINE out == Stream.out  S == OutCells
    <3> HIDE DEF p
    <3>5. /\ out \in Seq(S) /\ buffer \in Seq(S) /\ Len(buffer) <= Len(out)
          /\ \A k \in 1..Len(buffer) : buffer[k] = out[k]
          /\ e \in 0..(Len(out) - Len(buffer))
          /\ p = [k \in 1..e |-> out[Len(buffer) + k]]
        BY <2>3, <2>4, <3>1, <3>2, <3>3
    <3> HIDE DEF out, S
    <3>6. /\ buffer' \in Seq(S) /\ Len(buffer') = Len(buffer) + e
          /\ \A k \in 1..Len(buffer') : buffer'[k] = out[k]
        BY <3>4, <3>5, AppendFront
    <3>7. QED
        BY <3>6 DEF out, S
  <2>9. e \in Nat /\ Len(buffer') \in 0..request.size /\ Len(buffer') <= Len(Stream.out)
    BY <2>3, <2>4, <2>8
  <2>10. BoundsInv'
    <3>1. result' \in 0..request.size
        BY <1>1, <2>1, <2>9 DEF BoundsInv
    <3>2. pc' \in {"read", "done"} /\ stream' \in {"none", "open", "ended"}
        BY <1>1, <2>1 DEF BoundsInv
    <3>3. QED
        BY <1>1, <2>1, <2>2, <2>9, <3>1, <3>2, SameRequest, Zenon DEF BoundsInv
  <2>11. CASE end = TRUE
    <3>1. Len(buffer') = Len(Stream.out) /\ Len(all) >= Len(Stream.in)
        BY <2>1, <2>5, <2>8, <2>11 DEF MayCode, Complete
    <3>2. zelda64_read_file(rom, index) = Stream.out
        BY <1>1, <2>5, <2>6, <3>1, WholeStreamIsFile
    <3>3. buffer' = Stream.out
        BY <2>3, <2>8, <3>1, SameSeq
    <3>4. pc' = "done" /\ stream' = "ended" /\ result' = Len(buffer')
        BY <2>1, <2>11
    <3>5. ReadsTheFile'
      <4>1. Len(buffer') = st.file_size /\ st.file_size \in Nat /\ st' = st /\ IsStream'
        BY <1>1, <2>2, <2>3, <3>1, SameRequest
      <4>2. buffer' = zelda64_read_file(rom', index')
        BY <2>2, <3>2, <3>3, SameRequest
      <4>3. QED
        BY <3>4, <4>1, <4>2 DEF ReadsTheFile
    <3>6. QED
        BY <2>10, <3>4, <3>5 DEF IInv, DoneInv
  <2>12. CASE end = FALSE
    <3>1. /\ pc' = "read" /\ stream' = "open" /\ result' = 0 /\ error' = "OK"
          /\ request'.size >= st'.file_size
        BY <1>1, <2>1, <2>2, <2>12, SameRequest DEF LoopInv
    <3>2. (AllTaken \/ position = Len(taken))'
      <4>1. CASE c = Len(chunk)
        <5>1. Len(taken) >= Len(Stream.in) \/ position = Len(taken) + Len(chunk)
            BY <1>1 DEF LoopInv, AllTaken
        <5>2. Len(all) >= Len(Stream.in) \/ position = Len(all)
            BY <2>3, <2>5, <2>7, <4>1, <5>1
        <5>3. QED
            BY <2>1, <2>2, <5>2, SameRequest DEF AllTaken, all
      <4>2. CASE c # Len(chunk)
        <5>1. e = room => Len(buffer) + e = Len(Stream.out)
            BY <2>3, <2>4, <2>9
        <5>2. Complete(Stream, Len(taken) + c, finish)
            BY <2>1, <4>2, <5>1 DEF MayCode
        <5>3. Len(all) >= Len(Stream.in)
            BY <2>5, <5>2 DEF Complete
        <5>4. QED
            BY <2>1, <2>2, <5>3, SameRequest DEF AllTaken, all
      <4>3. QED
        BY <4>1, <4>2
    <3>3. taken' = all
        BY <2>1 DEF all
    <3>4. TakenIsStorage'
        BY <2>2, <2>5, <3>3, SameRequest, Zenon DEF TakenIsStorage
    <3>5. Fed(Stream, taken)' /\ taken' \in Seq(Storage')
        BY <2>2, <2>5, <2>6, <3>3, SameRequest DEF Fed
    <3>6. BufferIsFront'
        BY <2>2, <2>8, <2>9, SameRequest, Zenon DEF BufferIsFront
    <3>7. LoopInv'
        BY <1>1, <2>2, <3>1, <3>2, <3>4, <3>5, <3>6, SameRequest DEF LoopInv
    <3>8. QED
        BY <2>10, <3>1, <3>7 DEF IInv
  <2>13. QED
    BY <2>11, <2>12
<1>4. QED
    BY <1>2, <1>3

LEMMA StutterKeeps ==
    ASSUME IInv, UNCHANGED vars
    PROVE  IInv'
<1>1. request' = request
    BY DEF vars
<1>2. BoundsInv'
    BY <1>1, SameRequest DEF IInv, BoundsInv, vars
<1>3. StartInv => StartInv'
    BY <1>1, SameRequest DEF StartInv, vars
<1>4. LoopInv => LoopInv'
    BY <1>1, SameRequest
       DEF LoopInv, TakenIsStorage, Fed, BufferIsFront, ChunkIsRead, AllTaken, vars
<1>5. DoneInv => DoneInv'
    BY <1>1, SameRequest DEF DoneInv, ReadsTheFile, vars
<1>6. QED
    BY <1>2, <1>3, <1>4, <1>5 DEF IInv, vars

(* The inductive invariant of the reader: what the decoder was given is    *)
(* the storage without holes, what it made is the front of the file.       *)
THEOREM Invariance == Spec => []IInv
<1>1. Init => IInv
    BY InitInv
<1>2. IInv /\ [Next]_vars => IInv'
    BY StatKeeps, ReadStoredKeeps, ReadChunkKeeps, DecompressKeeps, StutterKeeps DEF Next
<1>3. QED
    BY <1>1, <1>2, PTL DEF Spec

-----------------------------------------------------------------------------

(* Every variable of the reader keeps its type: the position stays in the  *)
(* ROM and the size returned is a word.                                    *)
THEOREM TypeCorrect == Spec => []TypeOK
<1>1. IInv => TypeOK
  <2> SUFFICES ASSUME IInv
               PROVE  TypeOK
    OBVIOUS
  <2>1. BoundsInv /\ request \in Requests
    BY DEF IInv, BoundsInv
  <2>2. position = 0 \/ st.offset + position \in 1..Len(rom.cells)
    BY <2>1, RequestIs, StatIs DEF BoundsInv
  <2>3. result \in Word
    BY <2>1, RequestIs, WordsAssumption DEF BoundsInv, Word
  <2>4. QED
    BY <2>1, <2>2, <2>3 DEF BoundsInv, TypeOK
<1>2. QED
    BY <1>1, Invariance, PTL

(* What is returned without an error is the file from its first cell on,   *)
(* in order, for every ROM, wherever it is cut off, every size of the      *)
(* chunks and whatever part of each the decoder takes.  A compressed file  *)
(* is whole, and so is a stored one that the ROM holds; of a stored file   *)
(* the ROM ends inside, what the ROM holds is returned.                    *)
THEOREM FileIsRead == Spec => []ReadsTheFile
<1>1. IInv => ReadsTheFile
    BY DEF IInv, DoneInv, ReadsTheFile
<1>2. QED
    BY <1>1, Invariance, PTL

(* The decoder never writes past the end of the caller's buffer, though    *)
(* the buffer's size was only compared with a number from the stream.      *)
THEOREM BufferIsEnough == Spec => []StaysInBuffer
<1>1. IInv => StaysInBuffer
  <2> SUFFICES ASSUME IInv
               PROVE  Len(buffer) <= request.size
    BY DEF StaysInBuffer
  <2>1. Len(buffer) \in 0..request.size /\ request.size \in Nat
    BY RequestIs DEF IInv, BoundsInv
  <2>2. QED
    BY <2>1
<1>2. QED
    BY <1>1, Invariance, PTL

(* A decoder that was started is the one in use until it is ended, and no  *)
(* way out leaves it open.                                                 *)
THEOREM DecoderIsEnded == Spec => []DecoderReleased
<1>1. IInv => DecoderReleased
    BY DEF IInv, DoneInv, LoopInv, DecoderReleased
<1>2. QED
    BY <1>1, Invariance, PTL

-----------------------------------------------------------------------------
(* Reading a file whose storage is all there ends: what is left of the     *)
(* storage and of the file becomes less with every step.  A chunk is only  *)
(* empty when all was read, and then the decoder, which is told so, either *)
(* makes something of what it has or ends.                                 *)

AtLoop == pc \in {"read", "decompress"}
Fresh == pc = "decompress" /\ Len(chunk) > 0

PhasesLeft == CASE pc = "stat" -> 2 [] pc = "done" -> 0 [] OTHER -> 1
StorageLeft ==
    IF AtLoop THEN 2 * (st.size - position) + (IF Fresh THEN 1 ELSE 0) ELSE 0
FileLeft == IF AtLoop THEN st.file_size - Len(buffer) ELSE 0
ReadsLeft == IF pc = "read" THEN 1 ELSE 0

Left == <<PhasesLeft, StorageLeft, FileLeft, ReadsLeft>>

(* An empty chunk is the last one. *)
ChunksInv == IsThere /\ pc = "decompress" => Len(chunk) > 0 \/ finish

LEMMA LoopIs ==
    ASSUME IInv, AtLoop
    PROVE  /\ LoopInv /\ BoundsInv /\ request \in Requests
           /\ st.result = "OK" /\ IsStream
           /\ st.size \in Nat /\ st.offset \in Nat /\ st.file_size \in Nat
           /\ position \in Nat /\ position <= st.size
           /\ Len(buffer) \in Nat /\ Len(buffer) <= st.file_size
           /\ Len(Stream.out) = st.file_size /\ Len(Stream.in) \in Nat
           /\ ~Stream.compress
           /\ Len(chunk) \in Nat /\ Len(taken) \in Nat
           /\ Len(rom.cells) \in Nat
<1>1. LoopInv /\ BoundsInv /\ request \in Requests /\ st.result = "OK" /\ IsStream
    BY DEF IInv, AtLoop, LoopInv, BoundsInv
<1>2. /\ st.size \in Nat /\ st.offset \in Nat /\ st.file_size \in Nat
      /\ Len(rom.cells) \in Nat
    BY <1>1, StatIs, RequestIs
<1>3. position \in Nat /\ position <= st.size
    BY <1>1, <1>2 DEF BoundsInv
<1>4. Len(Stream.out) = st.file_size /\ Len(Stream.in) \in Nat /\ ~Stream.compress
    BY <1>1, StreamIs
<1>5. Len(buffer) \in Nat /\ Len(buffer) <= st.file_size
    BY <1>1, <1>4 DEF LoopInv, BufferIsFront
<1>6. Len(chunk) \in Nat /\ Len(taken) \in Nat
    BY <1>1 DEF LoopInv, BoundsInv
<1>7. QED
    BY <1>1, <1>2, <1>3, <1>4, <1>5, <1>6

LEMMA LeftIsMeasure == IInv => IsMeasure(Left)
<1> SUFFICES ASSUME IInv PROVE IsMeasure(Left)
    OBVIOUS
<1>1. StorageLeft \in Nat /\ FileLeft \in Nat
  <2>1. CASE AtLoop
    BY <2>1, LoopIs DEF StorageLeft, FileLeft
  <2>2. CASE ~AtLoop
    BY <2>2 DEF StorageLeft, FileLeft
  <2>3. QED
    BY <2>1, <2>2
<1>2. PhasesLeft \in Nat /\ ReadsLeft \in Nat
    BY DEF PhasesLeft, ReadsLeft
<1>3. QED
    BY <1>1, <1>2 DEF Left, IsMeasure

(* There is something to read until all was read. *)
LEMMA SomethingIsRead ==
    ASSUME IsThere, st.size \in Nat, st.offset \in Nat, Len(rom.cells) \in Nat,
           request \in Requests,
           NEW off \in Nat, off < st.size, NEW n \in Nat \ {0}
    PROVE  Len(zelda64_read_storage(rom, index, off, n)) > 0
<1> DEFINE want == IF st.size - off < n THEN st.size - off ELSE n
           from == st.offset + off
           to == IF from + want < Len(rom.cells) THEN from + want ELSE Len(rom.cells)
<1>1. st.result = "OK" /\ st.offset + st.size <= Len(rom.cells) /\ ~(off >= st.size)
    BY DEF IsThere
<1>2. zelda64_read_storage(rom, index, off, n) = SubSeq(rom.cells, from + 1, to)
    BY <1>1, Zenon DEF zelda64_read_storage, st
<1>3. want \in Nat /\ want > 0
    OBVIOUS
<1> HIDE DEF want
<1>4. from \in Nat /\ to \in Nat /\ from < to /\ to <= Len(rom.cells)
    BY <1>1, <1>3
<1>5. rom.cells \in Seq(Storage)
    BY RequestIs
<1> HIDE DEF from, to
<1>6. Len(SubSeq(rom.cells, from + 1, to)) = to - from
    BY <1>4, <1>5, SubSeqIs
<1>7. QED
    BY <1>2, <1>4, <1>6

(* What a read leaves to do. *)
LEMMA ReadLeaves ==
    ASSUME IInv, ReadChunk, pc' = "decompress"
    PROVE  /\ request' = request /\ buffer' = buffer /\ Len(chunk') \in Nat
           /\ position' = position + Len(chunk')
           /\ finish' = (position' = st.size)
           /\ IsThere /\ position < st.size => Len(chunk') > 0
<1> DEFINE want == IF st.size - position < CHUNK_SIZE THEN st.size - position ELSE CHUNK_SIZE
<1>1. /\ pc = "read" /\ AtLoop
      /\ chunk' = zelda64_read_storage(rom, index, position, want)
      /\ position' = position + Len(chunk')
      /\ finish' = (position' = st.size)
      /\ UNCHANGED <<request, buffer>>
    BY DEF ReadChunk, Fail, AtLoop
<1>2. /\ request \in Requests /\ st.size \in Nat /\ st.offset \in Nat /\ position \in Nat
      /\ position <= st.size /\ Len(rom.cells) \in Nat /\ st.result = "OK"
    BY <1>1, LoopIs
<1>3. want \in Nat /\ (position < st.size => want > 0)
    BY <1>2, ChunkAssumption
<1> HIDE DEF want
<1>4. Len(chunk') \in Nat
    BY <1>1, <1>2, <1>3, StorageIs DEF IsRead
<1>5. IsThere /\ position < st.size => Len(chunk') > 0
    BY <1>1, <1>2, <1>3, SomethingIsRead
<1>6. QED
    BY <1>1, <1>4, <1>5

LEMMA ChunksStep == IInv /\ ChunksInv /\ [Next]_vars => ChunksInv'
<1> SUFFICES ASSUME IInv, ChunksInv, [Next]_vars, pc' = "decompress", IsThere'
             PROVE  (Len(chunk) > 0 \/ finish)'
    BY DEF ChunksInv
<1>1. CASE ReadChunk
  <2>1. /\ request' = request /\ Len(chunk') \in Nat /\ position' = position + Len(chunk')
        /\ finish' = (position' = st.size)
        /\ IsThere /\ position < st.size => Len(chunk') > 0
    BY <1>1, ReadLeaves
  <2>2. IsThere
    BY <2>1, SameRequest DEF IsThere
  <2>3. AtLoop
    BY <1>1 DEF ReadChunk, AtLoop
  <2>4. position \in Nat /\ st.size \in Nat /\ position <= st.size
    BY <2>3, LoopIs
  <2>5. CASE position < st.size
    BY <2>1, <2>2, <2>5
  <2>6. CASE position = st.size /\ ~(Len(chunk') > 0)
    <3>1. position' = st.size
        BY <2>1, <2>4, <2>6
    <3>2. QED
        BY <2>1, <3>1, Zenon
  <2>7. QED
    BY <2>4, <2>5, <2>6
<1>2. CASE UNCHANGED vars
  <2>1. request' = request /\ pc = "decompress" /\ chunk' = chunk /\ finish' = finish
    BY <1>2 DEF vars
  <2>2. IsThere
    BY <2>1, SameRequest DEF IsThere
  <2>3. QED
    BY <2>1, <2>2 DEF ChunksInv
<1>3. CASE Stat \/ ReadStored \/ Decompress
    BY <1>3 DEF Stat, ReadStored, Decompress, Fail
<1>4. QED
    BY <1>1, <1>2, <1>3 DEF Next

(* A call of the decoder that makes nothing has taken a chunk, or is the   *)
(* last one.                                                               *)
LEMMA IdleCall ==
    ASSUME IInv, AtLoop, Len(chunk) = 0, finish, NEW end \in BOOLEAN,
           MayCode(Stream, taken, Len(buffer), chunk, st.file_size - Len(buffer), finish,
                   0, 0, end),
           ~Malformed(Stream, taken, chunk, finish, 0)
    PROVE  end
<1>1. /\ Len(buffer) \in Nat /\ Len(buffer) <= st.file_size /\ st.file_size \in Nat
      /\ Len(Stream.out) = st.file_size /\ ~Stream.compress
    BY LoopIs
<1>2. Complete(Stream, Len(taken) + 0, finish)
    BY <1>1 DEF Malformed
<1> DEFINE room == st.file_size - Len(buffer)
<1>3. 0 = room \/ Len(buffer) + 0 = Len(Stream.out)
    BY <1>2 DEF MayCode
<1>4. Len(buffer) + 0 = Len(Stream.out)
    BY <1>1, <1>3
<1>5. QED
    BY <1>2, <1>4 DEF MayCode

(* Enough for a tuple of four to be less. *)
LEMMA IsLessIf ==
    ASSUME NEW u, NEW v, Len(v) = 4,
           \/ u[1] < v[1]
           \/ u[1] = v[1] /\ u[2] < v[2]
           \/ u[1] = v[1] /\ u[2] = v[2] /\ u[3] < v[3]
           \/ u[1] = v[1] /\ u[2] = v[2] /\ u[3] = v[3] /\ u[4] < v[4]
    PROVE  IsLess(u, v)
<1>1. CASE u[1] < v[1]
    BY <1>1 DEF IsLess
<1>2. CASE u[1] = v[1] /\ u[2] < v[2]
    BY <1>2 DEF IsLess
<1>3. CASE u[1] = v[1] /\ u[2] = v[2] /\ u[3] < v[3]
    BY <1>3 DEF IsLess
<1>4. CASE u[1] = v[1] /\ u[2] = v[2] /\ u[3] = v[3] /\ u[4] < v[4]
    BY <1>4 DEF IsLess
<1>5. QED
    BY <1>1, <1>2, <1>3, <1>4

LEMMA DecompressIsLess ==
    ASSUME IInv, ChunksInv, IsThere, Decompress, pc' # "done"
    PROVE  IsLess(Left', Left)
<1> DEFINE room == st.file_size - Len(buffer)
<1>1. pc = "decompress" /\ AtLoop
    BY DEF Decompress, AtLoop
<1>2. PICK c \in 0..Len(chunk), e \in 0..room, end \in BOOLEAN :
          /\ MayCode(Stream, taken, Len(buffer), chunk, room, finish, c, e, end)
          /\ ~Malformed(Stream, taken, chunk, finish, c)
          /\ buffer' = buffer \o Produced(Stream, taken \o Prefix(chunk, c), Len(buffer), e)
          /\ pc' = IF end THEN "done" ELSE "read"
          /\ UNCHANGED <<request, position, chunk>>
    BY Zenon DEF Decompress, Fail
<1>3. /\ ~end /\ pc' = "read" /\ request' = request /\ st' = st /\ position' = position
    BY <1>2, SameRequest
<1>4. /\ st.size \in Nat /\ position \in Nat /\ position <= st.size
      /\ Len(buffer) \in Nat /\ st.file_size \in Nat /\ Len(buffer) <= st.file_size
      /\ Len(chunk) \in Nat /\ buffer \in Seq(OutCells)
    BY <1>1, LoopIs DEF LoopInv, BufferIsFront
<1>5. Len(buffer') = Len(buffer) + e
  <2> DEFINE p == Produced(Stream, taken \o Prefix(chunk, c), Len(buffer), e)
  <2>1. p = [k \in 1..e |-> p[k]] /\ e \in Nat /\ buffer' = buffer \o p
    BY <1>2, <1>4 DEF Produced
  <2> HIDE DEF p
  <2>2. IsSeq(p) /\ Len(p) = e
    BY <2>1, FunctionIsIsSeq
  <2>3. IsSeq(buffer)
    BY <1>4, SeqIs
  <2>4. QED
    BY <2>1, <2>2, <2>3, ConcatIs
<1>6. /\ Len(Left) = 4
      /\ Left[1] = 1 /\ Left'[1] = 1
      /\ Left[2] = 2 * (st.size - position) + (IF Len(chunk) > 0 THEN 1 ELSE 0)
      /\ Left'[2] = 2 * (st.size - position)
      /\ Left[3] = st.file_size - Len(buffer)
      /\ Left'[3] = st.file_size - Len(buffer')
  <2>1. /\ PhasesLeft = 1 /\ StorageLeft = 2 * (st.size - position) + (IF Len(chunk) > 0 THEN 1 ELSE 0)
        /\ FileLeft = st.file_size - Len(buffer)
    BY <1>1 DEF PhasesLeft, StorageLeft, FileLeft, Fresh
  <2>2. /\ PhasesLeft' = 1 /\ StorageLeft' = 2 * (st.size - position) + 0
        /\ FileLeft' = st.file_size - Len(buffer')
    BY <1>3 DEF PhasesLeft, StorageLeft, FileLeft, Fresh, AtLoop
  <2>3. 2 * (st.size - position) + 0 = 2 * (st.size - position)
    BY <1>4
  <2>4. QED
    BY <2>1, <2>2, <2>3 DEF Left
<1>7. CASE Len(chunk) > 0
  <2>1. Left'[2] < Left[2]
    BY <1>4, <1>6, <1>7
  <2>2. QED
    BY <1>6, <2>1, IsLessIf
<1>8. CASE Len(chunk) = 0
  <2>1. Left'[2] = Left[2]
    BY <1>4, <1>6, <1>8
  <2>2. finish /\ c = 0
    BY <1>1, <1>8 DEF ChunksInv
  <2>3. e # 0
    BY <1>1, <1>2, <1>3, <1>8, <2>2, IdleCall
  <2>4. Left'[3] < Left[3]
    BY <1>4, <1>5, <1>6, <2>3
  <2>5. QED
    BY <1>6, <2>1, <2>4, IsLessIf
<1>9. QED
    BY <1>4, <1>7, <1>8

LEMMA ReadIsLess ==
    ASSUME IInv, IsThere, ReadChunk, pc' # "done"
    PROVE  IsLess(Left', Left)
<1>1. pc = "read" /\ AtLoop /\ pc' = "decompress"
    BY DEF ReadChunk, Fail, AtLoop
<1>2. /\ request' = request /\ buffer' = buffer /\ Len(chunk') \in Nat
      /\ position' = position + Len(chunk')
      /\ position < st.size => Len(chunk') > 0
      /\ st' = st
    BY <1>1, ReadLeaves, SameRequest
<1>3. st.size \in Nat /\ position \in Nat /\ position <= st.size
    BY <1>1, LoopIs
<1>4. /\ Len(Left) = 4
      /\ Left[1] = 1 /\ Left'[1] = 1
      /\ Left[2] = 2 * (st.size - position)
      /\ Left'[2] = 2 * (st.size - position') + (IF Len(chunk') > 0 THEN 1 ELSE 0)
      /\ Left'[3] = Left[3]
      /\ Left[4] = 1 /\ Left'[4] = 0
  <2>1. /\ PhasesLeft = 1 /\ StorageLeft = 2 * (st.size - position) + 0
        /\ FileLeft = st.file_size - Len(buffer) /\ ReadsLeft = 1
    BY <1>1 DEF PhasesLeft, StorageLeft, FileLeft, Fresh, ReadsLeft
  <2>2. /\ PhasesLeft' = 1
        /\ StorageLeft' = 2 * (st.size - position') + (IF Len(chunk') > 0 THEN 1 ELSE 0)
        /\ FileLeft' = st.file_size - Len(buffer) /\ ReadsLeft' = 0
    BY <1>1, <1>2 DEF PhasesLeft, StorageLeft, FileLeft, Fresh, AtLoop, ReadsLeft
  <2>3. 2 * (st.size - position) + 0 = 2 * (st.size - position)
    BY <1>3
  <2>4. QED
    BY <2>1, <2>2, <2>3 DEF Left
<1>5. CASE Len(chunk') > 0
  <2>1. Left'[2] < Left[2]
    <3> DEFINE n == Len(chunk')
    <3>1. /\ n \in Nat /\ n > 0 /\ position' = position + n
          /\ Left'[2] = 2 * (st.size - position') + 1
        BY <1>2, <1>4, <1>5
    <3> HIDE DEF n
    <3>2. QED
        BY <1>3, <1>4, <3>1
  <2>2. QED
    BY <1>4, <2>1, IsLessIf
<1>6. CASE Len(chunk') = 0
  <2>1. position = st.size /\ position' = position
    BY <1>2, <1>3, <1>6
  <2>2. Left'[2] = Left[2]
    BY <1>3, <1>4, <1>6, <2>1
  <2>3. QED
    BY <1>4, <2>2, IsLessIf
<1>7. QED
    BY <1>2, <1>5, <1>6

LEMMA StepIsLess == IInv /\ ChunksInv /\ IsThere /\ Next => IsLess(Left', Left)
<1> SUFFICES ASSUME IInv, ChunksInv, IsThere, Next PROVE IsLess(Left', Left)
    OBVIOUS
<1>1. Len(Left) = 4 /\ Left[1] = PhasesLeft /\ Left'[1] = PhasesLeft'
    BY DEF Left
<1>2. CASE pc = "stat" \/ pc' = "done"
  <2>1. pc # "done" /\ (pc = "stat" => pc' # "stat")
    BY DEF Next, Stat, ReadStored, ReadChunk, Decompress, Fail
  <2>2. PhasesLeft' < PhasesLeft
    BY <1>2, <2>1 DEF PhasesLeft
  <2>3. QED
    BY <1>1, <2>2, IsLessIf
<1>3. CASE pc # "stat" /\ pc' # "done"
  <2>1. ReadChunk \/ Decompress
    BY <1>3 DEF Next, Stat, ReadStored, Fail
  <2>2. QED
    BY <1>3, <2>1, ReadIsLess, DecompressIsLess
<1>4. QED
    BY <1>2, <1>3

(* zelda64_read_file ends when the storage of the file is all in the ROM:  *)
(* each step of its loop leaves less to do, however little the decoder     *)
(* takes and makes per call.                                               *)
THEOREM ReadingEnds ==
    Spec => []IsMeasure(Left) /\ [][IsThere => IsLess(Left', Left)]_vars
<1>1. Init => ChunksInv
    BY DEF Init, ChunksInv
<1>2. IInv /\ ChunksInv /\ [Next]_vars => [IsThere => IsLess(Left', Left)]_vars
    BY StepIsLess
<1>3. QED
    BY <1>1, <1>2, ChunksStep, LeftIsMeasure, Invariance, PTL DEF Spec
=============================================================================
