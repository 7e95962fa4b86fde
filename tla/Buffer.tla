------------------------------- MODULE Buffer -------------------------------
(***************************************************************************)
(* A Buffer (source/server.hpp): a vector of bytes with a read and a write *)
(* offset.  A write that does not fit at the end moves the readable bytes  *)
(* to the front if that makes room, and otherwise enlarges the vector.     *)
(*                                                                         *)
(* A Buffer belongs to one thread.  Its operations are called with lengths *)
(* their assertions allow: HandleWrite with what send() took, HttpContext  *)
(* with lengths it compared to ReadAbleSize.                               *)
(***************************************************************************)
EXTENDS Integers, Sequences

CONSTANTS
  Byte,         \* the bytes
  NewLine,      \* the byte that ends a line
  Zero,         \* the byte resize() fills with
  DefaultSize,  \* BUFFER_DEFAULT_SIZE
  MaxWrite,     \* bound on the length of one write
  MaxReadable   \* bound on the readable bytes

ASSUME BufferAssumption ==
  /\ NewLine \in Byte /\ Zero \in Byte
  /\ DefaultSize \in Nat /\ MaxWrite \in Nat /\ MaxReadable \in Nat

VARIABLES
  mem,     \* the contents of _buffer
  size,    \* _buffer.size()
  reader,  \* _reader_idx
  writer,  \* _writer_idx
  got,     \* the string the last operation returned
  peak     \* history: the most bytes that were ever readable

vars == <<mem, size, reader, writer, got, peak>>

TailIdleSize == size - writer
HeadIdleSize == reader
ReadAbleSize == writer - reader

Data == UNION {[1 .. n -> Byte] : n \in 0 .. MaxWrite}

TypeOK ==
  /\ size \in Nat /\ reader \in Nat /\ writer \in Nat /\ peak \in Nat
  /\ mem \in [0 .. size - 1 -> Byte]
  /\ got \in Seq(Byte)
  /\ reader <= writer /\ writer <= size

Init ==
  /\ size = DefaultSize
  /\ mem = [k \in 0 .. DefaultSize - 1 |-> Zero]
  /\ reader = 0 /\ writer = 0
  /\ got = <<>> /\ peak = 0
-----------------------------------------------------------------------------
(* Where EnsureWriteSpace(len) leaves the offsets and the size ... *)
Moves(len) == TailIdleSize < len /\ len <= TailIdleSize + HeadIdleSize

(* Bug: the test of the room at the end is off by one. *)
GrowsLate(len) == TailIdleSize + 1 < len /\ len > TailIdleSize + HeadIdleSize

(* Bug: the vector grows although the bytes could be moved. *)
GrowsAlways(len) == TailIdleSize < len

Grows(len) == TailIdleSize < len /\ len > TailIdleSize + HeadIdleSize

ReaderFor(len) == IF Moves(len) THEN 0 ELSE reader
WriterFor(len) == IF Moves(len) THEN ReadAbleSize ELSE writer
SizeFor(len)   == IF Grows(len) THEN writer + len ELSE size

(* Bug: the offsets are moved and the bytes are not. *)
ByteAfterNoCopy(len, k) == IF k < size THEN mem[k] ELSE Zero

(* ... and the byte it leaves at offset k. *)
ByteAfter(len, k) ==
  IF Moves(len) /\ k < ReadAbleSize THEN mem[reader + k]
  ELSE IF k < size THEN mem[k] ELSE Zero

(* WriteAndPush: Write, of nothing if there is no data, and then           *)
(* MoveWriteOffset, whose assertion is TypeOK's writer <= size.            *)
WriteAndPush(data) ==
  LET len == Len(data)
      w   == WriterFor(len)
  IN  /\ ReadAbleSize + len <= MaxReadable
      /\ size' = SizeFor(len)
      /\ reader' = ReaderFor(len)
      /\ writer' = w + len
      /\ mem' = [k \in 0 .. SizeFor(len) - 1 |->
                  IF w <= k /\ k < w + len THEN data[k - w + 1]
                                           ELSE ByteAfter(len, k)]
      /\ peak' = IF ReadAbleSize + len > peak THEN ReadAbleSize + len ELSE peak
      /\ got' = <<>>

(* The bytes Read and ReadAsString copy. *)
Bytes(len) == [i \in 1 .. len |-> mem[reader + i - 1]]

MoveReadOffset(len) ==
  /\ len <= ReadAbleSize
  /\ reader' = reader + len
  /\ got' = <<>>
  /\ UNCHANGED <<mem, size, writer, peak>>

ReadAsString(len) ==
  /\ len <= ReadAbleSize
  /\ got' = Bytes(len)
  /\ UNCHANGED <<mem, size, reader, writer, peak>>

ReadAsStringAndPop(len) ==
  /\ len <= ReadAbleSize
  /\ got' = Bytes(len)
  /\ reader' = reader + len
  /\ UNCHANGED <<mem, size, writer, peak>>

(* FindCRLF finds the first newline among the readable bytes. *)
FindCRLF(k) ==
  /\ mem[k] = NewLine
  /\ \A j \in reader .. k - 1 : mem[j] # NewLine

(* GetLine gives the line with its newline, or nothing. *)
GetLineAndPop ==
  \/ \E k \in reader .. writer - 1 :
       FindCRLF(k) /\ ReadAsStringAndPop(k - reader + 1)
  \/ /\ \A k \in reader .. writer - 1 : ~FindCRLF(k)
     /\ got' = <<>>
     /\ UNCHANGED <<mem, size, reader, writer, peak>>

Clear ==
  /\ reader' = 0 /\ writer' = 0
  /\ got' = <<>>
  /\ UNCHANGED <<mem, size, peak>>
-----------------------------------------------------------------------------
Next ==
  \/ \E data \in Data : WriteAndPush(data)
  \/ \E len \in 0 .. ReadAbleSize :
       MoveReadOffset(len) \/ ReadAsString(len) \/ ReadAsStringAndPop(len)
  \/ GetLineAndPop
  \/ Clear

Spec == Init /\ [][Next]_vars
-----------------------------------------------------------------------------
Queue == INSTANCE ByteQueue WITH queue <- Bytes(ReadAbleSize)

(* A buffer is a queue of bytes: no write, move or growth loses, repeats   *)
(* or reorders a byte, and what is read is what was written.               *)
BufferIsQueue == Queue!Spec

(* The space at the front is used again: however much goes through a       *)
(* buffer, it stays smaller than twice what was ever in it at once.        *)
SpaceBounded == size = DefaultSize \/ size < 2 * peak
=============================================================================
