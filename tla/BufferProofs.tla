---------------------------- MODULE BufferProofs ----------------------------
(***************************************************************************)
(* A Buffer of any size, over any bytes, is a queue, and wastes less than  *)
(* half of its memory.  The induction needs, next to the types, that the   *)
(* history peak is not below what is readable now.                         *)
(***************************************************************************)
EXTENDS Buffer, WellFoundedInduction, SequenceTheorems, TLAPS

Bounded == ReadAbleSize <= peak /\ SpaceBounded

IInv == TypeOK /\ Bounded

USE BufferAssumption

(* A written string is a sequence of bytes of its length. *)
LEMMA DataType ==
  ASSUME NEW data \in Data
  PROVE  Len(data) \in Nat /\ data \in [1 .. Len(data) -> Byte] /\ data \in Seq(Byte)
  BY DEF Data

(* What is read is a sequence of bytes. *)
LEMMA BytesType ==
  ASSUME TypeOK, NEW len \in Nat, len <= ReadAbleSize
  PROVE  Bytes(len) \in Seq(Byte) /\ Len(Bytes(len)) = len
  <1>1. \A i \in 1 .. len : reader + i - 1 \in 0 .. size - 1
    BY DEF TypeOK, ReadAbleSize
  <1>2. \A i \in 1 .. len : mem[reader + i - 1] \in Byte
    BY <1>1 DEF TypeOK
  <1>3. Bytes(len) \in [1 .. len -> Byte]
    BY <1>2 DEF Bytes
  <1> QED
    BY <1>3

(* The offsets and the size after a write. *)
LEMMA WriteSpace ==
  ASSUME IInv, NEW len \in Nat
  PROVE  /\ ReaderFor(len) \in Nat /\ WriterFor(len) \in Nat /\ SizeFor(len) \in Nat
         /\ WriterFor(len) - ReaderFor(len) = ReadAbleSize
         /\ ReaderFor(len) <= WriterFor(len)
         /\ WriterFor(len) + len <= SizeFor(len)
         /\ size <= SizeFor(len)
         /\ SizeFor(len) = size \/ SizeFor(len) < 2 * (ReadAbleSize + len)
  BY SMTT(30) DEF IInv, TypeOK, Bounded, ReaderFor, WriterFor, SizeFor, Moves, Grows,
     ReadAbleSize, TailIdleSize, HeadIdleSize

(* The readable bytes are not disturbed by making room. *)
LEMMA WriteKeeps ==
  ASSUME TypeOK, NEW len \in Nat, NEW i \in 1 .. ReadAbleSize
  PROVE  ByteAfter(len, ReaderFor(len) + i - 1) = mem[reader + i - 1]
  BY DEF TypeOK, ByteAfter, ReaderFor, Moves, ReadAbleSize

(* What a write leaves behind are bytes. *)
LEMMA ByteAfterType ==
  ASSUME TypeOK, NEW len \in Nat, NEW k \in Nat
  PROVE  ByteAfter(len, k) \in Byte
  BY DEF TypeOK, ByteAfter, Moves, ReadAbleSize

(* The invariant holds at first ... *)
LEMMA InitHolds == Init => IInv
  BY DEF Init, IInv, TypeOK, Bounded, SpaceBounded, ReadAbleSize

(* <= is transitive. *)
LEMMA LeTrans ==
  ASSUME NEW a \in Int, NEW b \in Int, NEW c \in Int, a <= b, b <= c
  PROVE  a <= c
  OBVIOUS

(* Reading only narrows the readable part. *)
LEMMA Narrows ==
  ASSUME IInv, reader' \in Nat, writer' \in Nat,
         reader' <= writer', writer' <= size, writer' - reader' <= ReadAbleSize,
         got' \in Seq(Byte), UNCHANGED <<mem, size, peak>>
  PROVE  IInv'
  <1>1. TypeOK'
    BY DEF IInv, TypeOK
  <1>2. ReadAbleSize' <= peak'
    <2>1. /\ writer - reader <= peak
          /\ writer - reader \in Int /\ peak \in Int /\ peak' = peak
      BY DEF IInv, TypeOK, Bounded, ReadAbleSize
    <2>2. writer' - reader' \in Int
      OBVIOUS
    <2>3. writer' - reader' <= writer - reader
      BY DEF ReadAbleSize
    <2>4. writer' - reader' <= peak
      BY <2>1, <2>2, <2>3, LeTrans
    <2> QED
      BY <2>1, <2>4 DEF ReadAbleSize
  <1>3. SpaceBounded'
    BY DEF IInv, Bounded, SpaceBounded
  <1> QED
    BY <1>1, <1>2, <1>3 DEF IInv, Bounded

(* The empty string is one. *)
LEMMA EmptyString == <<>> \in Seq(Byte)
  OBVIOUS

(* ... and each operation keeps it. *)
LEMMA StepHolds == IInv /\ [Next]_vars => IInv'
  <1> SUFFICES ASSUME IInv, [Next]_vars PROVE IInv'
    OBVIOUS
  <1> USE DEF IInv
  <1>1. CASE \E data \in Data : WriteAndPush(data)
    <2>1. PICK data \in Data : WriteAndPush(data)
      BY <1>1
    <2> DEFINE len == Len(data)
    <2>2. len \in Nat /\ data \in [1 .. len -> Byte]
      BY DataType
    <2> HIDE DEF len
    <2>3. /\ size' = SizeFor(len) /\ reader' = ReaderFor(len)
          /\ writer' = WriterFor(len) + len
          /\ peak' = IF ReadAbleSize + len > peak THEN ReadAbleSize + len ELSE peak
          /\ got' = <<>>
      BY <2>1 DEF WriteAndPush, len
    <2>4. mem' \in [0 .. size' - 1 -> Byte]
      <3>1. mem' = [k \in 0 .. SizeFor(len) - 1 |->
                     IF WriterFor(len) <= k /\ k < WriterFor(len) + len
                     THEN data[k - WriterFor(len) + 1] ELSE ByteAfter(len, k)]
        BY <2>1 DEF WriteAndPush, len
      <3>2. SizeFor(len) \in Nat /\ WriterFor(len) \in Nat
        BY <2>2, WriteSpace
      <3>3. ASSUME NEW k \in 0 .. SizeFor(len) - 1
            PROVE  (IF WriterFor(len) <= k /\ k < WriterFor(len) + len
                     THEN data[k - WriterFor(len) + 1] ELSE ByteAfter(len, k)) \in Byte
        <4>1. CASE WriterFor(len) <= k /\ k < WriterFor(len) + len
          <5>1. k - WriterFor(len) + 1 \in 1 .. len
            BY <3>2, <2>2, <4>1
          <5> QED
            BY <5>1, <2>2, <4>1
        <4>2. CASE ~(WriterFor(len) <= k /\ k < WriterFor(len) + len)
          BY <4>2, <2>2, <3>2, ByteAfterType
        <4> QED
          BY <4>1, <4>2
      <3> QED
        BY <3>1, <3>3, <2>3
    <2>5. /\ reader' \in Nat /\ writer' \in Nat /\ size' \in Nat
          /\ writer' - reader' = ReadAbleSize + len
          /\ reader' <= writer' /\ writer' <= size'
          /\ size' = size \/ size' < 2 * (ReadAbleSize + len)
      <3>1. /\ ReaderFor(len) \in Nat /\ WriterFor(len) \in Nat /\ SizeFor(len) \in Nat
            /\ WriterFor(len) - ReaderFor(len) = ReadAbleSize
            /\ ReaderFor(len) <= WriterFor(len)
            /\ WriterFor(len) + len <= SizeFor(len)
            /\ SizeFor(len) = size \/ SizeFor(len) < 2 * (ReadAbleSize + len)
        BY <2>2, WriteSpace
      <3> QED
        BY <2>2, <2>3, <3>1 DEF TypeOK, ReadAbleSize
    <2>6. TypeOK'
      BY <2>2, <2>3, <2>4, <2>5 DEF TypeOK, ReadAbleSize
    <2>7. Bounded'
      BY <2>2, <2>3, <2>5 DEF TypeOK, Bounded, SpaceBounded, ReadAbleSize
    <2> QED
      BY <2>6, <2>7
  <1>2. ASSUME NEW len \in 0 .. ReadAbleSize,
               MoveReadOffset(len) \/ ReadAsString(len) \/ ReadAsStringAndPop(len)
        PROVE  IInv'
    <2>1. len \in Nat /\ len <= ReadAbleSize
      BY DEF TypeOK, ReadAbleSize
    <2>2. Bytes(len) \in Seq(Byte)
      BY <2>1, BytesType
    <2>3. CASE MoveReadOffset(len)
      BY <2>1, <2>3, EmptyString, Narrows DEF MoveReadOffset, TypeOK, ReadAbleSize
    <2>4. CASE ReadAsString(len)
      BY <2>2, <2>4, Narrows DEF ReadAsString, TypeOK, ReadAbleSize
    <2>5. CASE ReadAsStringAndPop(len)
      BY <2>1, <2>2, <2>5, Narrows DEF ReadAsStringAndPop, TypeOK, ReadAbleSize
    <2> QED
      BY <1>2, <2>3, <2>4, <2>5
  <1>3. CASE GetLineAndPop
    <2>1. ASSUME NEW k \in reader .. writer - 1, ReadAsStringAndPop(k - reader + 1)
          PROVE  IInv'
      <3>1. k - reader + 1 \in 0 .. ReadAbleSize
        BY DEF TypeOK, ReadAbleSize
      <3> QED
        BY <2>1, <3>1, <1>2
    <2>2. CASE got' = <<>> /\ UNCHANGED <<mem, size, reader, writer, peak>>
      BY <2>2, EmptyString, Narrows DEF TypeOK, ReadAbleSize
    <2> QED
      BY <1>3, <2>1, <2>2 DEF GetLineAndPop
  <1>4. CASE Clear
    BY <1>4, EmptyString, Narrows DEF Clear, TypeOK, ReadAbleSize
  <1>5. CASE UNCHANGED vars
    BY <1>5 DEF vars, TypeOK, Bounded, SpaceBounded, ReadAbleSize
  <1> QED
    BY <1>1, <1>2, <1>3, <1>4, <1>5 DEF Next

(* The offsets and contents of a Buffer are always what its operations     *)
(* assume: MoveWriteOffset's assertion never fails.                        *)
THEOREM BufferTypeCorrect == Spec => []TypeOK
  BY InitHolds, StepHolds, PTL DEF Spec, IInv

(* A Buffer that grew is less than twice the size of what was in it. *)
THEOREM SpaceIsBounded == Spec => []SpaceBounded
  BY InitHolds, StepHolds, PTL DEF Spec, IInv, Bounded
-----------------------------------------------------------------------------
(* The bytes left after some are taken. *)
LEMMA RestIsSuffix ==
  ASSUME TypeOK, TypeOK', NEW len \in 0 .. ReadAbleSize,
         reader' = reader + len, UNCHANGED <<mem, writer>>
  PROVE  Queue!Drop(len)
  <1> DEFINE q == Bytes(ReadAbleSize)
  <1>1. ReadAbleSize \in Nat /\ ReadAbleSize' = ReadAbleSize - len /\ len \in Nat
    BY DEF TypeOK, ReadAbleSize
  <1>2. q \in Seq(Byte) /\ Len(q) = ReadAbleSize
    BY <1>1, BytesType
  <1>3. q' = [i \in 1 .. ReadAbleSize - len |-> mem[reader + len + i - 1]]
    BY <1>1 DEF Bytes
  <1>4. SubSeq(q, len + 1, Len(q)) = [i \in 1 .. Len(q) - len |-> q[i + len]]
    BY <1>1, <1>2
  <1>5. \A i \in 1 .. ReadAbleSize - len : q[i + len] = mem[reader + len + i - 1]
    BY <1>1 DEF TypeOK, Bytes
  <1> QED
    BY <1>2, <1>3, <1>4, <1>5 DEF Queue!Drop

(* What is read is the prefix of the queue. *)
LEMMA ReadIsPrefix ==
  ASSUME TypeOK, NEW len \in 0 .. ReadAbleSize
  PROVE  Bytes(len) = SubSeq(Bytes(ReadAbleSize), 1, len)
  <1> DEFINE q == Bytes(ReadAbleSize)
  <1>1. ReadAbleSize \in Nat /\ len \in Nat
    BY DEF TypeOK, ReadAbleSize
  <1>2. q \in Seq(Byte) /\ Len(q) = ReadAbleSize
    BY <1>1, BytesType
  <1>3. SubSeq(q, 1, len) = [i \in 1 .. len |-> q[i]]
    BY <1>1, <1>2
  <1>4. \A i \in 1 .. len : q[i] = mem[reader + i - 1]
    BY <1>1 DEF Bytes
  <1> QED
    BY <1>3, <1>4 DEF Bytes

(* Two sequences together, as a function. *)
LEMMA ConcatFcn ==
  ASSUME NEW S, NEW s \in Seq(S), NEW t \in Seq(S)
  PROVE  s \o t = [i \in 1 .. Len(s) + Len(t) |->
                     IF i <= Len(s) THEN s[i] ELSE t[i - Len(s)]]
  <1> DEFINE f == [i \in 1 .. Len(s) + Len(t) |->
                    IF i <= Len(s) THEN s[i] ELSE t[i - Len(s)]]
  <1>1. f \in [1 .. Len(s) + Len(t) -> S]
    OBVIOUS
  <1>2. f \in Seq(S) /\ Len(f) = Len(s) + Len(t)
    <2> HIDE DEF f
    <2>1. Len(s) + Len(t) \in Nat
      OBVIOUS
    <2> QED
      BY <1>1, <2>1
  <1>3. \A i \in 1 .. Len(s) + Len(t) : (s \o t)[i] = f[i]
    OBVIOUS
  <1>4. s \o t \in Seq(S) /\ Len(s \o t) = Len(s) + Len(t)
    OBVIOUS
  <1> HIDE DEF f
  <1>5. s \o t = f
    BY <1>2, <1>3, <1>4, SeqEqual
  <1> QED
    BY <1>5 DEF f

(* A write appends. *)
LEMMA WriteAppends ==
  ASSUME IInv, NEW data \in Data, WriteAndPush(data)
  PROVE  Queue!Push(data)
  <1> DEFINE q == Bytes(ReadAbleSize)
             len == Len(data)
  <1> USE DEF IInv
  <1>1. len \in Nat /\ data \in [1 .. len -> Byte] /\ data \in Seq(Byte)
    BY DataType
  <1>2. /\ ReaderFor(len) \in Nat /\ WriterFor(len) \in Nat /\ SizeFor(len) \in Nat
        /\ WriterFor(len) = ReaderFor(len) + ReadAbleSize
        /\ WriterFor(len) + len <= SizeFor(len)
        /\ ReadAbleSize \in Nat
    <2> HIDE DEF len
    <2>1. ReadAbleSize \in Nat
      BY DEF TypeOK, ReadAbleSize
    <2> QED
      BY <1>1, <2>1, WriteSpace
  <1>3. q \in Seq(Byte) /\ Len(q) = ReadAbleSize
    BY <1>2, BytesType
  <1>4. ReadAbleSize' = ReadAbleSize + len
    BY <1>1, <1>2 DEF WriteAndPush, ReadAbleSize
  <1>5. q' = [i \in 1 .. ReadAbleSize + len |-> mem'[ReaderFor(len) + i - 1]]
    BY <1>4 DEF Bytes, WriteAndPush
  <1>6. q \o data = [i \in 1 .. ReadAbleSize + len |->
                      IF i <= ReadAbleSize THEN q[i] ELSE data[i - ReadAbleSize]]
    <2>1. q \o data = [i \in 1 .. Len(q) + Len(data) |->
                         IF i <= Len(q) THEN q[i] ELSE data[i - Len(q)]]
      BY <1>1, <1>3, ConcatFcn
    <2> QED
      BY <1>3, <2>1
  <1>7. ASSUME NEW i \in 1 .. ReadAbleSize + len
        PROVE  mem'[ReaderFor(len) + i - 1]
                 = IF i <= ReadAbleSize THEN q[i] ELSE data[i - ReadAbleSize]
    <2> DEFINE k == ReaderFor(len) + i - 1
    <2>1. k \in 0 .. SizeFor(len) - 1
      BY <1>1, <1>2
    <2>2. mem'[k] = IF WriterFor(len) <= k /\ k < WriterFor(len) + len
                    THEN data[k - WriterFor(len) + 1] ELSE ByteAfter(len, k)
      BY <2>1 DEF WriteAndPush
    <2>3. CASE i <= ReadAbleSize
      <3>1. k < WriterFor(len) /\ i \in 1 .. ReadAbleSize
        BY <1>1, <1>2, <2>3
      <3>2. mem'[k] = ByteAfter(len, k)
        BY <3>1, <2>2, <1>2, <2>1
      <3>3. ByteAfter(len, k) = mem[reader + i - 1]
        BY <3>1, <1>1, WriteKeeps
      <3>4. q[i] = mem[reader + i - 1]
        BY <3>1 DEF Bytes
      <3> QED
        BY <2>3, <3>2, <3>3, <3>4
    <2>4. CASE i > ReadAbleSize
      <3>1. WriterFor(len) <= k /\ k < WriterFor(len) + len
        BY <1>1, <1>2, <2>4
      <3>2. k - WriterFor(len) + 1 = i - ReadAbleSize
        BY <1>1, <1>2
      <3> QED
        BY <3>1, <3>2, <2>2, <2>4, <1>2
    <2> QED
      BY <2>3, <2>4, <1>2
  <1>8. q' = q \o data
    BY <1>5, <1>6, <1>7
  <1> QED
    BY <1>8 DEF Queue!Push, WriteAndPush

(* The buffer's first newline is the queue's. *)
LEMMA LineIsLine ==
  ASSUME TypeOK, NEW k \in reader .. writer - 1, FindCRLF(k)
  PROVE  Queue!EndsLine(k - reader + 1)
  <1>1. ASSUME NEW i \in 1 .. k - reader + 1
        PROVE  Bytes(ReadAbleSize)[i] = mem[reader + i - 1]
    <2>1. i \in 1 .. ReadAbleSize
      BY DEF TypeOK, ReadAbleSize
    <2> QED
      BY <2>1 DEF Bytes
  <1>2. Bytes(ReadAbleSize)[k - reader + 1] = NewLine
    <2>1. k - reader + 1 \in 1 .. k - reader + 1 /\ reader + (k - reader + 1) - 1 = k
      BY DEF TypeOK
    <2> QED
      BY <1>1, <2>1 DEF FindCRLF
  <1>3. ASSUME NEW i \in 1 .. (k - reader + 1) - 1
        PROVE  Bytes(ReadAbleSize)[i] # NewLine
    <2>1. i \in 1 .. k - reader + 1 /\ reader + i - 1 \in reader .. k - 1
      BY DEF TypeOK
    <2> QED
      BY <1>1, <2>1 DEF FindCRLF
  <1> QED
    BY <1>2, <1>3 DEF Queue!EndsLine

Less == {p \in Nat \X Nat : p[1] < p[2]}

(* There is no endless descent in the natural numbers. *)
LEMMA LessIsWellFounded == IsWellFoundedOn(Less, Nat)
  <1>1. OpToRel(<, Nat) = Less
    BY Zenon DEF OpToRel, Less
  <1> QED
    BY <1>1, NatLessThanWellFounded

(* Without a first newline there is none: the least offset that holds one  *)
(* would be the first.                                                     *)
LEMMA NoNewLine ==
  ASSUME TypeOK, \A k \in reader .. writer - 1 : ~FindCRLF(k)
  PROVE  \A k \in reader .. writer - 1 : mem[k] # NewLine
  <1> DEFINE S == {k \in reader .. writer - 1 : mem[k] = NewLine}
  <1>1. SUFFICES ASSUME S # {} PROVE FALSE
    OBVIOUS
  <1>2. S \subseteq Nat
    BY DEF TypeOK
  <1>3. PICK k \in S : \A j \in S : k <= j
    <2>1. PICK k \in S : \A j \in S : <<j, k>> \notin Less
      <3> HIDE DEF S
      <3> QED
        BY <1>1, <1>2, LessIsWellFounded, WFMin
    <2>2. \A j \in S : j \in Nat /\ k \in Nat /\ ~(j < k)
      BY <1>2, <2>1 DEF Less
    <2> QED
      BY <2>1, <2>2
  <1>4. \A j \in reader .. k - 1 : j \in reader .. writer - 1 /\ j \notin S
    BY <1>2, <1>3 DEF TypeOK
  <1>5. FindCRLF(k)
    BY <1>3, <1>4 DEF FindCRLF
  <1> QED
    BY <1>3, <1>5

(* Every operation of the Buffer is one of the queue. *)
LEMMA StepRefines ==
  ASSUME IInv, [Next]_vars
  PROVE  [Queue!Next]_(Queue!vars)
  <1> DEFINE q == Bytes(ReadAbleSize)
  <1> USE DEF IInv
  <1>0. TypeOK'
    BY StepHolds
  <1>1. ReadAbleSize \in Nat /\ q \in Seq(Byte) /\ Len(q) = ReadAbleSize
    <2>1. ReadAbleSize \in Nat
      BY DEF TypeOK, ReadAbleSize
    <2> QED
      BY <2>1, BytesType
  <1>2. CASE \E data \in Data : WriteAndPush(data)
    BY <1>2, WriteAppends DEF Queue!Next
  <1>3. ASSUME NEW len \in 0 .. ReadAbleSize, MoveReadOffset(len)
        PROVE  Queue!Next
    <2>1. Queue!Skip(len)
      BY <1>3, <1>0, RestIsSuffix DEF MoveReadOffset, Queue!Skip
    <2> QED
      BY <1>1, <2>1 DEF Queue!Next
  <1>4. ASSUME NEW len \in 0 .. ReadAbleSize, ReadAsString(len)
        PROVE  Queue!Next
    <2>1. q' = q
      BY <1>4 DEF ReadAsString, Bytes, ReadAbleSize
    <2>2. Queue!Peek(len)
      BY <1>4, <2>1, ReadIsPrefix DEF ReadAsString, Queue!Peek
    <2> QED
      BY <1>1, <2>2 DEF Queue!Next
  <1>5. ASSUME NEW len \in 0 .. ReadAbleSize, ReadAsStringAndPop(len)
        PROVE  Queue!Pop(len)
    BY <1>5, <1>0, RestIsSuffix, ReadIsPrefix DEF ReadAsStringAndPop, Queue!Pop
  <1>6. ASSUME NEW k \in reader .. writer - 1, FindCRLF(k),
               ReadAsStringAndPop(k - reader + 1)
        PROVE  Queue!PopLine
    <2>1. k - reader + 1 \in 1 .. ReadAbleSize /\ k - reader + 1 \in 0 .. ReadAbleSize
      BY DEF TypeOK, ReadAbleSize
    <2>2. Queue!Pop(k - reader + 1)
      BY <1>5, <1>6, <2>1
    <2>3. Queue!EndsLine(k - reader + 1)
      BY <1>6, LineIsLine
    <2> QED
      BY <1>1, <2>1, <2>2, <2>3 DEF Queue!PopLine
  <1>7. ASSUME \A k \in reader .. writer - 1 : ~FindCRLF(k),
               got' = <<>>, UNCHANGED <<mem, size, reader, writer, peak>>
        PROVE  Queue!PopLine
    <2>1. q' = q
      BY <1>7 DEF Bytes, ReadAbleSize
    <2>2. \A k \in reader .. writer - 1 : mem[k] # NewLine
      BY <1>7, NoNewLine
    <2>3. \A i \in 1 .. ReadAbleSize :
            q[i] = mem[reader + i - 1] /\ reader + i - 1 \in reader .. writer - 1
      BY DEF TypeOK, Bytes, ReadAbleSize
    <2> QED
      BY <1>1, <1>7, <2>1, <2>2, <2>3 DEF Queue!PopLine
  <1>8. CASE Clear
    <2>1. q' = <<>>
      BY <1>8 DEF Clear, Bytes, ReadAbleSize
    <2> QED
      BY <1>8, <2>1 DEF Clear, Queue!Clear, Queue!Next
  <1>9. CASE UNCHANGED vars
    BY <1>9 DEF vars, Queue!vars, Bytes, ReadAbleSize
  <1> QED
    BY <1>2, <1>3, <1>4, <1>5, <1>6, <1>7, <1>8, <1>9, <1>1
    DEF Next, GetLineAndPop, Queue!Next

(* A Buffer implements the ByteQueue: the queue is the bytes between its   *)
(* offsets.                                                                *)
THEOREM BufferRefinesQueue == Spec => BufferIsQueue
  <1>1. Init => Queue!Init
    BY DEF Init, Queue!Init, Bytes, ReadAbleSize
  <1>2. IInv /\ [Next]_vars => [Queue!Next]_(Queue!vars)
    BY StepRefines
  <1> QED
    BY <1>1, <1>2, InitHolds, StepHolds, PTL
    DEF Spec, BufferIsQueue, Queue!Spec
=============================================================================
