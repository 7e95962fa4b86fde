----------------------------- MODULE ByteQueue -----------------------------
(***************************************************************************)
(* What a Buffer promises to its Connection: it is a FIFO queue of bytes,  *)
(* of any length, from which a prefix or the first line can be taken.      *)
(***************************************************************************)
EXTENDS Naturals, Sequences

CONSTANTS Data,    \* the strings that are written
          NewLine  \* the byte that ends a line

VARIABLES queue, \* the bytes written and not yet read, oldest first
          got    \* what the last operation returned

vars == <<queue, got>>

Init == queue = <<>> /\ got = <<>>

Push(data) == queue' = queue \o data /\ got' = <<>>

Drop(len) == queue' = SubSeq(queue, len + 1, Len(queue))

Skip(len) == Drop(len) /\ got' = <<>>

Peek(len) == got' = SubSeq(queue, 1, len) /\ UNCHANGED queue

Pop(len) == Drop(len) /\ got' = SubSeq(queue, 1, len)

EndsLine(len) ==
  /\ queue[len] = NewLine
  /\ \A i \in 1 .. len - 1 : queue[i] # NewLine

(* The first line with its newline; nothing, if there is no whole line. *)
PopLine ==
  \/ \E len \in 1 .. Len(queue) : EndsLine(len) /\ Pop(len)
  \/ /\ \A i \in 1 .. Len(queue) : queue[i] # NewLine
     /\ got' = <<>> /\ UNCHANGED queue

Clear == queue' = <<>> /\ got' = <<>>

Next ==
  \/ \E data \in Data : Push(data)
  \/ \E len \in 0 .. Len(queue) : Skip(len) \/ Peek(len) \/ Pop(len)
  \/ PopLine
  \/ Clear

Spec == Init /\ [][Next]_vars
=============================================================================
