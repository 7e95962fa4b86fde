--------------------------- MODULE ConnectionLife ---------------------------
(***************************************************************************)
(* What TcpServer promises of each connection (source/server.hpp), as long *)
(* as no thread of the user calls Shutdown: it goes through the values of  *)
(* ConnStatu in order, none of them twice, and it is destroyed after it is *)
(* closed and never before, whoever refers to it.                          *)
(***************************************************************************)
VARIABLE stage  \* how far the connection is in its life

(* The stages that may follow each.  One that nobody else refers to is     *)
(* destroyed as it is closed.                                              *)
Following ==
  [none       |-> {"connecting"},
   connecting |-> {"connected", "closed", "gone"},
   connected  |-> {"closing", "closed", "gone"},
   closing    |-> {"closed", "gone"},
   closed     |-> {"gone"},
   gone       |-> {}]

Init == stage = "none"

Next == stage' \in Following[stage]

Spec == Init /\ [][Next]_stage
=============================================================================
