-------------------------- MODULE MCLoopThreadPool --------------------------
(* LoopThreadPool with the values that its .cfg file gives to its constants:  *)
(* every pool from no thread to four, a few rounds of NextLoop.            *)
EXTENDS LoopThreadPool

=============================================================================
