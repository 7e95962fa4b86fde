---------------------------- MODULE MCEventLoop ----------------------------
(* EventLoop with a few threads, tasks and descriptors. *)
EXTENDS EventLoop
=============================================================================
