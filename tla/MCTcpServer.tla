---------------------------- MODULE MCTcpServer ----------------------------
(* TcpServer with a few connections, descriptors and loops. *)
EXTENDS TcpServer

Symmetry == Permutations(Conn) \cup Permutations(Fd)
=============================================================================
