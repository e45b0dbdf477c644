--------------------------- MODULE MCProtoMonitor ---------------------------
(* A connection shared by two threads.                                     *)
EXTENDS ProtoMonitor, TLC

Symmetry == Permutations(Threads)

=============================================================================
