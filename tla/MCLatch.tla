------------------------------ MODULE MCLatch ------------------------------
(* OS::Latch on a small set of threads.                                    *)
EXTENDS Latch

=============================================================================
