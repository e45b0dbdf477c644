--------------------------- MODULE MCEventHandler ---------------------------
(* The event handler with two application threads.                         *)
EXTENDS EventHandler
=============================================================================
