-------------------------- MODULE MCProtoPlayback --------------------------
(* A small file, blocks of up to two bytes.                                *)
EXTENDS ProtoPlayback
=============================================================================
