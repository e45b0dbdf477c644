---------------------------- MODULE MCProtoEvent ----------------------------
EXTENDS ProtoEvent
=============================================================================
