-------------------------- MODULE MCSocketSession --------------------------
(* Instances of SocketSession for TLC: two registers with a callback, one  *)
(* of which is added twice, one without, and one that the responder's file *)
(* does not have.                                                          *)
EXTENDS SocketSession

MCHandled == <<0, 0, 1>>
=============================================================================
