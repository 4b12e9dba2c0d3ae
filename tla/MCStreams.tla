----------------------------- MODULE MCStreams -----------------------------
(* Two windows of one session, and a cell of two AGVs. *)
EXTENDS Streams
=============================================================================
