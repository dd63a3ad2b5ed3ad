----------------------------- MODULE MCStreams -----------------------------
(* Instances of Streams for TLC; the constants are given in the cfg files. *)
EXTENDS Streams
============================================================================
