---------------------------- MODULE MCRingBuffer ----------------------------
(* An instance of RingBuffer for TLC.                                      *)
EXTENDS RingBuffer

CONSTANTS v1, v2

MCValue == {v1, v2}
=============================================================================
