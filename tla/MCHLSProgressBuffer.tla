------------------------- MODULE MCHLSProgressBuffer ------------------------
(* Model checking the buffer of an HTTP live stream. *)
EXTENDS HLSProgressBuffer
=============================================================================
