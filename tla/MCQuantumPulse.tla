--------------------------- MODULE MCQuantumPulse ---------------------------
(* Model checking the pulse and the hand-over to the render thread. *)
EXTENDS QuantumPulse
=============================================================================
