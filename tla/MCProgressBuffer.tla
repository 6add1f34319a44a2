-------------------------- MODULE MCProgressBuffer --------------------------
(* Model checking the progress buffer and its source. *)
EXTENDS JavaSource
=============================================================================
