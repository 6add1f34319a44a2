------------------------------- MODULE MCTask -------------------------------
(* Model checking the life cycle of javafx.concurrent.Task. *)
EXTENDS Task
=============================================================================
