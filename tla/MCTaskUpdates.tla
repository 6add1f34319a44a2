---------------------------- MODULE MCTaskUpdates ----------------------------
(* Model checking the update channel of javafx.concurrent.Task. *)
EXTENDS TaskUpdates
=============================================================================
