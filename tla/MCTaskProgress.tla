--------------------------- MODULE MCTaskProgress ---------------------------
(* Model checking Task.updateProgress. *)
EXTENDS TaskProgress

SomeAmounts == {-2, 0, 1, 3}
=============================================================================
