------------------------------ MODULE MCService ------------------------------
(* Model checking javafx.concurrent.Service. *)
EXTENDS Service
=============================================================================
