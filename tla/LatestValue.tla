----------------------------- MODULE LatestValue -----------------------------
(***************************************************************************)
(* What the update methods of javafx.concurrent.Task promise: calls are    *)
(* numbered in the order in which they take effect, the property shows the *)
(* argument of one of them, never goes back to an older one, may skip      *)
(* intermediate ones, and in the end shows the last.                       *)
(***************************************************************************)
EXTENDS Naturals

VARIABLES calls,    \* number of update calls made so far
          shown     \* the call whose argument the property shows, 0: none yet

vars == <<calls, shown>>

Init == calls = 0 /\ shown = 0

Call == calls' = calls + 1 /\ UNCHANGED shown

(* The property moves forward to a call already made. *)
Show == /\ shown' \in (shown + 1) .. calls
        /\ UNCHANGED calls

(* A call that takes effect at once. *)
CallAndShow == calls' = calls + 1 /\ shown' = calls'

Next == Call \/ Show \/ CallAndShow

Spec == Init /\ [][Next]_vars

(* Shown values catch up as long as there is something newer to show. *)
FairSpec == Spec /\ WF_vars(Show)
=============================================================================
