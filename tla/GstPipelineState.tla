-------------------------- MODULE GstPipelineState --------------------------
(***************************************************************************)
(* The state of the top-level GStreamer element, as far as the player      *)
(* depends on it: gst_element_set_state, and the two ways in which a bin   *)
(* loses and regains its state (bin_handle_async_start on a flushing seek, *)
(* bin_handle_async_done when all sinks are prerolled).                    *)
(*                                                                         *)
(* Each operator yields results: the new state of the element with the     *)
(* STATE_CHANGED messages posted.  Only messages without a pending state   *)
(* are kept, since the player ignores the others.                          *)
(***************************************************************************)
EXTENDS Naturals, Sequences

Void   == "VOID"
States == {"NULL", "READY", "PAUSED", "PLAYING"}
Rank   == [s \in States |-> CASE s = "NULL" -> 0 [] s = "READY" -> 1
                              [] s = "PAUSED" -> 2 [] s = "PLAYING" -> 3]

\* cont: the thread of gst_bin_continue_func is on its way
Elements == [state : States, next : States \cup {Void}, pending : States \cup {Void},
             target : States, ret : {"ok", "async", "fail"}, cont : BOOLEAN]

Result(e, posts) == [gst |-> e, posts |-> posts]
Changed(old, new) == [kind |-> "state", old |-> old, new |-> new]

At(e, s)      == [e EXCEPT !.state = s, !.next = Void, !.pending = Void, !.ret = "ok", !.cont = FALSE]
Towards(e, s) == [e EXCEPT !.next = s, !.ret = "async", !.cont = FALSE]
Halted(e)     == At([e EXCEPT !.target = "NULL"], "NULL")

\* A new target while a change is under way: the change goes on to it.  A
\* different target outdates the thread that was to continue (state_cookie).
Aim(e, s) == [e EXCEPT !.target = s, !.pending = s, !.cont = @ /\ e.target = s]

WasBusy(e, s) == e.pending # Void /\ (Rank[e.pending] <= Rank[s] \/ e.next = s)

\* gst_element_set_state to PAUSED or PLAYING.  Sinks that play may have lost
\* their preroll buffer: going down to PAUSED is then asynchronous.
SetState(e, s, mayFail) ==
  LET base  == IF e.pending # Void /\ Rank[e.next] > Rank[s] THEN e.next ELSE e.state
      aimed == Aim(e, s)
  IN  IF WasBusy(e, s) THEN {Result([aimed EXCEPT !.ret = "async"], <<>>)}
      ELSE (IF mayFail THEN {Result([At(aimed, e.state) EXCEPT !.ret = "fail"], <<>>)} ELSE {})
           \cup (CASE Rank[base] < Rank["PAUSED"] ->
                        {Result(Towards([aimed EXCEPT !.state = "READY"], "PAUSED"), <<>>)}
                   [] base = s -> {Result(At(aimed, s), <<>>)}
                   [] base = "PAUSED" /\ s = "PLAYING" ->
                        {Result(At(aimed, s), <<Changed("PAUSED", "PLAYING")>>)}
                   [] base = "PLAYING" /\ s = "PAUSED" ->
                        {Result(At(aimed, s), <<Changed(e.state, "PAUSED")>>),
                         Result(Towards(aimed, "PAUSED"), <<>>)})

\* A flushing seek: the sinks lose their preroll, the pipeline its state.
LoseState(e) ==
  IF e.ret = "fail" THEN e
  ELSE IF e.pending # Void THEN [e EXCEPT !.cont = FALSE]
  ELSE LET s == IF e.state = "PLAYING" THEN "PAUSED" ELSE e.state
       IN  Towards([e EXCEPT !.state = s, !.pending = s], s)

\* All sinks are prerolled: commit, and be done or have a thread continue.
AsyncDone(e) ==
  LET s == IF e.next = "PLAYING" THEN e.state ELSE e.next
      m == IF e.next = "PLAYING" THEN <<>> ELSE <<Changed(e.state, e.next)>>
  IN  IF e.target = s THEN Result(At(e, s), m)
      ELSE Result([e EXCEPT !.state = s, !.next = "PLAYING", !.pending = e.target, !.cont = TRUE], <<>>)

\* gst_bin_continue_func, always from PAUSED to PLAYING here
Continue(e) == Result(At(e, "PLAYING"), <<Changed("PAUSED", "PLAYING")>>)
=============================================================================
