-------------------------- MODULE PlaybackPipeline --------------------------
(***************************************************************************)
(* The player of the GStreamer media engine (GstAudioPlaybackPipeline.cpp) *)
(* with a progress buffer: the state it shows to the application, which it *)
(* derives from the messages of the pipeline, and its disposal.            *)
(*                                                                         *)
(* Three threads call into it.  "java" is the application's thread,        *)
(* serialized by disposeLock of MediaPlayer, and waits for Ready before it *)
(* calls.  "pulse" is the timer that calls Finish at the stop time,        *)
(* excluded only by dispose.  "bus" is the main loop, which dispatches     *)
(* the messages of the pipeline one by one to BusCallback.  A step is one  *)
(* section under m_StateLock or one call into GStreamer; m_DisposeLock is  *)
(* held across the steps of BusCallback.                                   *)
(*                                                                         *)
(* Left out: HLS mode, events other than the player state, m_bIgnoreError  *)
(* (it only selects an event), stream positions, queue sizes and the       *)
(* clock.                                                                  *)
(***************************************************************************)
EXTENDS GstPipelineState, SequencesExt

CONSTANTS Calls,         \* what the application may call
          MaxCalls,      \* bound: calls of the application before it disposes
          MaxProgress,   \* bound: messages about the download, the last with eos
          MaxTroubles    \* bound: underruns, calls of Finish, errors of elements,
                         \* failed state changes and failed seeks

ASSUME PlayerAssumption ==
  /\ Calls \subseteq {"Play", "Pause", "Stop", "Seek", "RateZero", "RateOne"}
  /\ {MaxCalls, MaxProgress, MaxTroubles} \subseteq Nat

VARIABLES
  gst, queue,     \* the pipeline and its bus
  ended,          \* the stream has ended and no seek has flushed it since
  m,              \* the members of the player
  pc, ret,        \* where each thread is, and where a nested call returns to
  msg,            \* the message BusCallback handles
  content,        \* sBusCallbackContent, and how often it was freed
  attached,       \* the bus source is not destroyed
  refs, seen,     \* ref_count of its callback data, and what a thread has read of it
  deleted,        \* the player object is deleted
  bound,          \* what is left of the bounds
  upset,          \* history: a state change failed, what it was decided on no longer held,
                  \* or a pending state was settled by the wrong message
  overlapped      \* history: two threads have decremented refs at the same time

playerVars  == <<gst, queue, ended, m, ret, msg, bound, upset>>
refVars     == <<refs, seen, overlapped>>
disposeVars == <<content, attached, deleted, refVars>>
vars        == <<playerVars, pc, disposeVars>>

Threads      == {"java", "pulse", "bus"}
PlayerStates == {"Unknown", "Ready", "Playing", "Paused", "Stopped", "Stalled", "Finished", "Error"}
Messages     == [kind : {"state"}, old : States, new : States]
                \cup [kind : {"eos", "error", "underrun"}]
                \cup [kind : {"buffering"}, eos : BOOLEAN, enough : BOOLEAN]
NoMessage    == [kind |-> "none"]

Init ==
  /\ gst = [state |-> "READY", next |-> "PAUSED", pending |-> "PAUSED", target |-> "PAUSED",
            ret |-> "async", cont |-> FALSE]
  /\ queue = <<>> /\ ended = FALSE
  /\ m = [state |-> "Unknown", pending |-> "Unknown", stallOnPause |-> FALSE, seekInvoked |-> FALSE,
          rate |-> 1, resumeOnNonzero |-> FALSE, eos |-> FALSE, buffered |-> FALSE]
  /\ pc = [t \in Threads |-> "idle"] /\ ret = [t \in Threads |-> "idle"] /\ msg = NoMessage
  /\ content = [inProgress |-> FALSE, disposed |-> FALSE, freeMe |-> FALSE, freed |-> 0]
  /\ attached = TRUE /\ deleted = FALSE
  /\ refs = 1 /\ seen = [t \in {"java", "bus"} |-> 0] /\ overlapped = FALSE
  /\ upset = FALSE
  /\ bound = [calls |-> MaxCalls, progress |-> MaxProgress, troubles |-> MaxTroubles]

\* m_DisposeLock is held by BusCallback and by the second half of Dispose
Unreffing   == {"Unref", "UnrefWrite", "UnrefTest"}
Disposing   == {"DisposeNull", "DisposeLock", "DisposeDestroy", "DisposeEnd", "DisposeFree", "Delete", "Gone"}
               \cup Unreffing
BusHolds    == pc["bus"] \in {"OnState", "UpdateBufferPosition", "Update", "OnEos", "OnError", "Error", "OnBuffering", "OnUnderrun",
                              "Stall", "Play", "PlaySet", "InternalPause", "PauseSet"}
DisposeHolds == pc["java"] \in {"DisposeDestroy", "DisposeEnd"} \cup Unreffing

Goto(t, l)     == pc' = [pc EXCEPT ![t] = l]
Call(t, l, r)  == Goto(t, l) /\ ret' = [ret EXCEPT ![t] = r]
Return(t)      == Goto(t, ret[t]) /\ ret' = [ret EXCEPT ![t] = "idle"]
Unchanged      == UNCHANGED <<msg, disposeVars>>
NoGst          == UNCHANGED <<gst, queue, ended, upset, bound>>
Trouble        == bound.troubles > 0 /\ bound' = [bound EXCEPT !.troubles = @ - 1]

\* the bus drops what is posted while the pipeline is in NULL
Happens(r) == /\ gst' = r.gst
              /\ queue' = IF r.gst.state = "NULL" THEN <<>> ELSE queue \o r.posts
              /\ ended' = (ended /\ r.gst.state = "PLAYING")
Post(x)    == gst.state # "NULL" /\ queue' = Append(queue, x)

Failed(r) == r.gst.ret = "fail"

\* set_state, decided on what holds or no longer holds now
Change(r, holds) ==
  /\ Happens(r)
  /\ upset' = (upset \/ Failed(r) \/ ~holds \/ gst.state = "NULL")
  /\ IF Failed(r) THEN Trouble ELSE UNCHANGED bound
-----------------------------------------------------------------------------
\* Play: the test under m_StateLock, then the state change.
PlayReady == \/ m.state \notin {"Finished", "Error", "Playing"}
             \/ m.state = "Playing" /\ gst.ret # "fail" /\ "PAUSED" \in {gst.state, gst.pending}

PlayTest(t) ==
  /\ pc[t] = "Play"
  /\ IF PlayReady THEN Goto(t, "PlaySet") /\ UNCHANGED ret ELSE Return(t)
  /\ NoGst /\ UNCHANGED m /\ Unchanged

\* the body of Play once it is ready, given its result
DoPlay(p, holds) ==
  IF p.rate = 0 THEN /\ m' = [p EXCEPT !.resumeOnNonzero = TRUE]
                     /\ upset' = (upset \/ ~holds) /\ UNCHANGED <<gst, queue, ended, bound>>
  ELSE m' = p /\ \E r \in SetState(gst, "PLAYING", bound.troubles > 0) : Change(r, holds)

PlaySet(t) ==
  /\ pc[t] = "PlaySet"
  /\ DoPlay(m, t = "bus" => m.state = "Stalled" /\ m.pending = "Unknown")
  /\ Return(t) /\ Unchanged

\* InternalPause, and what Stop and Pause do if it fails
PauseTest(t) ==
  /\ pc[t] = "InternalPause"
  /\ m' = [m EXCEPT !.seekInvoked = FALSE]
  /\ IF (m.state # "Finished" \/ m.seekInvoked \/ m.pending = "Stopped") /\ m.state # "Error"
       THEN Goto(t, "PauseSet") /\ UNCHANGED ret
       ELSE Return(t)
  /\ NoGst /\ Unchanged

PauseSet(t) ==
  /\ pc[t] = "PauseSet"
  /\ \/ /\ m.rate = 0
        /\ m' = [m EXCEPT !.resumeOnNonzero = FALSE]
        /\ NoGst /\ Return(t)
     \/ /\ m.rate # 0
        /\ \E r \in SetState(gst, "PAUSED", bound.troubles > 0) :
             /\ Change(r, t = "pulse" => gst.state = "PLAYING")
             /\ IF Failed(r) /\ t = "java" THEN Goto(t, "Unpend") /\ UNCHANGED ret ELSE Return(t)
        /\ UNCHANGED m
  /\ Unchanged

\* the failed call returns its error, which ends stop() and setRate(0) of Java too
Unpend ==
  /\ pc["java"] = "Unpend"
  /\ m' = [m EXCEPT !.pending = "Unknown"]
  /\ Call("java", "idle", "idle") /\ NoGst /\ Unchanged
-----------------------------------------------------------------------------
\* Pause: the unlocked early return, then the locked decision
PauseCall ==
  /\ pc["java"] = "Pause"
  /\ IF m.state \in {"Paused", "Error"} THEN Return("java") ELSE Goto("java", "PauseLock") /\ UNCHANGED ret
  /\ NoGst /\ UNCHANGED m /\ Unchanged

\* Mutant: a player that is ready is paused at once as well
PauseLockReady ==
  /\ pc["java"] = "PauseLock"
  /\ IF m.state \in {"Ready", "Stopped", "Stalled"}
       THEN m' = [m EXCEPT !.state = "Paused"] /\ Return("java")
       ELSE m' = [m EXCEPT !.pending = "Paused"] /\ Goto("java", "InternalPause") /\ UNCHANGED ret
  /\ NoGst /\ Unchanged

PauseLock ==
  /\ pc["java"] = "PauseLock"
  /\ IF m.state \in {"Stopped", "Stalled"}
       THEN m' = [m EXCEPT !.state = "Paused"] /\ Return("java")
       ELSE m' = [m EXCEPT !.pending = "Paused"] /\ Goto("java", "InternalPause") /\ UNCHANGED ret
  /\ NoGst /\ Unchanged

\* Stop, which Java always follows by a seek to the start
StopCall ==
  /\ pc["java"] = "Stop"
  /\ \/ m.state \in {"Stopped", "Error"} /\ Goto("java", "Seek") /\ UNCHANGED <<m, ret>>
     \/ /\ m.state \notin {"Stopped", "Error"}
        /\ IF m.rate = 0
             THEN m' = [m EXCEPT !.resumeOnNonzero = FALSE] /\ Goto("java", "Seek") /\ UNCHANGED ret
             ELSE Goto("java", "StopLock") /\ UNCHANGED <<m, ret>>
  /\ NoGst /\ Unchanged

StopLock ==
  /\ pc["java"] = "StopLock"
  /\ m' = [m EXCEPT !.pending = "Stopped"]
  /\ Call("java", "InternalPause", "Seek")
  /\ NoGst /\ Unchanged

\* Finish, at the stop time
FinishCall ==
  /\ pc["pulse"] = "Finish"
  /\ IF m.state = "Playing" THEN Call("pulse", "InternalPause", "idle") ELSE Goto("pulse", "idle") /\ UNCHANGED ret
  /\ NoGst /\ UNCHANGED m /\ Unchanged

\* Seek: the locked test, the flushing seek, and the resumption from Finished
SeekCall ==
  /\ pc["java"] = "Seek"
  /\ m' = [m EXCEPT !.seekInvoked = @ \/ m.state = "Finished"]
  /\ Goto("java", IF m.state \in {"Unknown", "Error"} THEN "idle" ELSE "SeekFlush")
  /\ NoGst /\ UNCHANGED ret /\ Unchanged

SeekPipeline(next) ==
  \/ /\ Rank[gst.state] >= Rank["PAUSED"]
     /\ gst' = LoseState(gst) /\ ended' = FALSE
     /\ Goto("java", next) /\ UNCHANGED <<queue, upset, bound>>
  \/ /\ IF Rank[gst.state] < Rank["PAUSED"] THEN UNCHANGED bound ELSE Trouble
     /\ Goto("java", "idle") /\ UNCHANGED <<gst, queue, ended, upset>>

SeekFlush ==
  /\ pc["java"] = "SeekFlush"
  /\ SeekPipeline("SeekResume")
  /\ UNCHANGED <<m, ret>> /\ Unchanged

SeekResume ==
  /\ pc["java"] = "SeekResume"
  /\ Goto("java", IF m.state = "Finished" /\ m.pending # "Stopped" THEN "SeekSet" ELSE "idle")
  /\ NoGst /\ UNCHANGED <<m, ret>> /\ Unchanged

SeekSet ==
  /\ pc["java"] = "SeekSet"
  /\ \E r \in SetState(gst, "PLAYING", bound.troubles > 0) : Change(r, TRUE)
  /\ Goto("java", "idle") /\ UNCHANGED <<m, ret>> /\ Unchanged

\* SetRate(0): pause, and remember whether to resume
RateZeroCall ==
  /\ pc["java"] = "RateZero"
  /\ IF m.state = "Error" \/ m.rate = 0 THEN Goto("java", "idle") /\ UNCHANGED ret
     ELSE Call("java", "Pause", IF gst.state = "PLAYING" \/ m.state = "Stalled" THEN "RateZeroResume" ELSE "RateZeroStay")
  /\ NoGst /\ UNCHANGED m /\ Unchanged

RateZeroSet ==
  /\ pc["java"] \in {"RateZeroResume", "RateZeroStay"}
  /\ m' = [m EXCEPT !.rate = 0, !.resumeOnNonzero = pc["java"] = "RateZeroResume"]
  /\ Goto("java", "idle") /\ NoGst /\ UNCHANGED ret /\ Unchanged

\* SetRate to a rate that is not 0.  rateWasZero is computed from the new
\* rate, so that Play is never called.
RateOneCall ==
  /\ pc["java"] = "RateOne"
  /\ \/ /\ m.state = "Error" \/ m.rate = 1
        /\ Goto("java", "idle") /\ NoGst /\ UNCHANGED m
     \/ /\ m.state # "Error" /\ m.rate # 1
        /\ m' = [m EXCEPT !.rate = 1]
        /\ SeekPipeline("idle")
  /\ UNCHANGED ret /\ Unchanged
-----------------------------------------------------------------------------
\* The callers: the application once it was told Ready, and the timer.  Both
\* are excluded by dispose.
JavaCall(c) ==
  /\ pc["java"] = "idle" /\ m.state # "Unknown" /\ bound.calls > 0
  /\ bound' = [bound EXCEPT !.calls = @ - 1]
  /\ Call("java", c, "idle")
  /\ UNCHANGED <<gst, queue, ended, upset, m, msg, disposeVars>>

PulseCall ==
  /\ pc["pulse"] = "idle" /\ pc["java"] \notin Disposing
  /\ Trouble
  /\ Goto("pulse", "Finish")
  /\ UNCHANGED <<gst, queue, ended, upset, m, ret, msg, disposeVars>>
-----------------------------------------------------------------------------
\* GStreamer: prerolling ends, a continued change goes on, the stream ends,
\* an element fails, the progress buffer reports.
Preroll ==
  /\ gst.pending # Void /\ ~gst.cont
  /\ Happens(AsyncDone(gst))
  /\ UNCHANGED <<m, pc, ret, upset, bound>> /\ Unchanged

ContinueState ==
  /\ gst.cont
  /\ Happens(Continue(gst))
  /\ UNCHANGED <<m, pc, ret, upset, bound>> /\ Unchanged

StreamEnds ==
  /\ gst.state = "PLAYING" /\ gst.pending = Void /\ ~ended /\ bound.progress = 0
  /\ ended' = TRUE /\ Post([kind |-> "eos"])
  /\ UNCHANGED <<gst, m, pc, ret, upset, bound>> /\ Unchanged

StreamFails ==
  /\ Trouble
  /\ Post([kind |-> "error"])
  /\ UNCHANGED <<gst, ended, upset, m, pc, ret, msg, disposeVars>>

Download ==
  /\ bound.progress > 0
  /\ \E enough \in BOOLEAN :
       Post([kind |-> "buffering", eos |-> bound.progress = 1, enough |-> enough])
  /\ bound' = [bound EXCEPT !.progress = @ - 1]
  /\ UNCHANGED <<gst, ended, upset, m, pc, ret, msg, disposeVars>>

Underrun ==
  /\ bound.progress > 0 /\ Trouble
  /\ Post([kind |-> "underrun"])
  /\ UNCHANGED <<gst, ended, upset, m, pc, ret, msg, disposeVars>>
-----------------------------------------------------------------------------
\* The main loop dispatches the source, with a reference to the callback
\* data; the source takes a message and calls back.  (A dispatch that finds no
\* message any more does what one does whose message is ignored.)
Dispatch ==
  /\ pc["bus"] = "idle" /\ attached /\ queue # <<>>
  /\ msg' = Head(queue) /\ queue' = Tail(queue)
  /\ refs' = refs + 1
  /\ Goto("bus", "Enter")
  /\ UNCHANGED <<gst, ended, upset, m, ret, bound, content, attached, deleted, seen, overlapped>>

Handler == CASE msg.kind = "state" -> "OnState" [] msg.kind = "eos" -> "OnEos"
             [] msg.kind = "error" -> "OnError" [] msg.kind = "buffering" -> "OnBuffering"
             [] OTHER -> "OnUnderrun"

\* Mutant: without m_bIsDisposeInProgress
IgnoresDisposed == content.disposed

\* BusCallback: nothing is handled from the moment Dispose begins
Ignores == content.disposed \/ content.inProgress

BusCallback ==
  /\ pc["bus"] = "Enter" /\ ~DisposeHolds
  /\ Goto("bus", IF Ignores THEN "Unref" ELSE Handler)
  /\ UNCHANGED <<playerVars, disposeVars>>

\* Mutant: without the special cases for pause, stall and stop
CountsChanges == \/ m.state # "Unknown" /\ msg.new # msg.old
                 \/ m.state = "Unknown" /\ msg.new = "PAUSED" /\ msg.old \in {"READY", "PAUSED"}

\* STATE_CHANGED of the pipeline: which ones count
Counts == \/ m.state # "Unknown" /\ msg.new # msg.old
          \/ /\ m.pending \in {"Stopped", "Paused"} \/ m.stallOnPause
             /\ msg.new = "PAUSED" /\ msg.old = "PAUSED"
          \/ m.state = "Unknown" /\ msg.new = "PAUSED" /\ msg.old \in {"READY", "PAUSED"}

OnState ==
  /\ pc["bus"] = "OnState"
  /\ Goto("bus", CASE ~Counts -> "Unref"
                   [] Counts /\ msg.new = "PAUSED" /\ m.eos -> "UpdateBufferPosition"
                   [] OTHER -> "Update")
  /\ NoGst /\ UNCHANGED <<m, ret>> /\ Unchanged

\* UpdateBufferPosition: resume a stalled player when there is enough data or
\* no more will come.
Resumes(enough) == m.state = "Stalled" /\ (enough \/ m'.eos) /\ m.pending \notin {"Paused", "Stopped"}

UpdateBufferPosition ==
  /\ pc["bus"] = "UpdateBufferPosition"
  /\ m' = [m EXCEPT !.buffered = TRUE]
  /\ IF Resumes(FALSE) THEN Call("bus", "Play", "Update") ELSE Goto("bus", "Update") /\ UNCHANGED ret
  /\ NoGst /\ Unchanged

OnBuffering ==
  /\ pc["bus"] = "OnBuffering"
  /\ m' = [m EXCEPT !.eos = msg.eos, !.buffered = TRUE]
  /\ IF Resumes(msg.enough) THEN Call("bus", "Play", "Unref") ELSE Goto("bus", "Unref") /\ UNCHANGED ret
  /\ NoGst /\ Unchanged

\* UpdatePlayerState: what the player becomes when the pipeline has gone from
\* old to new.
Becomes(p, s)  == [p EXCEPT !.state = s]
Settles(p, s)  == [p EXCEPT !.state = s, !.pending = "Unknown"]
PausedPlaying(p, otherwise) ==
  CASE p.pending = "Stopped" -> [Settles(p, "Stopped") EXCEPT !.stallOnPause = FALSE]
    [] p.stallOnPause /\ p.pending \notin {"Stopped", "Paused"} -> [Becomes(p, "Stalled") EXCEPT !.stallOnPause = FALSE]
    [] p.pending = "Paused" -> [Settles(p, "Paused") EXCEPT !.stallOnPause = FALSE]
    [] OTHER -> Becomes(p, otherwise)

Updated(p, old, new) ==
  CASE p.state = "Unknown" /\ old \in {"READY", "PAUSED"} /\ new = "PAUSED" -> Becomes(p, "Ready")
    [] p.state = "Ready" /\ old = "PAUSED" /\ new = "PLAYING" -> Becomes(p, "Playing")
    [] p.state = "Playing" /\ old = "PLAYING" /\ new = "PAUSED" -> PausedPlaying(p, "Finished")
    [] p.state = "Playing" /\ old = "PAUSED" /\ new = "PAUSED" -> PausedPlaying(p, "Playing")
    [] p.state = "Paused" /\ old = "PAUSED" /\ p.pending = "Stopped" -> Settles(p, "Stopped")
    [] p.state = "Paused" /\ old = "PAUSED" /\ p.pending # "Stopped" /\ new = "PLAYING" -> Becomes(p, "Playing")
    [] p.state = "Stopped" /\ old = "PAUSED" /\ p.pending = "Paused" /\ new = "PAUSED" -> Settles(p, "Paused")
    [] p.state = "Stopped" /\ old = "PAUSED" /\ new = "PLAYING" -> Becomes(p, "Playing")
    [] p.state = "Stalled" /\ old = "PAUSED" /\ new = "PLAYING" -> Becomes(p, "Playing")
    [] p.state = "Stalled" /\ old = "PAUSED" /\ new = "PAUSED" /\ p.pending \in {"Stopped", "Paused"} ->
         Settles(p, p.pending)
    [] p.state = "Finished" /\ new = "PAUSED" /\ p.pending = "Stopped" ->
         [Settles(p, "Stopped") EXCEPT !.seekInvoked = FALSE]
    [] p.state = "Finished" /\ old = "PAUSED" /\ new = "PLAYING" ->
         [Becomes(p, "Playing") EXCEPT !.seekInvoked = FALSE]
    [] p.state = "Finished" /\ old = "PAUSED" /\ new = "PAUSED" /\ p.pending # "Stopped" ->
         [Becomes(p, "Paused") EXCEPT !.seekInvoked = FALSE]
    [] OTHER -> p

\* Mutant: it waits for data that will not come
WaitsForData(p) == FALSE

\* SetPlayerState: a player that stalls when no more data will come plays on
PlaysOn(p) == p.state = "Stalled" /\ m.state # "Stalled" /\ p.eos

\* What is pending is settled by the wrong message: one that says PLAYING, or
\* an older one, since the pause is not made yet or comes after a PLAYING.
Misread(p) ==
  /\ <<p.pending, p.stallOnPause>> # <<m.pending, m.stallOnPause>>
  /\ \/ msg.new = "PLAYING"
     \/ pc["java"] \in {"InternalPause", "PauseSet"}
     \/ gst.target = "PAUSED" /\ \E x \in Range(queue) : x.kind = "state" /\ x.new = "PLAYING"

UpdatePlayerState ==
  /\ pc["bus"] = "Update"
  /\ LET p == Updated(m, msg.old, msg.new)
     IN  IF PlaysOn(p) THEN DoPlay(p, ~Misread(p))
         ELSE m' = p /\ upset' = (upset \/ Misread(p)) /\ UNCHANGED <<gst, queue, ended, bound>>
  /\ Goto("bus", "Unref") /\ UNCHANGED ret /\ Unchanged

OnEos ==
  /\ pc["bus"] = "OnEos"
  /\ m' = [m EXCEPT !.state = "Finished"]
  /\ Goto("bus", "Unref") /\ NoGst /\ UNCHANGED ret /\ Unchanged

OnError ==
  /\ pc["bus"] = "OnError"
  /\ IF m.state # "Error" THEN Happens(Result(Halted(gst), <<>>)) /\ UNCHANGED <<upset, bound>> ELSE NoGst
  /\ Goto("bus", "Error") /\ UNCHANGED <<m, ret>> /\ Unchanged

SetError ==
  /\ pc["bus"] = "Error"
  /\ m' = [m EXCEPT !.state = "Error"]
  /\ Goto("bus", "Unref") /\ NoGst /\ UNCHANGED ret /\ Unchanged

\* BufferUnderrun
Suspends == /\ m.state \notin {"Stalled", "Ready", "Error", "Finished"}
            /\ m.buffered /\ gst.state = "PLAYING" /\ gst.pending # "PAUSED" /\ ~m.eos

OnUnderrun ==
  /\ pc["bus"] = "OnUnderrun"
  /\ Goto("bus", IF Suspends THEN "Stall" ELSE "Unref")
  /\ NoGst /\ UNCHANGED <<m, ret>> /\ Unchanged

\* Mutant: a stall as a pending state
StallPends ==
  /\ pc["bus"] = "Stall"
  /\ m' = [m EXCEPT !.pending = "Stalled"]
  /\ Call("bus", "InternalPause", "Unref")
  /\ NoGst /\ Unchanged

Stall ==
  /\ pc["bus"] = "Stall"
  /\ m' = [m EXCEPT !.stallOnPause = TRUE]
  /\ Call("bus", "InternalPause", "Unref")
  /\ NoGst /\ Unchanged
-----------------------------------------------------------------------------
\* Dispose, then the deletion of the player by ~CMedia
Dispose ==
  /\ pc["java"] = "idle" /\ pc["pulse"] = "idle" /\ ~BusHolds
  /\ content' = [content EXCEPT !.inProgress = TRUE]
  /\ Goto("java", "DisposeNull")
  /\ UNCHANGED <<playerVars, attached, deleted, refVars>>

DisposeNull ==
  /\ pc["java"] = "DisposeNull"
  /\ Happens(Result(Halted(gst), <<>>))
  /\ Goto("java", "DisposeLock")
  /\ UNCHANGED <<m, ret, upset, bound>> /\ Unchanged

DisposeLock ==
  /\ pc["java"] = "DisposeLock" /\ ~BusHolds
  /\ Goto("java", "DisposeDestroy")
  /\ UNCHANGED <<playerVars, disposeVars>>

\* Mutant: as if no dispatch could be under way
DestroyUnreferenced ==
  /\ pc["java"] = "DisposeDestroy"
  /\ attached' = FALSE
  /\ content' = [content EXCEPT !.freeMe = TRUE]
  /\ Goto("java", "DisposeEnd")
  /\ UNCHANGED <<playerVars, deleted, refVars>>

\* g_source_destroy, under the lock of the context; the reference to the
\* callback data is dropped after it.
DisposeDestroy ==
  /\ pc["java"] = "DisposeDestroy"
  /\ attached' = FALSE
  /\ Goto("java", "Unref")
  /\ UNCHANGED <<playerVars, content, deleted, refVars>>

DisposeEnd ==
  /\ pc["java"] = "DisposeEnd"
  /\ content' = [content EXCEPT !.disposed = TRUE]
  /\ Goto("java", IF content.freeMe THEN "DisposeFree" ELSE "Delete")
  /\ UNCHANGED <<playerVars, attached, deleted, refVars>>

DisposeFree ==
  /\ pc["java"] = "DisposeFree"
  /\ content' = [content EXCEPT !.freed = @ + 1]
  /\ Goto("java", "Delete")
  /\ UNCHANGED <<playerVars, attached, deleted, refVars>>

Delete ==
  /\ pc["java"] = "Delete"
  /\ deleted' = TRUE
  /\ Goto("java", "Gone")
  /\ UNCHANGED <<playerVars, content, attached, refVars>>

\* g_source_callback_unref, by Dispose and at the end of a dispatch: a
\* decrement without a lock, and the test of the result.
UnrefRead(t) ==
  /\ pc[t] = "Unref"
  /\ seen' = [seen EXCEPT ![t] = refs]
  /\ overlapped' = (overlapped \/ \E u \in {"java", "bus"} : pc[u] \in {"UnrefWrite", "UnrefTest"})
  /\ msg' = IF t = "bus" THEN NoMessage ELSE msg
  /\ Goto(t, "UnrefWrite")
  /\ NoGst /\ UNCHANGED <<m, ret, content, attached, deleted, refs>>

UnrefWrite(t) ==
  /\ pc[t] = "UnrefWrite"
  /\ refs' = seen[t] - 1
  /\ Goto(t, "UnrefTest")
  /\ UNCHANGED <<playerVars, content, attached, deleted, seen, overlapped>>

\* Mutant: no notification at the end of a dispatch
UnrefQuietly(t) ==
  /\ pc[t] = "UnrefTest"
  /\ content' = [content EXCEPT !.freeMe = @ \/ (t = "java" /\ refs = 0)]
  /\ Goto(t, IF t = "java" THEN "DisposeEnd" ELSE "idle")
  /\ UNCHANGED <<playerVars, attached, deleted, refVars>>

\* The test of what was written, or of what is read again.  If it is zero
\* BusCallbackDestroyNotify runs: here if it is Dispose that calls, before
\* m_bIsDisposed.
UnrefTest(t) ==
  /\ pc[t] = "UnrefTest"
  /\ \E zero \in {seen[t] = 1, refs = 0} :
       /\ content' = [content EXCEPT !.freeMe = @ \/ (t = "java" /\ zero)]
       /\ Goto(t, IF t = "java" THEN "DisposeEnd" ELSE IF zero THEN "Notify" ELSE "idle")
  /\ UNCHANGED <<playerVars, attached, deleted, refVars>>

DestroyNotify ==
  /\ pc["bus"] = "Notify" /\ ~DisposeHolds
  /\ content' = [content EXCEPT !.freeMe = @ \/ ~content.disposed]
  /\ Goto("bus", IF content.disposed THEN "Free" ELSE "Over")
  /\ UNCHANGED <<playerVars, attached, deleted, refVars>>

NotifyFree ==
  /\ pc["bus"] = "Free"
  /\ content' = [content EXCEPT !.freed = @ + 1]
  /\ Goto("bus", "Over")
  /\ UNCHANGED <<playerVars, attached, deleted, refVars>>
-----------------------------------------------------------------------------
Unref   == \E t \in {"java", "bus"} : UnrefRead(t) \/ UnrefWrite(t) \/ UnrefTest(t)
Pausing == \E t \in Threads : PlayTest(t) \/ PlaySet(t) \/ PauseTest(t) \/ PauseSet(t)

JavaStep == \/ Unpend \/ PauseCall \/ PauseLock \/ StopCall \/ StopLock
            \/ SeekCall \/ SeekFlush \/ SeekResume \/ SeekSet
            \/ RateZeroCall \/ RateZeroSet \/ RateOneCall
            \/ DisposeNull \/ DisposeLock \/ DisposeDestroy \/ DisposeEnd \/ DisposeFree \/ Delete
BusStep  == \/ Dispatch \/ BusCallback \/ DestroyNotify \/ NotifyFree
            \/ OnState \/ UpdateBufferPosition \/ OnBuffering \/ UpdatePlayerState
            \/ OnEos \/ OnError \/ SetError \/ OnUnderrun \/ Stall
Pipeline == Preroll \/ ContinueState \/ Download
Code     == Pausing \/ Unref \/ JavaStep \/ FinishCall \/ BusStep

Next == \/ Code \/ Pipeline \/ StreamEnds \/ StreamFails \/ Underrun
        \/ (\E c \in Calls : JavaCall(c)) \/ PulseCall \/ Dispose

Spec == Init /\ [][Next]_vars

\* The threads run, sinks preroll, a state change goes on, and the download
\* makes progress.  Nobody has to call, the stream need not end.
Fairness == /\ \A t \in Threads : WF_vars(PlayTest(t) \/ PlaySet(t) \/ PauseTest(t) \/ PauseSet(t))
            /\ \A t \in {"java", "bus"} : WF_vars(UnrefRead(t) \/ UnrefWrite(t) \/ UnrefTest(t))
            /\ WF_vars(JavaStep) /\ WF_vars(FinishCall) /\ WF_vars(BusStep) 
            /\ WF_vars(Preroll) /\ WF_vars(ContinueState) /\ WF_vars(Download)
FairSpec == Spec /\ Fairness
-----------------------------------------------------------------------------
Members == [state : PlayerStates, pending : {"Unknown", "Paused", "Stopped"}, stallOnPause : BOOLEAN,
            seekInvoked : BOOLEAN, rate : {0, 1}, resumeOnNonzero : BOOLEAN, eos : BOOLEAN, buffered : BOOLEAN]

\* Type invariant.
TypeOK ==
  /\ gst \in Elements /\ queue \in Seq(Messages) /\ ended \in BOOLEAN /\ m \in Members
  /\ DOMAIN pc = Threads /\ DOMAIN ret = Threads /\ msg \in Messages \cup {NoMessage}
  /\ content \in [inProgress : BOOLEAN, disposed : BOOLEAN, freeMe : BOOLEAN, freed : 0..2]
  /\ attached \in BOOLEAN /\ deleted \in BOOLEAN /\ upset \in BOOLEAN
  /\ refs \in 0..2 /\ seen \in [{"java", "bus"} -> 0..2] /\ overlapped \in BOOLEAN
  /\ bound \in [calls : 0..MaxCalls, progress : 0..MaxProgress, troubles : 0..MaxTroubles]

\* sBusCallbackContent is freed by one thread only, Dispose or the main loop,
\* and by no thread while another may still touch it or its lock; unless the
\* decrements of its reference count overlapped.
FreedLast ==
  ~overlapped => /\ content.freed <= 1
                 /\ content.freed = 1 => /\ pc["java"] \in {"Delete", "Gone"}
                                         /\ pc["bus"] \in {"idle", "Over"}
                                         /\ ~attached

\* BusCallback never works on a player that Dispose has begun to take apart,
\* and the pipeline it takes apart stays in NULL.
DisposedQuietly ==
  /\ pc["java"] \in Disposing => ~BusHolds
  /\ pc["java"] \in Disposing \ {"DisposeNull"} => gst.state = "NULL" /\ queue = <<>>

\* At rest: no thread in the player, no message on its way, no change pending
AtRest == /\ \A t \in Threads : pc[t] = "idle"
          /\ queue = <<>> /\ gst.pending = Void

\* At rest the state shown to the application is that of the pipeline.
StateAgrees ==
  AtRest /\ ~upset => CASE m.state = "Playing" -> gst.state = "PLAYING"
              [] m.state \in {"Ready", "Paused", "Stopped", "Stalled"} -> gst.state = "PAUSED"
              [] m.state = "Error" -> gst.state = "NULL"
              [] OTHER -> TRUE

\* The transition table of MediaPlayer.Status, with Finished beside Playing.
Follows == [Unknown |-> {"Ready"}, Ready |-> {"Playing"}, Paused |-> {"Playing", "Stopped"},
            Playing |-> {"Paused", "Stalled", "Stopped", "Finished"},
            Stalled |-> {"Paused", "Playing", "Stopped"}, Stopped |-> {"Paused", "Playing"},
            Finished |-> {"Paused", "Playing", "Stopped"}, Error |-> {}]
StatusInOrder == [][m'.state # m.state /\ ~upset => m'.state \in Follows[m.state] \cup {"Error"}]_m

\* A stalled player does not stay stalled: the download ends and it plays on,
\* or the application stops, pauses or disposes of it.
StallEnds == m.state = "Stalled" ~> (m.state # "Stalled" \/ upset \/ pc["java"] \in Disposing)

\* A disposal that was begun deletes the player and frees what it shared,
\* unless the decrements of the reference count overlapped.
DisposeEnds == pc["java"] \in Disposing ~> deleted /\ (content.freed = 1 \/ overlapped)
=============================================================================
