----------------------------- MODULE JavaSource -----------------------------
(***************************************************************************)
(* The source element of a progressive download (javasource.c in           *)
(* MODE_DEFAULT) joined to the progress buffer: its task reads the         *)
(* connection block by block and pushes stream-start, segment, buffers and *)
(* EOS into the buffer; a seek that the buffer cannot satisfy is handed to *)
(* it.  What a connection may do is external: end early, fail, or refuse a *)
(* seek (ConnectionHolder).                                                *)
(*                                                                         *)
(* The check of srcresult and the push of one iteration are one step: a    *)
(* flush that falls between them makes the push fail, as it does here when *)
(* it comes before both.                                                   *)
(***************************************************************************)
EXTENDS ProgressBuffer

CONSTANTS Truncates,    \* may the connection end before the media does?
          SeekAnswers,  \* may the server answer seeks (TRUE), may it refuse them (FALSE)?
          RefusalLoses  \* may the flush of a seek it refuses meet a push of the source?

ASSUME SourceAssumption == Truncates \in BOOLEAN /\ SeekAnswers \subseteq BOOLEAN
ASSUME RefusalAssumption == RefusalLoses \in BOOLEAN

VARIABLES
  sres,         \* srcresult of the source
  event,        \* pending_event, "data" for GST_EVENT_UNKNOWN
  position, update,
  sflush,       \* its pad and the buffer's sink pad are flushing
  spc, sgot,    \* where its task is, and the result of the iteration
  ranges        \* the server answers range requests: seekData does not return -1

sourceVars == <<sres, event, position, update, sflush, spc, sgot, ranges>>
vars == <<bufferVars, sourceVars>>

Init ==
  /\ BufferInit
  /\ sres = "ok" /\ event = "streamStart" /\ position = 0 /\ update = TRUE
  /\ sflush = FALSE /\ spc = "push" /\ sgot = "ok"
  /\ ranges \in SeekAnswers
-----------------------------------------------------------------------------
(* java_source_loop                                                        *)

SourceFlushing ==
  /\ spc = "push"
  /\ sres # "ok"
  /\ sgot' = sres
  /\ spc' = "store"
  /\ UNCHANGED <<bufferVars, sres, event, position, update, sflush, ranges>>

(* In the flush of a refused seek the source pushes only if RefusalLoses.  *)
Meets == user = "sourceFlush" => ranges \/ RefusalLoses

(* An event that is pushed while the pads flush is lost; what comes next   *)
(* does not depend on that.                                                *)
PushEvent(kind, next, r) ==
  /\ spc = "push" /\ sres = "ok" /\ event = kind /\ Meets
  /\ IF sflush
     THEN r = "flushing" /\ UNCHANGED bufferVars
     ELSE sink_event(kind, position, update, r)
  /\ event' = next
  /\ spc' = "store"
  /\ UNCHANGED <<sres, position, update, sflush, ranges>>

PushStreamStart == \E r \in {"ok", "flushing"} : PushEvent("streamStart", "segment", r) /\ sgot' = r
PushSegment     == \E r \in {"ok", "flushing"} : PushEvent("segment", "data", r) /\ sgot' = r
PushEos         == \E r \in {"ok", "flushing"} : PushEvent("eos", "eos", r) /\ sgot' = "eos"

(* A block is read and pushed.  A push that was refused loses the block.   *)
PushBlock ==
  /\ spc = "push" /\ sres = "ok" /\ event = "data" /\ Meets
  /\ position < Size
  /\ \E r \in {"ok", "eos", "error", "flushing"}, sig \in BOOLEAN :
       /\ IF sflush
          THEN r = "flushing" /\ UNCHANGED bufferVars
          ELSE chain(position, position, sig, r)
       /\ event' = IF r = "eos" THEN "eos" ELSE "data"
       /\ spc' = IF r = "eos" THEN "push" ELSE "store"
       /\ sgot' = r
  /\ position' = position + 1
  /\ UNCHANGED <<sres, update, sflush, ranges>>

ReadEnd ==
  /\ spc = "push" /\ sres = "ok" /\ event = "data"
  /\ position = Size \/ Truncates
  /\ event' = "eos"
  /\ UNCHANGED <<bufferVars, sres, position, update, sflush, spc, sgot, ranges>>

ReadError ==
  /\ spc = "push" /\ sres = "ok" /\ event = "data"
  /\ Truncates
  /\ sgot' = "flushing"
  /\ spc' = "store"
  /\ UNCHANGED <<bufferVars, sres, event, position, update, sflush, ranges>>

(* The end of the iteration; a result other than OK pauses the task.       *)
SourceStore ==
  /\ spc = "store"
  /\ LET keep == sres # "ok" /\ sgot = "ok"
         r    == IF keep THEN sres ELSE sgot
     IN /\ sres' = r
        /\ spc' = IF r = "ok" THEN "push" ELSE "parked"
  /\ sgot' = "ok"
  /\ UNCHANGED <<bufferVars, event, position, update, sflush, ranges>>

Source == \/ SourceFlushing \/ PushStreamStart \/ PushSegment \/ PushEos \/ PushBlock
          \/ ReadEnd \/ ReadError \/ SourceStore
-----------------------------------------------------------------------------
(* java_source_event and java_source_perform_seek, called by the player's  *)
(* thread from the buffer's seek                                           *)

SourceFlushStart == /\ user = "sourceSeek"
                    /\ sflush' = TRUE
                    /\ user' = "sourceFlush"
                    /\ UNCHANGED <<elementVars, loopVars, down, target, seeks,
                                   sres, event, position, update, spc, sgot, ranges>>

SourceStop == /\ user = "sourceFlush"
              /\ sres' = "flushing"
              /\ user' = "sourceLock"
              /\ UNCHANGED <<elementVars, loopVars, down, target, seeks,
                             event, position, update, sflush, spc, sgot, ranges>>

\* Mutant: the source goes on without announcing the new segment
SeekSilently ==
  /\ user = "sourceLock"
  /\ spc = "parked"
  /\ event' = IF ranges THEN "data" ELSE event
  /\ position' = IF ranges THEN target ELSE position
  /\ update' = (update /\ ~ranges)
  /\ user' = IF ranges THEN "finish" ELSE "refused"
  /\ sres' = "ok" /\ sflush' = FALSE /\ spc' = "push"
  /\ UNCHANGED <<elementVars, loopVars, down, target, seeks, sgot, ranges>>

(* With the stream lock of the source: the connection seeks, or refuses;   *)
(* either way the flush ends and the task is started again.                *)
SourceSeek ==
  /\ user = "sourceLock"
  /\ spc = "parked"
  /\ event' = IF ranges THEN "segment" ELSE event
  /\ position' = IF ranges THEN target ELSE position
  /\ update' = (update /\ ~ranges)
  /\ user' = IF ranges THEN "finish" ELSE "refused"
  /\ sres' = "ok" /\ sflush' = FALSE /\ spc' = "push"
  /\ UNCHANGED <<elementVars, loopVars, down, target, seeks, sgot, ranges>>

(* The buffer's sink pad is deactivated, and its change_state ends.        *)
DisposeBuffer == DisposeJoined /\ sflush' = TRUE
                 /\ UNCHANGED <<sres, event, position, update, spc, sgot, ranges>>

(* java_source_activatemode(FALSE): flushing, and the task is joined.      *)
DisposeSource == /\ user = "stopSource"
                 /\ sres' = "flushing"
                 /\ user' = "joinSource"
                 /\ UNCHANGED <<elementVars, loopVars, down, target, seeks,
                                event, position, update, sflush, spc, sgot, ranges>>

Disposed == /\ user = "joinSource"
            /\ spc = "parked"
            /\ user' = "disposed"
            /\ UNCHANGED <<elementVars, loopVars, down, target, seeks, sourceVars>>

SeekStep    == SeekSignal \/ SeekLocked \/ SeekRefused \/ SeekFinish
DisposeStep == DisposeSignal \/ DisposeStopTask
SourceCall  == SourceFlushStart \/ SourceStop \/ SourceSeek
               \/ DisposeBuffer \/ DisposeSource \/ Disposed

LoopStep   == Loop /\ UNCHANGED sourceVars
PlayerStep == ((SeekStep \/ DisposeStep) /\ UNCHANGED sourceVars) \/ SourceCall
PlayerCall == (SeekFlushStart \/ DisposeFlush) /\ UNCHANGED sourceVars

Next == LoopStep \/ PlayerStep \/ PlayerCall \/ Source

(* A thread that can run runs, downstream takes what it is given, and the  *)
(* connection delivers, ends or fails; the player need not call anything.  *)
Spec == /\ Init /\ [][Next]_vars
        /\ WF_vars(LoopStep) /\ WF_vars(PlayerStep) /\ WF_vars(Source)
-----------------------------------------------------------------------------
TypeOK ==
  /\ srcresult \in {"ok", "eos", "error", "flushing"}
  /\ pending \in Events
  /\ cache \in Cache(Blocks)
  /\ offset \in Offsets
  /\ seg \in [start : Offsets, position : Offsets, stop : 0..NoStop]
  /\ eos \in BOOLEAN /\ unexpected \in BOOLEAN /\ instant \in BOOLEAN
  /\ task \in {"none", "started", "paused", "stopped"}
  /\ pc \in {"parked", "check", "held", "waiting", "pushBuffer", "pushEvent", "store", "pause",
             "top", "done"}
  /\ skip \in BOOLEAN
  /\ out \in [offset : Offsets \cup {None}, block : Blocks \cup {None}]
  /\ res \in {"ok", "eos", "flushing"}
  /\ down \in [flushing : BOOLEAN, next : Offsets \cup {None}, ended : BOOLEAN]
  /\ user \in {"idle", "seekSignal", "seekLock", "sourceSeek", "sourceFlush", "sourceLock",
               "refused", "finish", "stopSignal", "stopTask", "join", "stopSource", "joinSource",
               "disposed"}
  /\ target \in Blocks /\ seeks \in 0..MaxSeeks
  /\ sres \in {"ok", "eos", "error", "flushing"}
  /\ event \in {"streamStart", "segment", "data", "eos"}
  /\ position \in Offsets /\ update \in BOOLEAN /\ sflush \in BOOLEAN
  /\ spc \in {"push", "store", "parked"} /\ sgot \in {"ok", "eos", "error", "flushing"}
  /\ ranges \in BOOLEAN

(* What is pushed downstream as the block at an offset is the block of the *)
(* media at that offset: seeks, the rewinding of the file and cut segments *)
(* never shift the file against cache_read_offset                          *)
(* (progress_buffer_loop, progress_buffer_enqueue_item).                   *)
DataIntact == pc = "pushBuffer" => out.block = out.offset

(* As long as the download has not ended, every buffer that downstream is  *)
(* given after a flush comes under a segment announced since, and follows  *)
(* without gap or repetition the segment's start or the buffer before it.  *)
(* (The EOS of the source may discard the pending segment of a seek.)      *)
InSequence == pc = "pushBuffer" /\ ~down.flushing /\ ~eos => out.offset = down.next

(* An EOS that the loop is about to push comes after the last buffer of    *)
(* the segment, never before it (the pending event of progress_buffer_loop).*)
EosAtEnd == pending = EosEvent /\ AtCheck /\ srcresult = "ok" /\ ~down.flushing /\ ~skip
              => down.next = seg.stop

(* The loop never sleeps on add_cond over a flush or a pending event:      *)
(* whoever sets one signals it, or sets it while the loop is parked.       *)
NoLostWakeup == pc = "waiting" => srcresult = "ok" /\ pending = NoEvent

(* Data below the message threshold is stored without waking the loop; the *)
(* EOS of the source makes good for it, and nothing stays behind.          *)
NoStrandedData ==
  <>[](eos /\ instant /\ user = "idle" /\ srcresult = "ok" => ~cache_has_enough_data(cache))

(* A seek or a disposal that waits for the loop to give up its stream lock *)
(* gets it, unless the loop has overwritten the flush with the result of   *)
(* its last push and sleeps on a source that has nothing more to send.     *)
Starved == /\ user \in {"seekLock", "join"}
           /\ pc = "waiting" /\ srcresult = "ok" /\ spc = "parked"

LoopStops == user \in {"seekSignal", "stopSignal"} ~> user \in {"idle", "disposed"} \/ Starved
=============================================================================
