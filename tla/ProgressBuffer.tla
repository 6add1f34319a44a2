--------------------------- MODULE ProgressBuffer ---------------------------
(***************************************************************************)
(* The progress buffer of the media pipeline (progressbuffer.c, push       *)
(* mode): it sits between the source that downloads a stream and the       *)
(* demuxer, stores what arrives in a file, and lets the demuxer seek in    *)
(* what has been stored.                                                   *)
(*                                                                         *)
(* Three threads meet here.  The streaming thread of the source calls      *)
(* chain and sink_event.  The task of the source pad runs                  *)
(* progress_buffer_loop over and over, holding the stream lock of that pad *)
(* except when it is parked (gst_task_func).  The thread of the player     *)
(* seeks and disposes.  A step is one section under element->lock, or one  *)
(* call that leaves it.  Offsets count blocks.                             *)
(*                                                                         *)
(* Messages to the bus and the bandwidth estimate are left out; the        *)
(* estimate's result is any of Tolerances.                                 *)
(***************************************************************************)
EXTENDS FileCache, FiniteSets

CONSTANTS Size,         \* blocks of the media
          MaxSeeks,     \* bound: seeks of the player
          Tolerances,   \* values of bandwidth * wait_tolerance, in blocks
          PushResults   \* what downstream may answer to a buffer

ASSUME BufferAssumption == /\ Size \in Nat \ {0}
                           /\ MaxSeeks \in Nat
                           /\ Tolerances \subseteq Nat
                           /\ PushResults \subseteq {"ok", "eos"}

VARIABLES
  srcresult, pending, cache,
  offset,       \* cache_read_offset
  seg,          \* start, position and stop of sink_segment
  eos, unexpected, instant,
  task,         \* state of the task of the source pad
  pc, skip,     \* where progress_buffer_loop is, and its local skip
  out, res,     \* the buffer or event it pushes, and what the push returned
  down,         \* downstream: flushing, the offset it expects, ended
  user, target, \* where the player's thread is, and the offset it seeks
  seeks         \* seeks begun

elementVars == <<srcresult, pending, cache, offset, seg, eos, unexpected, instant>>
loopVars    == <<task, pc, skip, out, res>>
userVars    == <<user, target, seeks>>
bufferVars  == <<elementVars, loopVars, down, userVars>>

Offsets == 0..Size
Blocks  == 0..Size-1      \* block o is the content of the media at offset o
None    == -1
NoStop  == Size + 1        \* the stop of a fresh segment, beyond every offset

NoEvent    == [kind |-> "none", start |-> None]
EosEvent   == [kind |-> "eos", start |-> None]
Segment(p) == [kind |-> "segment", start |-> p]
Events     == {NoEvent, EosEvent} \cup {Segment(p) : p \in Offsets}
NoBuffer   == [offset |-> None, block |-> None]

BufferInit ==
  /\ srcresult = "ok" /\ pending = NoEvent /\ cache = create_cache /\ offset = 0
  /\ seg = [start |-> 0, position |-> 0, stop |-> NoStop]
  /\ eos = FALSE /\ unexpected = FALSE /\ instant = FALSE
  /\ task = "none" /\ pc = "parked" /\ skip = FALSE /\ out = NoBuffer /\ res = "ok"
  /\ down = [flushing |-> FALSE, next |-> None, ended |-> FALSE]
  /\ user = "idle" /\ target = 0 /\ seeks = 0

(* element->lock is free: only between two items that it skips does the    *)
(* loop hold it over a step.                                               *)
Unlocked == pc # "held"

(* g_cond_signal(add_cond)                                                 *)
Signalled == IF pc = "waiting" THEN "check" ELSE pc

(* The threads that hold the stream lock of the source pad.                *)
LoopStreams == pc \notin {"parked", "done"}
UserStreams == user \in {"sourceSeek", "sourceFlush", "sourceLock", "refused", "finish"}
-----------------------------------------------------------------------------
(* progress_buffer_enqueue_item, on the streaming thread of the source     *)

(* A buffer.  Whether a position message is due, which is what wakes the   *)
(* loop, depends on the percentage downloaded: sig.                        *)
enqueue_buffer(o, block, sig) ==
  /\ seg' = [seg EXCEPT !.position = o + 1]
  /\ IF seg.stop < o + 1
     THEN UNCHANGED <<cache, pc>>
     ELSE /\ cache' = cache_write_buffer(cache, block)
          /\ pc' = IF sig THEN Signalled ELSE pc
  /\ UNCHANGED <<pending, offset, instant>>

\* Mutant: the loop is not signalled
EnqueueEosQuietly ==
  /\ eos' = TRUE
  /\ seg' = [seg EXCEPT !.stop = IF seg.position < seg.stop THEN seg.position ELSE seg.stop]
  /\ pending' = NoEvent
  /\ UNCHANGED <<srcresult, cache, offset, unexpected, instant, task, pc>>

enqueue_eos ==
  /\ eos' = TRUE
  /\ seg' = [seg EXCEPT !.stop = IF seg.position < seg.stop THEN seg.position ELSE seg.stop]
  /\ pending' = NoEvent
  /\ pc' = Signalled
  /\ UNCHANGED <<srcresult, cache, offset, unexpected, instant, task>>

(* A segment from start to the end of the media; the first one, an update, *)
(* creates the cache.                                                      *)
enqueue_segment(start, update) ==
  /\ unexpected' = FALSE
  /\ IF update
     THEN cache' = create_cache /\ UNCHANGED offset
     ELSE /\ cache' = cache_set_read_position(cache_set_write_position(cache, 0), 0)
          /\ offset' = start
  /\ seg' = [start |-> start, position |-> start, stop |-> Size]
  /\ pending' = Segment(start)
  /\ instant' = TRUE
  /\ pc' = Signalled
  /\ UNCHANGED <<srcresult, eos, task>>

(* progress_buffer_chain: the first buffer creates the source pad and      *)
(* starts its task.  r is what it returns to the source.                   *)
chain(o, block, sig, r) ==
  /\ Unlocked
  /\ IF eos \/ unexpected
     THEN /\ r = "eos"
          /\ UNCHANGED <<elementVars, task, pc>>
     ELSE /\ r = IF seg.stop < o + 1 THEN "error" ELSE "ok"
          /\ enqueue_buffer(o, block, sig)
          /\ srcresult' = IF task = "none" THEN "ok" ELSE srcresult
          /\ task' = IF task = "none" /\ r = "ok" THEN "started" ELSE task
          /\ UNCHANGED <<eos, unexpected>>
  /\ UNCHANGED <<skip, out, res, down, userVars>>

(* progress_buffer_sink_event for a serialized event.  stream-start and    *)
(* caps are swallowed.                                                     *)
Enqueue(kind, start, update) ==
  CASE kind = "segment" -> enqueue_segment(start, update)
    [] kind = "eos"     -> enqueue_eos
    [] OTHER            -> UNCHANGED <<elementVars, task, pc>>

sink_event(kind, start, update, r) ==
  /\ Unlocked
  /\ r = IF eos THEN "flushing" ELSE "ok"
  /\ IF eos THEN UNCHANGED <<elementVars, task, pc>> ELSE Enqueue(kind, start, update)
  /\ UNCHANGED <<skip, out, res, down, userVars>>
-----------------------------------------------------------------------------
(* progress_buffer_loop, run by the task of the source pad                 *)

LoopEnter ==
  /\ pc = "parked"
  /\ task \in {"started", "stopped"}
  /\ ~UserStreams
  /\ pc' = IF task = "started" THEN "check" ELSE "done"
  /\ skip' = FALSE
  /\ UNCHANGED <<elementVars, task, out, res, down, userVars>>

(* gst_task_func after a call of the loop returned                         *)
LoopAgain ==
  /\ pc = "top"
  /\ pc' = CASE task = "started" -> "check" [] task = "paused" -> "parked" [] OTHER -> "done"
  /\ skip' = FALSE
  /\ UNCHANGED <<elementVars, task, out, res, down, userVars>>

AtCheck == pc \in {"check", "held"}

NothingToPush == /\ srcresult = "ok"
                 /\ pending = NoEvent
                 /\ ~cache_has_enough_data(cache) \/ ~instant

LoopWait ==
  /\ AtCheck
  /\ NothingToPush
  /\ pc' = "waiting"
  /\ UNCHANGED <<elementVars, task, skip, out, res, down, userVars>>

\* Mutant: the task is not paused
LoopFlushedRunsOn ==
  /\ AtCheck
  /\ srcresult # "ok"
  /\ unexpected' = (unexpected \/ skip)
  /\ pc' = "top"
  /\ UNCHANGED <<srcresult, pending, cache, offset, seg, eos, instant, task, skip, out, res,
                 down, userVars>>

LoopFlushed ==
  /\ AtCheck
  /\ srcresult # "ok"
  /\ unexpected' = (unexpected \/ skip)
  /\ pc' = IF skip THEN "top" ELSE "pause"
  /\ UNCHANGED <<srcresult, pending, cache, offset, seg, eos, instant, task, skip, out, res,
                 down, userVars>>

LoopTakeEvent ==
  /\ AtCheck
  /\ srcresult = "ok" /\ pending # NoEvent
  /\ srcresult' = IF pending = EosEvent THEN "eos" ELSE "ok"
  /\ out' = [offset |-> pending.start, block |-> None]
  /\ skip' = (skip /\ pending = EosEvent)
  /\ pending' = NoEvent
  /\ pc' = "pushEvent"
  /\ UNCHANGED <<cache, offset, seg, eos, unexpected, instant, task, res, down, userVars>>

(* A buffer is read, and with the last one of the segment an EOS becomes   *)
(* pending.                                                                *)
\* Mutant: off by one
BeforeStop == cache.read + 2 + offset = seg.stop

AtStop == cache.read + 1 + offset = seg.stop

LoopRead ==
  /\ AtCheck
  /\ srcresult = "ok" /\ pending = NoEvent /\ cache_has_enough_data(cache) /\ instant
  /\ out' = [offset |-> cache.read + offset, block |-> BlockRead(cache)]
  /\ cache' = cache_read_buffer(cache)
  /\ pending' = IF AtStop THEN EosEvent ELSE NoEvent
  /\ pc' = IF skip THEN "held" ELSE "pushBuffer"
  /\ UNCHANGED <<srcresult, offset, seg, eos, unexpected, instant, task, skip, res, down, userVars>>

(* gst_pad_push.  Downstream that wants no more answers EOS, and the loop  *)
(* skips to the next segment.                                              *)
LoopPushBuffer ==
  /\ pc = "pushBuffer"
  /\ \E r \in IF down.flushing THEN {"flushing"} ELSE PushResults :
       /\ res' = IF r = "flushing" THEN r ELSE "ok"
       /\ down' = IF r = "ok" THEN [down EXCEPT !.next = out.offset + 1] ELSE down
       /\ pc' = IF r = "eos" THEN "check" ELSE "store"
       /\ skip' = (r = "eos")
  /\ out' = NoBuffer
  /\ UNCHANGED <<elementVars, task, userVars>>

LoopStore ==
  /\ pc = "store"
  /\ srcresult' = res
  /\ pc' = IF res = "ok" THEN "top" ELSE "pause"
  /\ res' = "ok"
  /\ UNCHANGED <<pending, cache, offset, seg, eos, unexpected, instant, task, skip, out,
                 down, userVars>>

LoopPushEvent ==
  /\ pc = "pushEvent"
  /\ IF out.offset = None
     THEN /\ down' = [down EXCEPT !.ended = ~down.flushing \/ down.ended]
          /\ pc' = "pause"
     ELSE /\ down' = IF down.flushing THEN down
                     ELSE [down EXCEPT !.next = out.offset]
          /\ pc' = "top"
  /\ out' = NoBuffer
  /\ UNCHANGED <<elementVars, task, skip, res, userVars>>

(* gst_pad_pause_task; a stopped task stays stopped.                       *)
LoopPause ==
  /\ pc = "pause"
  /\ task' = IF task = "started" THEN "paused" ELSE task
  /\ pc' = "top"
  /\ UNCHANGED <<elementVars, skip, out, res, down, userVars>>

Loop == \/ LoopEnter \/ LoopAgain \/ LoopWait \/ LoopFlushed \/ LoopTakeEvent \/ LoopRead
        \/ LoopPushBuffer \/ LoopStore \/ LoopPushEvent \/ LoopPause
-----------------------------------------------------------------------------
(* progress_buffer_perform_push_seek, on the thread of the player.  Every  *)
(* seek of the player flushes.                                             *)

SeekFlushStart ==
  /\ user = "idle"
  /\ task # "none"
  /\ seeks < MaxSeeks
  /\ seeks' = seeks + 1
  /\ target' \in Blocks
  /\ user' = "seekSignal"
  /\ down' = [down EXCEPT !.flushing = TRUE]
  /\ UNCHANGED <<elementVars, loopVars>>

(* Under the lock: flushing, and a signal for the loop.                    *)
\* Mutant: no signal
StopLoopQuietly == /\ Unlocked
                   /\ srcresult' = "flushing"
                   /\ UNCHANGED <<pending, cache, offset, seg, eos, unexpected, instant, skip, out,
                                  res, pc, down, target, seeks>>

StopLoop == /\ Unlocked
            /\ srcresult' = "flushing"
            /\ pc' = Signalled
            /\ UNCHANGED <<pending, cache, offset, seg, eos, unexpected, instant, skip, out, res,
                           down, target, seeks>>

SeekSignal == user = "seekSignal" /\ user' = "seekLock" /\ StopLoop /\ UNCHANGED task

(* The target is in the cache, or close enough to what is to arrive.       *)
Instant(tolerance) == target >= seg.start /\ target - seg.position <= tolerance

\* Mutant: the new segment is not announced
ReadSilently(p) == /\ cache' = cache_set_read_position(cache, p - offset)
                   /\ pending' = NoEvent
                   /\ instant' = TRUE

ReadFrom(p) == /\ cache' = cache_set_read_position(cache, p - offset)
               /\ pending' = Segment(p)
               /\ instant' = TRUE

SeekLocked ==
  /\ user = "seekLock"
  /\ ~LoopStreams
  /\ srcresult' = "ok"
  /\ \E tolerance \in Tolerances :
       \/ /\ Instant(tolerance)
          /\ ReadFrom(target)
          /\ user' = "finish"
          /\ UNCHANGED eos
       \/ /\ ~Instant(tolerance)
          /\ instant' = FALSE /\ eos' = FALSE /\ pending' = NoEvent
          /\ user' = "sourceSeek"
          /\ UNCHANGED cache
  /\ UNCHANGED <<offset, seg, unexpected, loopVars, down, target, seeks>>

(* The source refused to seek: play from what the cache will hold.  This   *)
(* runs without the lock.                                                  *)
SeekRefused == /\ user = "refused"
               /\ ReadFrom(target)
               /\ user' = "finish"
               /\ UNCHANGED <<srcresult, offset, seg, eos, unexpected, loopVars, down, target, seeks>>

SeekFinish ==
  /\ user = "finish"
  /\ down' = [flushing |-> FALSE, next |-> None, ended |-> FALSE]
  /\ task' = "started"
  /\ user' = "idle" /\ target' = 0
  /\ UNCHANGED <<elementVars, pc, skip, out, res, seeks>>
-----------------------------------------------------------------------------
(* progress_buffer_activatepush_src(FALSE) and change_state, when the      *)
(* player disposes of the pipeline: downstream and the pad are flushing    *)
(* before, gst_pad_stop_task joins the task.                               *)

DisposeFlush == /\ user = "idle"
                /\ task # "none"
                /\ user' = "stopSignal"
                /\ down' = [down EXCEPT !.flushing = TRUE]
                /\ UNCHANGED <<elementVars, loopVars, target, seeks>>

DisposeSignal == user = "stopSignal" /\ user' = "stopTask" /\ StopLoop /\ UNCHANGED task

DisposeStopTask == /\ user = "stopTask"
                   /\ task' = "stopped"
                   /\ user' = "join"
                   /\ UNCHANGED <<elementVars, pc, skip, out, res, down, target, seeks>>

(* PAUSED_TO_READY: flush_data                                             *)
DisposeJoined == /\ user = "join"
                 /\ pc = "done"
                 /\ srcresult' = "flushing" /\ pending' = NoEvent
                 /\ seg' = [start |-> 0, position |-> 0, stop |-> NoStop]
                 /\ user' = "stopSource"
                 /\ UNCHANGED <<cache, offset, eos, unexpected, instant, loopVars, down, target, seeks>>
=============================================================================
