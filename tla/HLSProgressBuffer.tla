-------------------------- MODULE HLSProgressBuffer -------------------------
(***************************************************************************)
(* The buffer of an HTTP live stream (hlsprogressbuffer.c) with its source *)
(* (javasource.c in MODE_HLS, a stream that is not live).                  *)
(*                                                                         *)
(* The stream comes in segments.  The source announces each with a SEGMENT *)
(* event that carries its size; the buffer then claims the next of a ring  *)
(* of files for it, waiting until the loop has read that file to its end.  *)
(* The threads are those of ProgressBuffer; here a seek passes through the *)
(* buffer as a pair of flush events, and only gst_pad_pause_task waits for *)
(* the loop.                                                               *)
(*                                                                         *)
(* Blocks are numbered through the stream; messages to the bus are left    *)
(* out.  Four things may fail: a push downstream, a read, a seek, and a    *)
(* segment may be empty.                                                   *)
(***************************************************************************)
EXTENDS FileCache, FiniteSets

CONSTANTS NumOfCachedSegments, \* files of the ring
          Segments,            \* segments of the stream
          SegmentSize,         \* blocks of a segment
          MaxSeeks,            \* bound: seeks of the player
          MaxFaults            \* bound: things that fail

ASSUME HLSAssumption == /\ NumOfCachedSegments \in Nat \ {0}
                        /\ Segments \in Nat \ {0}
                        /\ SegmentSize \in Nat \ {0}
                        /\ MaxSeeks \in Nat /\ MaxFaults \in Nat

VARIABLES
  srcresult,
  slots,        \* cache, cache_size and cache_write_ready, by index
  wi, ri,       \* cache_write_index and cache_read_index
  isFlushing, isEos, sendNewSegment,
  task, pc,     \* the task of the source pad and where hls_progress_buffer_loop is
  out, res,     \* the block it pushes, and what the push returned
  down,         \* downstream: flushing, has a segment, next block, ended
  sres, event,  \* srcresult and pending_event of the source
  segment, block, \* the segment the source reads next, and its next block
  sflush,       \* its pad and the buffer's sink pad are flushing
  spc, sgot,    \* where its task is, and the result of the iteration
  user, target, seeks,
  faults,       \* what has failed
  astray        \* the last seek has: the source goes on where it was

elementVars == <<srcresult, slots, wi, ri, isFlushing, isEos, sendNewSegment>>
loopVars    == <<task, pc, out, res>>
sourceVars  == <<sres, event, segment, block, sflush, spc, sgot>>
faultVars   == <<faults, astray>>
userVars    == <<user, target, seeks, faultVars>>
vars == <<elementVars, loopVars, down, sourceVars, userVars>>

N       == NumOfCachedSegments
Slots   == 0..N-1
Last    == Segments * SegmentSize   \* one more than the last block
Blocks  == 0..Last-1
Start(n) == n * SegmentSize         \* the first block of a segment
None    == -1

EmptySlot == [cache |-> create_cache, size |-> 0, ready |-> TRUE]

Init ==
  /\ srcresult = "ok" /\ slots = [i \in Slots |-> EmptySlot] /\ wi = None /\ ri = 0
  /\ isFlushing = FALSE /\ isEos = FALSE /\ sendNewSegment = TRUE
  /\ task = "started" /\ pc = "parked" /\ out = None /\ res = "ok"
  /\ down = [flushing |-> FALSE, segment |-> FALSE, next |-> 0, ended |-> FALSE]
  /\ sres = "ok" /\ event = "segment" /\ segment = 0 /\ block = 0
  /\ sflush = FALSE /\ spc = "push" /\ sgot = "ok"
  /\ user = "idle" /\ target = 0 /\ seeks = 0 /\ faults = 0 /\ astray = FALSE

(* One more thing fails.                                                   *)
Fault == faults < MaxFaults /\ faults' = faults + 1

(* Signals of add_cond, for the loop, and of del_cond, for the source.     *)
(* One that comes before the source waits is missed.                       *)
AddSignalled == IF pc = "waiting" THEN "check" ELSE pc
DelSignalled == CASE spc \in {"waiting", "asleep"} -> "woken"
                  [] spc = "full"                  -> "missed"
                  [] OTHER                         -> spc

LoopStreams  == pc \notin {"parked", "done"}
-----------------------------------------------------------------------------
(* hls_progress_buffer_loop                                                *)

LoopEnter ==
  /\ pc = "parked"
  /\ task \in {"started", "stopped"}
  /\ pc' = IF task = "started" THEN "check" ELSE "done"
  /\ UNCHANGED <<elementVars, task, out, res, down, sourceVars, userVars>>

LoopAgain ==
  /\ pc = "top"
  /\ pc' = CASE task = "started" -> "check" [] task = "paused" -> "parked" [] OTHER -> "done"
  /\ UNCHANGED <<elementVars, task, out, res, down, sourceVars, userVars>>

HasData == cache_has_enough_data(slots[ri].cache)

LoopWait ==
  /\ pc = "check"
  /\ srcresult = "ok" /\ ~HasData /\ ~isEos
  /\ pc' = "waiting"
  /\ UNCHANGED <<elementVars, task, out, res, down, sourceVars, userVars>>

\* Mutant: EOS goes out before what is still in the file
LoopEosEarly ==
  /\ pc = "check"
  /\ srcresult = "ok" /\ isEos
  /\ down' = [down EXCEPT !.ended = ~down.flushing \/ down.ended]
  /\ srcresult' = "flushing"
  /\ pc' = "end"
  /\ UNCHANGED <<slots, wi, ri, isFlushing, isEos, sendNewSegment, task, out, res, sourceVars,
                 userVars>>

(* The end of the stream, pushed with the lock held.                       *)
LoopEos ==
  /\ pc = "check"
  /\ srcresult = "ok" /\ ~HasData /\ isEos
  /\ down' = [down EXCEPT !.ended = ~down.flushing \/ down.ended]
  /\ srcresult' = "flushing"
  /\ pc' = "end"
  /\ UNCHANGED <<slots, wi, ri, isFlushing, isEos, sendNewSegment, task, out, res, sourceVars,
                 userVars>>

LoopFlushed ==
  /\ pc = "check"
  /\ srcresult # "ok"
  /\ pc' = "end"
  /\ UNCHANGED <<elementVars, task, out, res, down, sourceVars, userVars>>

(* With its last block a file is given back to the source.                 *)
LoopRead ==
  /\ pc = "check"
  /\ srcresult = "ok" /\ HasData
  /\ LET s    == slots[ri]
         done == s.cache.read + 1 = s.size
     IN /\ out' = BlockRead(s.cache)
        /\ slots' = [slots EXCEPT ![ri].cache = cache_read_buffer(s.cache),
                                  ![ri].ready = s.ready \/ done]
        /\ ri' = IF done THEN (ri + 1) % N ELSE ri
        /\ spc' = IF done THEN DelSignalled ELSE spc
  /\ pc' = "push"
  /\ UNCHANGED <<srcresult, wi, isFlushing, isEos, sendNewSegment, task, res, down,
                 sres, event, segment, block, sflush, sgot, userVars>>

(* "failed" is every result but OK and FLUSHING: the code tells them apart *)
(* no further.                                                             *)
LoopPush ==
  /\ pc = "push"
  /\ \/ down.flushing /\ res' = "flushing" /\ UNCHANGED <<down, faults>>
     \/ ~down.flushing /\ res' = "ok" /\ down' = [down EXCEPT !.next = out + 1] /\ UNCHANGED faults
     \/ ~down.flushing /\ res' = "failed" /\ Fault /\ UNCHANGED down
  /\ out' = None
  /\ pc' = "store"
  /\ UNCHANGED <<elementVars, task, sourceVars, user, target, seeks, astray>>

(* A flush that came during the push is overwritten by its failure only.   *)
LoopStore ==
  /\ pc = "store"
  /\ srcresult' = IF srcresult = "ok" \/ res # "ok" THEN res ELSE srcresult
  /\ pc' = IF srcresult' = "ok" THEN "top" ELSE "end"
  /\ res' = "ok"
  /\ UNCHANGED <<slots, wi, ri, isFlushing, isEos, sendNewSegment, task, out, down, sourceVars,
                 userVars>>

LoopEnd ==
  /\ pc = "end"
  /\ task' = IF task = "started" /\ ~isFlushing THEN "paused" ELSE task
  /\ pc' = "top"
  /\ UNCHANGED <<elementVars, out, res, down, sourceVars, userVars>>

Loop == \/ LoopEnter \/ LoopAgain \/ LoopWait \/ LoopEos \/ LoopFlushed \/ LoopRead
        \/ LoopPush \/ LoopStore \/ LoopEnd
-----------------------------------------------------------------------------
(* java_source_loop in MODE_HLS                                            *)

SourceFlushing ==
  /\ spc = "push"
  /\ sres # "ok"
  /\ sgot' = sres
  /\ spc' = "store"
  /\ UNCHANGED <<elementVars, loopVars, down, sres, event, segment, block, sflush, userVars>>

(* The size of the next segment is asked for; there is none after the last.*)
NoMoreSegments ==
  /\ spc = "push" /\ sres = "ok" /\ event = "segment"
  /\ segment = Segments
  /\ event' = "eos"
  /\ UNCHANGED <<elementVars, loopVars, down, sres, segment, block, sflush, spc, sgot, userVars>>

(* The flush came while the next segment was opened: it is left out.       *)
SegmentInVain ==
  /\ spc = "push" /\ sres = "flushing" /\ event = "segment"
  /\ segment < Segments
  /\ segment' = segment + 1
  /\ spc' = "store"
  /\ UNCHANGED <<elementVars, loopVars, down, sres, event, block, sflush, sgot, userVars>>

(* The SEGMENT event: refused by flushing pads, dropped by a buffer whose  *)
(* result is not OK.                                                       *)
SendSegment ==
  /\ spc = "push" /\ sres = "ok" /\ event = "segment"
  /\ event' = "data" /\ block' = Start(segment)
  /\ sgot' = IF sflush THEN "flushing" ELSE "ok"
  /\ spc' = IF ~sflush /\ srcresult = "ok" THEN "segment" ELSE "store"
  /\ UNCHANGED <<elementVars, loopVars, down, sres, sflush, user, target, seeks, astray>>

PushSegment ==
  /\ segment < Segments
  /\ SendSegment
  /\ segment' = segment + 1 /\ UNCHANGED faults

(* A segment without content.                                              *)
PushEmptySegment == SendSegment /\ Fault /\ UNCHANGED segment

(* Without the lock: the first segment after an EOS restarts the loop; the *)
(* first one after a flush is announced downstream.  (On a pad already     *)
(* stopped gst_pad_start_task would make a second task; it is not followed.)*)
ClearEos ==
  /\ spc = "segment"
  /\ isEos' = FALSE
  /\ spc' = IF isEos THEN "restart" ELSE "announce"
  /\ UNCHANGED <<srcresult, slots, wi, ri, isFlushing, sendNewSegment, loopVars, down,
                 sres, event, segment, block, sflush, sgot, userVars>>

RestartResult ==
  /\ spc = "restart"
  /\ srcresult' = "ok"
  /\ spc' = "startTask"
  /\ UNCHANGED <<slots, wi, ri, isFlushing, isEos, sendNewSegment, loopVars, down,
                 sres, event, segment, block, sflush, sgot, userVars>>

RestartTask ==
  /\ spc = "startTask"
  /\ task' = IF task = "stopped" THEN task ELSE "started"
  /\ spc' = "announce"
  /\ UNCHANGED <<elementVars, pc, out, res, down, sres, event, segment, block, sflush, sgot, userVars>>

RefuseEmpty ==
  /\ spc = "announce"
  /\ block = Start(segment)
  /\ spc' = "store"
  /\ UNCHANGED <<elementVars, loopVars, down, sres, event, segment, block, sflush, sgot, userVars>>

AnnounceSegment ==
  /\ spc = "announce"
  /\ block # Start(segment)
  /\ sendNewSegment' = FALSE
  /\ down' = [down EXCEPT !.segment = down.segment \/ (sendNewSegment /\ ~down.flushing)]
  /\ sgot' = IF sendNewSegment /\ isFlushing /\ down.flushing THEN "flushing" ELSE sgot
  /\ spc' = "claim"
  /\ UNCHANGED <<srcresult, slots, wi, ri, isFlushing, isEos, loopVars, sres, event, segment, block,
                 sflush, userVars>>

Claimed(i) == [slots EXCEPT ![i] = [cache |-> cache_set_read_position(
                                                cache_set_write_position(@.cache, 0), 0),
                                    size |-> SegmentSize, ready |-> FALSE]]

\* Mutant: the file is taken from under the loop
ClaimAnyway ==
  /\ spc = "claim"
  /\ wi' = (wi + 1) % N
  /\ spc' = "store" /\ slots' = Claimed(wi')
  /\ UNCHANGED <<srcresult, ri, isFlushing, isEos, sendNewSegment, loopVars, down,
                 sres, event, segment, block, sflush, sgot, userVars>>

(* The next file of the ring is claimed if the loop is done with it; the   *)
(* result is looked at only by one that would wait.                        *)
ClaimSlot ==
  /\ spc = "claim"
  /\ wi' = (wi + 1) % N
  /\ IF srcresult = "ok" /\ ~slots[wi'].ready
     THEN spc' = "full" /\ UNCHANGED slots
     ELSE spc' = "store" /\ slots' = Claimed(wi')
  /\ UNCHANGED <<srcresult, ri, isFlushing, isEos, sendNewSegment, loopVars, down,
                 sres, event, segment, block, sflush, sgot, userVars>>

(* The lock was given up to tell the player that the ring is full; only    *)
(* then does the source wait on del_cond.                                  *)
WaitForSlot ==
  /\ spc \in {"full", "missed"}
  /\ spc' = IF spc = "full" THEN "waiting" ELSE "asleep"
  /\ UNCHANGED <<elementVars, loopVars, down, sres, event, segment, block, sflush, sgot, userVars>>

SlotSignalled ==
  /\ spc = "woken"
  /\ \/ srcresult # "ok" /\ spc' = "store" /\ sgot' = "ok" /\ UNCHANGED slots
     \/ srcresult = "ok" /\ ~slots[wi].ready /\ spc' = "full" /\ UNCHANGED <<slots, sgot>>
     \/ srcresult = "ok" /\ slots[wi].ready /\ spc' = "store" /\ slots' = Claimed(wi)
        /\ UNCHANGED sgot
  /\ UNCHANGED <<srcresult, wi, ri, isFlushing, isEos, sendNewSegment, loopVars, down,
                 sres, event, segment, block, sflush, userVars>>

(* A block is read and pushed: hls_progress_buffer_chain, first without    *)
(* its lock.                                                               *)
PushBlock ==
  /\ spc = "push" /\ sres = "ok" /\ event = "data"
  /\ block < Start(segment)
  /\ IF sflush \/ isFlushing \/ isEos
     THEN spc' = "store" /\ sgot' = "flushing" /\ block' = block + 1
     ELSE spc' = "chain" /\ UNCHANGED <<sgot, block>>
  /\ UNCHANGED <<elementVars, loopVars, down, sres, event, segment, sflush, userVars>>

ReadError ==
  /\ spc = "push" /\ sres = "ok" /\ event = "data"
  /\ Fault
  /\ sgot' = "flushing"
  /\ spc' = "store"
  /\ UNCHANGED <<elementVars, loopVars, down, sres, event, segment, block, sflush,
                 user, target, seeks, astray>>

(* The buffer would go into cache[-1], a part of del_cond that is 0.       *)
NoFile == spc = "chain" /\ srcresult # "flushing" /\ wi = None

\* Mutant: the loop is not signalled
StoreBlockQuietly ==
  /\ spc = "chain"
  /\ ~NoFile
  /\ slots' = IF srcresult = "flushing" THEN slots
              ELSE [slots EXCEPT ![wi].cache = cache_write_buffer(@, block)]
  /\ block' = block + 1
  /\ spc' = "store"
  /\ UNCHANGED <<srcresult, wi, ri, isFlushing, isEos, sendNewSegment, loopVars, down,
                 sres, event, segment, sflush, sgot, userVars>>

(* A failure is not a flush: the blocks after it are still stored.         *)
StoreBlock ==
  /\ spc = "chain"
  /\ ~NoFile
  /\ IF srcresult = "flushing"
     THEN UNCHANGED <<slots, pc>>
     ELSE /\ slots' = [slots EXCEPT ![wi].cache = cache_write_buffer(@, block)]
          /\ pc' = AddSignalled
  /\ block' = block + 1
  /\ spc' = "store"
  /\ UNCHANGED <<srcresult, wi, ri, isFlushing, isEos, sendNewSegment, task, out, res, down,
                 sres, event, segment, sflush, sgot, userVars>>

(* The process ends.                                                       *)
Crash ==
  /\ NoFile
  /\ spc' = "crashed" /\ pc' = "crashed" /\ user' = "crashed"
  /\ UNCHANGED <<elementVars, task, out, res, down, sres, event, segment, block, sflush, sgot,
                 target, seeks, faultVars>>

EndOfSegment ==
  /\ spc = "push" /\ sres = "ok" /\ event = "data"
  /\ block = Start(segment)
  /\ event' = "segment"
  /\ UNCHANGED <<elementVars, loopVars, down, sres, segment, block, sflush, spc, sgot, userVars>>

PushEos ==
  /\ spc = "push" /\ sres = "ok" /\ event = "eos"
  /\ IF sflush THEN UNCHANGED <<isEos, pc>> ELSE isEos' = TRUE /\ pc' = AddSignalled
  /\ sgot' = "eos"
  /\ spc' = "store"
  /\ UNCHANGED <<srcresult, slots, wi, ri, isFlushing, sendNewSegment, task, out, res, down,
                 sres, event, segment, block, sflush, userVars>>

SourceStore ==
  /\ spc = "store"
  /\ sres' = IF sres = "ok" \/ sgot # "ok" THEN sgot ELSE sres
  /\ spc' = IF sres' = "ok" THEN "push" ELSE "parked"
  /\ sgot' = "ok"
  /\ UNCHANGED <<elementVars, loopVars, down, event, segment, block, sflush, userVars>>

Source == \/ SourceFlushing \/ NoMoreSegments \/ SegmentInVain \/ PushSegment \/ PushEmptySegment
          \/ ClearEos \/ RestartResult \/ RestartTask \/ RefuseEmpty \/ AnnounceSegment
          \/ ClaimSlot \/ WaitForSlot \/ SlotSignalled
          \/ PushBlock \/ ReadError \/ StoreBlock \/ Crash
          \/ EndOfSegment \/ PushEos \/ SourceStore
-----------------------------------------------------------------------------
(* A seek on the player's thread: java_source_perform_seek sends the flush *)
(* events through hls_progress_buffer_sink_event.                          *)

SeekFlushStart ==
  /\ user = "idle"
  /\ seeks < MaxSeeks
  /\ seeks' = seeks + 1
  /\ target' \in 0..Segments-1
  /\ sflush' = TRUE /\ isFlushing' = TRUE
  /\ user' = "flushDown"
  /\ UNCHANGED <<srcresult, slots, wi, ri, isEos, sendNewSegment, loopVars, down,
                 sres, event, segment, block, spc, sgot, faultVars>>

SeekFlushDown ==
  /\ user = "flushDown"
  /\ down' = [down EXCEPT !.flushing = TRUE]
  /\ user' = "flushData"
  /\ UNCHANGED <<elementVars, loopVars, sourceVars, target, seeks, faultVars>>

\* Mutant: the source is not signalled
FlushDataQuietly ==
  /\ srcresult' = "flushing"
  /\ pc' = AddSignalled
  /\ wi' = None /\ ri' = 0
  /\ slots' = [i \in Slots |->
                 [cache |-> cache_set_read_position(cache_set_write_position(slots[i].cache, 0), 0),
                  size |-> 0, ready |-> TRUE]]
  /\ UNCHANGED <<isFlushing, isEos, sendNewSegment, out, res, down,
                 sres, event, segment, block, sflush, spc, sgot, target, seeks, faultVars>>

\* Mutant: the result is left alone
FlushOnlyFiles ==
  /\ pc' = AddSignalled
  /\ spc' = DelSignalled
  /\ wi' = None /\ ri' = 0
  /\ slots' = [i \in Slots |->
                 [cache |-> cache_set_read_position(cache_set_write_position(slots[i].cache, 0), 0),
                  size |-> 0, ready |-> TRUE]]
  /\ UNCHANGED <<srcresult, isFlushing, isEos, sendNewSegment, out, res, down,
                 sres, event, segment, block, sflush, sgot, target, seeks, faultVars>>

(* hls_progress_buffer_flush_data                                          *)
FlushData ==
  /\ srcresult' = "flushing"
  /\ pc' = AddSignalled
  /\ spc' = DelSignalled
  /\ wi' = None /\ ri' = 0
  /\ slots' = [i \in Slots |->
                 [cache |-> cache_set_read_position(cache_set_write_position(slots[i].cache, 0), 0),
                  size |-> 0, ready |-> TRUE]]
  /\ UNCHANGED <<isFlushing, isEos, sendNewSegment, out, res, down,
                 sres, event, segment, block, sflush, sgot, target, seeks, faultVars>>

SeekFlushData == user = "flushData" /\ user' = "pauseTask" /\ FlushData /\ UNCHANGED task

SeekPauseTask ==
  /\ user = "pauseTask"
  /\ task' = "paused"
  /\ user' = "awaitLoop"
  /\ UNCHANGED <<elementVars, pc, out, res, down, sourceVars, target, seeks, faultVars>>

(* The stream lock of the buffer's pad, and then the source's result.      *)
SeekLoopPaused ==
  /\ user = "awaitLoop"
  /\ ~LoopStreams
  /\ sres' = "flushing"
  /\ user' = "awaitSource"
  /\ UNCHANGED <<elementVars, loopVars, down, event, segment, block, sflush, spc, sgot,
                 target, seeks, faultVars>>

(* The playlist goes to a segment, or refuses the position.               *)
SeekData ==
  \/ event' = "segment" /\ segment' = target /\ astray' = FALSE /\ UNCHANGED faults
  \/ Fault /\ astray' = TRUE /\ UNCHANGED <<event, segment>>

(* With the stream lock of the source: seek, end the flush, start again.   *)
SeekFlushStop ==
  /\ user = "awaitSource"
  /\ spc = "parked"
  /\ SeekData
  /\ sres' = "ok" /\ sflush' = FALSE /\ spc' = "push"
  /\ down' = [flushing |-> FALSE, segment |-> FALSE, next |-> Start(segment'),
              ended |-> FALSE]
  /\ sendNewSegment' = TRUE /\ isFlushing' = FALSE /\ srcresult' = "ok"
  /\ task' = IF isEos THEN task ELSE "started"
  /\ user' = "idle" /\ target' = 0
  /\ UNCHANGED <<slots, wi, ri, isEos, pc, out, res, block, sgot, seeks>>
-----------------------------------------------------------------------------
(* Disposal: change_state flushes, and then the pads are deactivated, the  *)
(* source pad first; last the source is.                                   *)

DisposeFlush ==
  /\ user = "idle"
  /\ down' = [down EXCEPT !.flushing = TRUE]
  /\ user' = "disposeFlush"
  /\ UNCHANGED <<elementVars, loopVars, sourceVars, target, seeks, faultVars>>

DisposeFlushData == user = "disposeFlush" /\ user' = "deactivate" /\ FlushData /\ UNCHANGED task

DisposeDeactivate ==
  /\ user = "deactivate"
  /\ srcresult' = "flushing"
  /\ pc' = AddSignalled
  /\ spc' = DelSignalled
  /\ user' = "stopTask"
  /\ UNCHANGED <<slots, wi, ri, isFlushing, isEos, sendNewSegment, task, out, res, down,
                 sres, event, segment, block, sflush, sgot, target, seeks, faultVars>>

DisposeStopTask ==
  /\ user = "stopTask"
  /\ task' = "stopped"
  /\ user' = "join"
  /\ UNCHANGED <<elementVars, pc, out, res, down, sourceVars, target, seeks, faultVars>>

DisposeJoined ==
  /\ user = "join"
  /\ pc = "done"
  /\ sflush' = TRUE
  /\ user' = "sinkPad"
  /\ UNCHANGED <<elementVars, loopVars, down, sres, event, segment, block, spc, sgot, target, seeks, faultVars>>

(* The stream lock of the sink pad, which the source holds in a push.      *)
DisposeSource ==
  /\ user = "sinkPad"
  /\ spc \notin {"segment", "restart", "startTask", "announce", "claim", "full", "missed",
                 "waiting", "asleep", "woken", "chain"}
  /\ sres' = "flushing"
  /\ user' = "joinSource"
  /\ UNCHANGED <<elementVars, loopVars, down, event, segment, block, sflush, spc, sgot, target, seeks, faultVars>>

Disposed ==
  /\ user = "joinSource"
  /\ spc = "parked"
  /\ user' = "disposed"
  /\ UNCHANGED <<elementVars, loopVars, down, sourceVars, target, seeks, faultVars>>

PlayerStep == \/ SeekFlushDown \/ SeekFlushData \/ SeekPauseTask \/ SeekLoopPaused \/ SeekFlushStop
              \/ DisposeFlushData \/ DisposeDeactivate \/ DisposeStopTask \/ DisposeJoined
              \/ DisposeSource \/ Disposed

Next == Loop \/ Source \/ PlayerStep \/ SeekFlushStart \/ DisposeFlush

(* As for the progress buffer: threads run, downstream takes what it is    *)
(* given, the connection delivers; the player need not call anything.      *)
Spec == /\ Init /\ [][Next]_vars
        /\ WF_vars(Loop) /\ WF_vars(Source) /\ WF_vars(PlayerStep)
-----------------------------------------------------------------------------
TypeOK ==
  /\ srcresult \in {"ok", "flushing", "failed"}
  /\ slots \in [Slots -> [cache : Cache(Blocks), size : {0, SegmentSize}, ready : BOOLEAN]]
  /\ wi \in Slots \cup {None} /\ ri \in Slots
  /\ isFlushing \in BOOLEAN /\ isEos \in BOOLEAN /\ sendNewSegment \in BOOLEAN
  /\ task \in {"started", "paused", "stopped"}
  /\ pc \in {"parked", "check", "waiting", "push", "store", "end", "top", "done", "crashed"}
  /\ out \in Blocks \cup {None} /\ res \in {"ok", "flushing", "failed"}
  /\ down \in [flushing : BOOLEAN, segment : BOOLEAN, next : 0..Last, ended : BOOLEAN]
  /\ sres \in {"ok", "eos", "flushing"} /\ event \in {"segment", "data", "eos"}
  /\ segment \in 0..Segments /\ block \in 0..Last
  /\ sflush \in BOOLEAN
  /\ spc \in {"push", "segment", "restart", "startTask", "announce", "claim", "full", "missed",
              "waiting", "asleep", "woken", "chain", "store", "parked", "crashed"}
  /\ sgot \in {"ok", "eos", "flushing"}
  /\ user \in {"idle", "flushDown", "flushData", "pauseTask", "awaitLoop", "awaitSource",
               "disposeFlush", "deactivate", "stopTask", "join", "sinkPad", "joinSource", "disposed",
               "crashed"}
  /\ target \in 0..Segments-1 /\ seeks \in 0..MaxSeeks
  /\ faults \in 0..MaxFaults /\ astray \in BOOLEAN

(* What is pushed downstream is the stream from its start, or from where   *)
(* the last seek went, block after block: a file of the ring is never      *)
(* rewound before it is read, read before it is written, or read twice     *)
(* (hls_progress_buffer_loop, hls_progress_buffer_sink_event).  After a    *)
(* flush no buffer comes before a segment (send_new_segment).  It holds    *)
(* whatever fails, but for a seek.                                         *)
InOrder == pc = "push" /\ ~down.flushing /\ ~astray => down.segment /\ out = down.next

(* hls_progress_buffer_chain uses the index -1 in two cases only: when a   *)
(* push that fails overwrites the result of a flush, and when a seek fails *)
(* in the middle of a segment, so that the source goes on without a claim. *)
FileClaimed == NoFile => astray \/ (srcresult = "failed" /\ down.flushing)

Undisturbed == seeks = 0 /\ user = "idle"

(* As long as nobody seeks or disposes, EOS comes after the last block, in *)
(* whatever order the loop, the end of the stream, a full ring and         *)
(* failures meet.                                                          *)
EosAfterData == Undisturbed /\ down.ended => down.next = Last

(* A signal of del_cond came while the source told the player that the     *)
(* ring is full, between the test and g_cond_wait: the source sleeps       *)
(* although its file is free or the pad is flushing.                       *)
SignalLost == spc = "asleep" /\ (srcresult # "ok" \/ slots[wi].ready)

(* A push downstream or a read of the source has failed.                   *)
Failed == srcresult = "failed" \/ sres = "flushing"

(* Undisturbed, the whole stream and then EOS reach downstream, past empty *)
(* segments too, unless a signal of del_cond is lost.                      *)
AllDelivered == <>(~Undisturbed \/ (down.ended /\ down.next = Last) \/ SignalLost \/ Failed)

(* In the middle of a flush the first segment event after an EOS sets the  *)
(* result to OK, or starts the task that the flush has paused: the loop    *)
(* waits again, or spins, and the flush waits for the loop.                *)
FlushUndone ==
  \/ /\ user \in {"pauseTask", "awaitLoop", "awaitSource", "deactivate", "stopTask", "join", "sinkPad"}
     /\ srcresult = "ok"
  \/ user = "awaitLoop" /\ task = "started"

(* A seek or disposal comes to its end, unless one of these befalls it: a  *)
(* signal is lost, the flush is undone, the process crashes.               *)
FlushEnds == user \in {"flushDown", "disposeFlush"}
               ~> user \in {"idle", "disposed", "crashed"} \/ SignalLost \/ FlushUndone
=============================================================================
