-------------------------- MODULE JavaSourceProofs --------------------------
(***************************************************************************)
(* The data that the progress buffer hands downstream is the data of the   *)
(* media, for every size, every number of seeks, every tolerance and every *)
(* answer of downstream, and it is handed over in sequence, as long as the *)
(* server answers seeks or the flush of a seek that it refuses loses no    *)
(* push of the source (Harmless).  Whatever the server does, the loop      *)
(* never sleeps over a flush or an event and never pushes an EOS before    *)
(* the last buffer.                                                        *)
(***************************************************************************)
EXTENDS JavaSource, SequenceTheorems, TLAPS

(* The player and the loop never hold the stream lock of the pad together. *)
Exclusive == ~(UserStreams /\ LoopStreams)

(* The file is the media from offset on.                                   *)
FileIsMedia == \A p \in 0..cache.write-1 : cache.file[p + 1] = p + offset

(* The source is about to push a block, or has pushed one that was taken.  *)
Streaming == event = "data" /\ (spc = "push" \/ (spc = "store" /\ sgot = "ok"))

(* What the source pushes next goes to the end of the file.                *)
SourceInStep == Streaming => position = cache.write + offset

(* Until the first seek the file begins at 0, as does the first segment.   *)
FirstSegment == update => offset = 0 /\ (event \in {"streamStart", "segment"} => position = 0)

IInv == TypeOK /\ Exclusive /\ FileIsMedia /\ SourceInStep /\ FirstSegment /\ DataIntact

Closing == {"stopSource", "joinSource", "disposed"}

(* A server that refuses seeks sends the media once, from its start: the   *)
(* source is in step with the file even while it is parked, and it does    *)
(* not push into the flush of a seek.                                      *)
Unbroken ==
  /\ ranges \/ ~RefusalLoses
  /\ ~ranges => update
  /\ sflush => user \in {"sourceFlush", "sourceLock"} \cup Closing
  /\ user = "sourceLock" => sres # "ok"
  /\ ~ranges /\ user \notin Closing =>
       /\ event # "eos" => ~eos
       /\ event = "data" => position = cache.write + offset /\ Size <= seg.stop

-----------------------------------------------------------------------------
(* What the operations of the backing file (filecache.c) do to its         *)
(* positions and its content.                                              *)

LEMMA CreateCache ==
  ASSUME NEW B
  PROVE  create_cache \in Cache(B) /\ create_cache.write = 0
  BY DEF Cache, create_cache

(* A write appends or overwrites one block and leaves the ones before it.  *)
LEMMA WriteBuffer ==
  ASSUME NEW B, NEW c \in Cache(B), NEW b \in B
  PROVE  /\ cache_write_buffer(c, b) \in Cache(B)
         /\ cache_write_buffer(c, b).write = c.write + 1
         /\ cache_write_buffer(c, b).file[c.write + 1] = b
         /\ \A q \in 0..c.write-1 : cache_write_buffer(c, b).file[q + 1] = c.file[q + 1]
  <1> DEFINE w == c.write
             f == c.file
             g == IF w < Len(f) THEN [f EXCEPT ![w + 1] = b] ELSE Append(f, b)
  <1>1. c \in [read : Nat, write : Nat, file : Seq(B)] /\ c.write <= Len(c.file)
    BY DEF Cache
  <1>2. w \in Nat /\ f \in Seq(B) /\ w <= Len(f)
    BY <1>1
  <1>3. cache_write_buffer(c, b) = [c EXCEPT !.write = w + 1, !.file = g]
    BY Zenon DEF cache_write_buffer
  <1> HIDE DEF g
  <1>4. cache_write_buffer(c, b) = [read |-> c.read, write |-> w + 1, file |-> g]
    BY <1>1, <1>3
  <1> HIDE DEF w, f
  <1>5. /\ g \in Seq(B) /\ w + 1 <= Len(g) /\ g[w + 1] = b
        /\ \A q \in 0..w-1 : g[q + 1] = f[q + 1]
    <2>1. CASE w < Len(f)
      <3>1. [f EXCEPT ![w + 1] = b] \in Seq(B) /\ Len([f EXCEPT ![w + 1] = b]) = Len(f)
        BY <1>2, <2>1, ExceptSeq
      <3> QED BY <1>2, <2>1, <3>1 DEF g
    <2>2. CASE ~(w < Len(f))
      BY <1>2, <2>2 DEF g
    <2> QED BY <2>1, <2>2
  <1> QED BY <1>1, <1>2, <1>4, <1>5 DEF Cache, w, f

(* The positions move without touching the file.                           *)
LEMMA SetPositions ==
  ASSUME NEW B, NEW c \in Cache(B)
  PROVE  /\ \A p \in Int : /\ cache_set_read_position(c, p) \in Cache(B)
                           /\ cache_set_read_position(c, p).write = c.write
                           /\ cache_set_read_position(c, p).file = c.file
         /\ cache_set_write_position(c, 0) \in Cache(B)
         /\ cache_set_write_position(c, 0).write = 0
  BY DEF Cache, cache_set_read_position, cache_set_write_position

(* A read that finds data returns what the file holds at the read position.*)
LEMMA ReadBuffer ==
  ASSUME NEW B, NEW c \in Cache(B)
  PROVE  /\ cache_read_buffer(c) \in Cache(B)
         /\ cache_read_buffer(c).write = c.write
         /\ cache_read_buffer(c).file = c.file
         /\ c.read \in Nat /\ c.write \in Nat
         /\ cache_has_enough_data(c) => BlockRead(c) \in B /\ c.read \in 0..c.write-1
  BY DEF Cache, cache_read_buffer, cache_has_enough_data, BlockRead

(* What the operations of the file cache do to the read position.          *)
LEMMA ReadPosition ==
  ASSUME NEW B, NEW c \in Cache(B)
  PROVE  /\ c.read \in Nat
         /\ cache_read_buffer(c).read = c.read + 1
         /\ \A p \in Nat : cache_set_read_position(c, p).read = p
         /\ \A b : cache_write_buffer(c, b).read = c.read
         /\ create_cache.read = 0
  BY DEF Cache, cache_read_buffer, cache_set_read_position, cache_write_buffer, create_cache
-----------------------------------------------------------------------------
USE BufferAssumption, SourceAssumption

(* The invariant holds initially.                                          *)
LEMMA InitInv == Init => IInv
  <1> SUFFICES ASSUME Init PROVE IInv
    OBVIOUS
  <1>1. cache \in Cache(Blocks) /\ cache.write = 0
    BY Zenon, CreateCache DEF Init, BufferInit
  <1>0. seg \in [start : Offsets, position : Offsets, stop : 0..NoStop]
    BY DEF Init, BufferInit, Offsets, NoStop
  <1>2. TypeOK
    <2>1. /\ eos \in BOOLEAN /\ unexpected \in BOOLEAN /\ instant \in BOOLEAN /\ skip \in BOOLEAN
          /\ update \in BOOLEAN /\ sflush \in BOOLEAN /\ ranges \in BOOLEAN
      BY Zenon DEF Init, BufferInit
    <2>2. /\ out \in [offset : Offsets \cup {None}, block : Blocks \cup {None}]
          /\ down \in [flushing : BOOLEAN, next : Offsets \cup {None}, ended : BOOLEAN]
          /\ pending \in Events
      BY DEF Init, BufferInit, NoBuffer, None, Events
    <2>3. offset \in Offsets /\ position \in Offsets /\ target \in Blocks /\ seeks \in 0..MaxSeeks
      BY DEF Init, BufferInit, Offsets, Blocks
    <2> QED BY <1>0, <1>1, <2>1, <2>2, <2>3 DEF Init, BufferInit, TypeOK
  <1>3. Exclusive /\ FileIsMedia /\ SourceInStep /\ FirstSegment /\ DataIntact
    BY <1>1 DEF Init, BufferInit, Exclusive, FileIsMedia, SourceInStep, Streaming,
                FirstSegment, DataIntact, UserStreams, LoopStreams
  <1> QED BY <1>2, <1>3 DEF IInv

(* The server answers every seek that the source attempts, or no push of   *)
(* the source falls into the flush of one that it refuses: else the block  *)
(* is lost though the source has counted it, and the file is shifted.      *)
Harmless == SeekAnswers \subseteq {TRUE} \/ ~RefusalLoses

LEMMA InitUnbroken == Harmless /\ Init => Unbroken
  BY DEF Harmless, Init, BufferInit, Unbroken, Closing

(* Every step preserves it, one action at a time.                          *)
LEMMA StepInv ==
  ASSUME IInv, Unbroken, [Next]_vars
  PROVE  IInv'
  <1> USE DEF IInv, Offsets, Blocks, None, NoStop, NoBuffer
  <1>1. CASE LoopEnter /\ UNCHANGED sourceVars
    <2>1. skip' \in BOOLEAN /\ pc' \in {"check", "done"}
      BY <1>1 DEF LoopEnter, TypeOK
    <2>2. TypeOK'
      BY <1>1, <2>1 DEF LoopEnter, TypeOK, bufferVars, elementVars, loopVars, userVars, sourceVars
    <2>3. Exclusive'
      BY <1>1 DEF LoopEnter, Exclusive, UserStreams, LoopStreams, TypeOK, bufferVars, elementVars,
         loopVars, userVars, sourceVars
    <2>4. FileIsMedia' /\ SourceInStep' /\ FirstSegment' /\ DataIntact'
      BY <1>1 DEF LoopEnter, FileIsMedia, SourceInStep, Streaming, FirstSegment, DataIntact,
         TypeOK, bufferVars, elementVars, loopVars, userVars, sourceVars
    <2> QED BY <2>2, <2>3, <2>4
  <1>2. CASE LoopAgain /\ UNCHANGED sourceVars
    <2>1. skip' \in BOOLEAN /\ pc' \in {"check", "parked", "done"}
      BY <1>2 DEF LoopAgain, TypeOK
    <2>2. TypeOK'
      BY <1>2, <2>1 DEF LoopAgain, TypeOK, bufferVars, elementVars, loopVars, userVars, sourceVars
    <2>3. Exclusive'
      BY <1>2 DEF LoopAgain, Exclusive, UserStreams, LoopStreams, TypeOK, bufferVars, elementVars,
         loopVars, userVars, sourceVars
    <2>4. FileIsMedia' /\ SourceInStep' /\ FirstSegment' /\ DataIntact'
      BY <1>2 DEF LoopAgain, FileIsMedia, SourceInStep, Streaming, FirstSegment, DataIntact,
         TypeOK, bufferVars, elementVars, loopVars, userVars, sourceVars
    <2> QED BY <2>2, <2>3, <2>4
  <1>3. CASE LoopWait /\ UNCHANGED sourceVars
    <2>1. TypeOK'
      BY <1>3 DEF LoopWait, AtCheck, TypeOK, bufferVars, elementVars, loopVars,
         userVars, sourceVars
    <2>2. Exclusive' /\ FirstSegment' /\ DataIntact'
      BY <1>3 DEF LoopWait, AtCheck, Exclusive, UserStreams, LoopStreams, FirstSegment,
         DataIntact, bufferVars, elementVars, loopVars, userVars, sourceVars
    <2>3. FileIsMedia' /\ SourceInStep'
      BY <1>3 DEF LoopWait, AtCheck, FileIsMedia, SourceInStep, Streaming, bufferVars,
         elementVars, loopVars, userVars, sourceVars
    <2> QED BY <2>1, <2>2, <2>3
  <1>4. CASE LoopFlushed /\ UNCHANGED sourceVars
    <2>1. TypeOK'
      BY <1>4 DEF LoopFlushed, AtCheck, TypeOK, bufferVars, elementVars, loopVars,
         userVars, sourceVars
    <2>2. Exclusive' /\ FirstSegment' /\ DataIntact'
      BY <1>4 DEF LoopFlushed, AtCheck, Exclusive, UserStreams, LoopStreams,
         FirstSegment, DataIntact, bufferVars, elementVars, loopVars, userVars,
         sourceVars
    <2>3. FileIsMedia' /\ SourceInStep'
      BY <1>4 DEF LoopFlushed, AtCheck, FileIsMedia, SourceInStep, Streaming,
         bufferVars, elementVars, loopVars, userVars, sourceVars
    <2> QED BY <2>1, <2>2, <2>3
  <1>5. CASE LoopTakeEvent /\ UNCHANGED sourceVars
    <2>1. TypeOK'
      BY <1>5 DEF LoopTakeEvent, Events, NoEvent, EosEvent, Segment, AtCheck, TypeOK,
         bufferVars, elementVars, loopVars, userVars, sourceVars
    <2>2. Exclusive' /\ FirstSegment' /\ DataIntact'
      BY <1>5 DEF LoopTakeEvent, Events, NoEvent, EosEvent, Segment, AtCheck, Exclusive,
         UserStreams, LoopStreams, FirstSegment, DataIntact, bufferVars, elementVars,
         loopVars, userVars, sourceVars
    <2>3. FileIsMedia' /\ SourceInStep'
      BY <1>5 DEF LoopTakeEvent, Events, NoEvent, EosEvent, Segment, AtCheck,
         FileIsMedia, SourceInStep, Streaming, bufferVars, elementVars, loopVars,
         userVars, sourceVars
    <2> QED BY <2>1, <2>2, <2>3
  <1>6. CASE LoopRead /\ UNCHANGED sourceVars
    <2>1. /\ cache.read \in 0..cache.write-1 /\ cache.write \in Nat
          /\ BlockRead(cache) \in Blocks
          /\ cache' \in Cache(Blocks) /\ cache'.write = cache.write /\ cache'.file = cache.file
      BY <1>6, ReadBuffer DEF LoopRead, TypeOK
    <2>2. BlockRead(cache) = cache.read + offset
      BY <2>1 DEF FileIsMedia, BlockRead
    <2>3. out' \in [offset : Offsets \cup {None}, block : Blocks \cup {None}] /\ out'.block = out'.offset
      BY <1>6, <2>1, <2>2 DEF LoopRead, TypeOK
    <2>4. pending' \in Events
      BY <1>6 DEF LoopRead, Events
    <2>5. TypeOK'
      BY <1>6, <2>1, <2>3, <2>4 DEF LoopRead, AtCheck, TypeOK, bufferVars, elementVars, loopVars,
         userVars, sourceVars
    <2>6. Exclusive' /\ FirstSegment' /\ DataIntact'
      BY <1>6, <2>3 DEF LoopRead, AtCheck, Exclusive, UserStreams, LoopStreams, FirstSegment,
         DataIntact, bufferVars, elementVars, loopVars, userVars, sourceVars
    <2>7. FileIsMedia' /\ SourceInStep'
      BY <1>6, <2>1 DEF LoopRead, FileIsMedia, SourceInStep, Streaming, bufferVars, elementVars,
         loopVars, userVars, sourceVars
    <2> QED BY <2>5, <2>6, <2>7
  <1>7. CASE LoopPushBuffer /\ UNCHANGED sourceVars
    <2>1. TypeOK'
      <3>1. out.offset + 1 \in Offsets
        BY SMTT(40), <1>7 DEF LoopPushBuffer, TypeOK, DataIntact
      <3>2. down' \in [flushing : BOOLEAN, next : Offsets \cup {None}, ended : BOOLEAN]
        BY SMTT(40), <1>7, <3>1 DEF LoopPushBuffer, TypeOK
      <3> QED
        BY <1>7, <3>2 DEF LoopPushBuffer, TypeOK, bufferVars, elementVars, loopVars, userVars,
           sourceVars
    <2>2. Exclusive' /\ FirstSegment' /\ DataIntact'
      BY <1>7 DEF LoopPushBuffer, Exclusive, UserStreams, LoopStreams, FirstSegment,
         DataIntact, bufferVars, elementVars, loopVars, userVars, sourceVars
    <2>3. FileIsMedia' /\ SourceInStep'
      BY <1>7 DEF LoopPushBuffer, FileIsMedia, SourceInStep, Streaming, bufferVars,
         elementVars, loopVars, userVars, sourceVars
    <2> QED BY <2>1, <2>2, <2>3
  <1>8. CASE LoopStore /\ UNCHANGED sourceVars
    <2>1. TypeOK'
      BY <1>8 DEF LoopStore, TypeOK, bufferVars, elementVars, loopVars, userVars,
         sourceVars
    <2>2. Exclusive' /\ FirstSegment' /\ DataIntact'
      BY <1>8 DEF LoopStore, Exclusive, UserStreams, LoopStreams, FirstSegment,
         DataIntact, bufferVars, elementVars, loopVars, userVars, sourceVars
    <2>3. FileIsMedia' /\ SourceInStep'
      BY <1>8 DEF LoopStore, FileIsMedia, SourceInStep, Streaming, bufferVars,
         elementVars, loopVars, userVars, sourceVars
    <2> QED BY <2>1, <2>2, <2>3
  <1>9. CASE LoopPushEvent /\ UNCHANGED sourceVars
    <2>1. down' \in [flushing : BOOLEAN, next : Offsets \cup {None}, ended : BOOLEAN]
      BY ZenonT(60), <1>9 DEF LoopPushEvent, TypeOK
    <2>2. TypeOK'
      BY <1>9, <2>1 DEF LoopPushEvent, TypeOK, bufferVars, elementVars, loopVars, userVars,
         sourceVars
    <2>3. Exclusive'
      BY <1>9 DEF LoopPushEvent, Exclusive, UserStreams, LoopStreams, TypeOK, bufferVars,
         elementVars, loopVars, userVars, sourceVars
    <2>4. FileIsMedia' /\ SourceInStep' /\ FirstSegment' /\ DataIntact'
      BY <1>9 DEF LoopPushEvent, FileIsMedia, SourceInStep, Streaming, FirstSegment, DataIntact,
         TypeOK, bufferVars, elementVars, loopVars, userVars, sourceVars
    <2> QED BY <2>2, <2>3, <2>4
  <1>10. CASE LoopPause /\ UNCHANGED sourceVars
    <2>1. TypeOK'
      BY <1>10 DEF LoopPause, TypeOK, bufferVars, elementVars, loopVars, userVars,
         sourceVars
    <2>2. Exclusive' /\ FirstSegment' /\ DataIntact'
      BY <1>10 DEF LoopPause, Exclusive, UserStreams, LoopStreams, FirstSegment,
         DataIntact, bufferVars, elementVars, loopVars, userVars, sourceVars
    <2>3. FileIsMedia' /\ SourceInStep'
      BY <1>10 DEF LoopPause, FileIsMedia, SourceInStep, Streaming, bufferVars,
         elementVars, loopVars, userVars, sourceVars
    <2> QED BY <2>1, <2>2, <2>3
  <1>11. CASE SeekSignal /\ UNCHANGED sourceVars
    <2>1. TypeOK'
      BY <1>11 DEF SeekSignal, StopLoop, Signalled, TypeOK, bufferVars, elementVars,
         loopVars, userVars, sourceVars
    <2>2. Exclusive' /\ FirstSegment' /\ DataIntact'
      BY <1>11 DEF SeekSignal, StopLoop, Signalled, Exclusive, UserStreams, LoopStreams,
         FirstSegment, DataIntact, bufferVars, elementVars, loopVars, userVars,
         sourceVars
    <2>3. FileIsMedia' /\ SourceInStep'
      BY <1>11 DEF SeekSignal, StopLoop, Signalled, FileIsMedia, SourceInStep,
         Streaming, bufferVars, elementVars, loopVars, userVars, sourceVars
    <2> QED BY <2>1, <2>2, <2>3
  <1>12. CASE SeekLocked /\ UNCHANGED sourceVars
    <2>1. cache' \in Cache(Blocks) /\ cache'.write = cache.write /\ cache'.file = cache.file
      <3>1. target - offset \in Int /\ cache \in Cache(Blocks)
        BY DEF TypeOK
      <3>2. /\ cache_set_read_position(cache, target - offset) \in Cache(Blocks)
            /\ cache_set_read_position(cache, target - offset).write = cache.write
            /\ cache_set_read_position(cache, target - offset).file = cache.file
        BY <3>1, SetPositions
      <3> QED BY <1>12, <3>1, <3>2 DEF SeekLocked, ReadFrom
    <2>2. pending' \in Events
      BY <1>12 DEF SeekLocked, ReadFrom, Events, TypeOK
    <2>3. /\ srcresult' = "ok" /\ instant' \in BOOLEAN /\ eos' \in BOOLEAN
          /\ user' \in {"finish", "sourceSeek"}
          /\ UNCHANGED <<offset, seg, unexpected, loopVars, down, target, seeks>>
      BY <1>12 DEF SeekLocked, ReadFrom, TypeOK
    <2>6. TypeOK'
      BY <1>12, <2>1, <2>2, <2>3 DEF TypeOK, loopVars, sourceVars
    <2>4. Exclusive' /\ FirstSegment' /\ DataIntact'
      BY <1>12 DEF SeekLocked, Exclusive, UserStreams, LoopStreams, FirstSegment, DataIntact,
         bufferVars, elementVars, loopVars, userVars, sourceVars
    <2>5. FileIsMedia' /\ SourceInStep'
      BY <1>12, <2>1 DEF SeekLocked, FileIsMedia, SourceInStep, Streaming, bufferVars,
         elementVars, loopVars, userVars, sourceVars
    <2> QED BY <2>4, <2>5, <2>6
  <1>13. CASE SeekRefused /\ UNCHANGED sourceVars
    <2>1. cache' \in Cache(Blocks) /\ cache'.write = cache.write /\ cache'.file = cache.file
      <3>1. target - offset \in Int /\ cache \in Cache(Blocks)
        BY DEF TypeOK
      <3>2. /\ cache_set_read_position(cache, target - offset) \in Cache(Blocks)
            /\ cache_set_read_position(cache, target - offset).write = cache.write
            /\ cache_set_read_position(cache, target - offset).file = cache.file
        BY <3>1, SetPositions
      <3> QED BY <1>13, <3>1, <3>2 DEF SeekRefused, ReadFrom
    <2>2. pending' \in Events
      BY <1>13 DEF SeekRefused, ReadFrom, Events, TypeOK
    <2>3. TypeOK'
      BY <1>13, <2>1, <2>2 DEF SeekRefused, ReadFrom, TypeOK, bufferVars, elementVars, loopVars,
         userVars, sourceVars
    <2>4. Exclusive' /\ FirstSegment' /\ DataIntact'
      BY <1>13 DEF SeekRefused, Exclusive, UserStreams, LoopStreams, FirstSegment, DataIntact,
         bufferVars, elementVars, loopVars, userVars, sourceVars
    <2>5. FileIsMedia' /\ SourceInStep'
      BY <1>13, <2>1 DEF SeekRefused, FileIsMedia, SourceInStep, Streaming, bufferVars,
         elementVars, loopVars, userVars, sourceVars
    <2> QED BY <2>3, <2>4, <2>5
  <1>14. CASE SeekFinish /\ UNCHANGED sourceVars
    <2>1. TypeOK'
      BY <1>14 DEF SeekFinish, TypeOK, bufferVars, elementVars, loopVars, userVars,
         sourceVars
    <2>2. Exclusive' /\ FirstSegment' /\ DataIntact'
      BY <1>14 DEF SeekFinish, Exclusive, UserStreams, LoopStreams, FirstSegment,
         DataIntact, bufferVars, elementVars, loopVars, userVars, sourceVars
    <2>3. FileIsMedia' /\ SourceInStep'
      BY <1>14 DEF SeekFinish, FileIsMedia, SourceInStep, Streaming, bufferVars,
         elementVars, loopVars, userVars, sourceVars
    <2> QED BY <2>1, <2>2, <2>3
  <1>15. CASE DisposeSignal /\ UNCHANGED sourceVars
    <2>1. TypeOK'
      BY <1>15 DEF DisposeSignal, StopLoop, Signalled, TypeOK, bufferVars, elementVars,
         loopVars, userVars, sourceVars
    <2>2. Exclusive' /\ FirstSegment' /\ DataIntact'
      BY <1>15 DEF DisposeSignal, StopLoop, Signalled, Exclusive, UserStreams,
         LoopStreams, FirstSegment, DataIntact, bufferVars, elementVars, loopVars,
         userVars, sourceVars
    <2>3. FileIsMedia' /\ SourceInStep'
      BY <1>15 DEF DisposeSignal, StopLoop, Signalled, FileIsMedia, SourceInStep,
         Streaming, bufferVars, elementVars, loopVars, userVars, sourceVars
    <2> QED BY <2>1, <2>2, <2>3
  <1>16. CASE DisposeStopTask /\ UNCHANGED sourceVars
    <2>1. TypeOK'
      BY <1>16 DEF DisposeStopTask, TypeOK, bufferVars, elementVars, loopVars, userVars,
         sourceVars
    <2>2. Exclusive' /\ FirstSegment' /\ DataIntact'
      BY <1>16 DEF DisposeStopTask, Exclusive, UserStreams, LoopStreams, FirstSegment,
         DataIntact, bufferVars, elementVars, loopVars, userVars, sourceVars
    <2>3. FileIsMedia' /\ SourceInStep'
      BY <1>16 DEF DisposeStopTask, FileIsMedia, SourceInStep, Streaming, bufferVars,
         elementVars, loopVars, userVars, sourceVars
    <2> QED BY <2>1, <2>2, <2>3
  <1>17. CASE SeekFlushStart /\ UNCHANGED sourceVars
    <2>1. down' \in [flushing : BOOLEAN, next : Offsets \cup {None}, ended : BOOLEAN]
      BY <1>17 DEF SeekFlushStart, TypeOK
    <2>2. TypeOK'
      BY SMTT(40), <1>17, <2>1 DEF SeekFlushStart, TypeOK, bufferVars, elementVars, loopVars, userVars,
         sourceVars
    <2>3. Exclusive'
      BY <1>17 DEF SeekFlushStart, Exclusive, UserStreams, LoopStreams, TypeOK, bufferVars,
         elementVars, loopVars, userVars, sourceVars
    <2>4. FileIsMedia' /\ SourceInStep' /\ FirstSegment' /\ DataIntact'
      BY <1>17 DEF SeekFlushStart, FileIsMedia, SourceInStep, Streaming, FirstSegment, DataIntact,
         TypeOK, bufferVars, elementVars, loopVars, userVars, sourceVars
    <2> QED BY <2>2, <2>3, <2>4
  <1>18. CASE DisposeFlush /\ UNCHANGED sourceVars
    <2>1. down' \in [flushing : BOOLEAN, next : Offsets \cup {None}, ended : BOOLEAN]
      BY <1>18 DEF DisposeFlush, TypeOK
    <2>2. TypeOK'
      BY <1>18, <2>1 DEF DisposeFlush, TypeOK, bufferVars, elementVars, loopVars, userVars,
         sourceVars
    <2>3. Exclusive'
      BY <1>18 DEF DisposeFlush, Exclusive, UserStreams, LoopStreams, TypeOK, bufferVars,
         elementVars, loopVars, userVars, sourceVars
    <2>4. FileIsMedia' /\ SourceInStep' /\ FirstSegment' /\ DataIntact'
      BY <1>18 DEF DisposeFlush, FileIsMedia, SourceInStep, Streaming, FirstSegment, DataIntact,
         TypeOK, bufferVars, elementVars, loopVars, userVars, sourceVars
    <2> QED BY <2>2, <2>3, <2>4
  <1>20. CASE SourceFlushStart
    <2>1. TypeOK'
      BY <1>20 DEF SourceFlushStart, TypeOK, bufferVars, elementVars, loopVars,
         userVars, sourceVars
    <2>2. Exclusive' /\ FirstSegment' /\ DataIntact'
      BY <1>20 DEF SourceFlushStart, Exclusive, UserStreams, LoopStreams, FirstSegment,
         DataIntact, bufferVars, elementVars, loopVars, userVars, sourceVars
    <2>3. FileIsMedia' /\ SourceInStep'
      BY <1>20 DEF SourceFlushStart, FileIsMedia, SourceInStep, Streaming, bufferVars,
         elementVars, loopVars, userVars, sourceVars
    <2> QED BY <2>1, <2>2, <2>3
  <1>21. CASE SourceStop
    <2>1. TypeOK'
      BY <1>21 DEF SourceStop, TypeOK, bufferVars, elementVars, loopVars, userVars,
         sourceVars
    <2>2. Exclusive' /\ FirstSegment' /\ DataIntact'
      BY <1>21 DEF SourceStop, Exclusive, UserStreams, LoopStreams, FirstSegment,
         DataIntact, bufferVars, elementVars, loopVars, userVars, sourceVars
    <2>3. FileIsMedia' /\ SourceInStep'
      BY <1>21 DEF SourceStop, FileIsMedia, SourceInStep, Streaming, bufferVars,
         elementVars, loopVars, userVars, sourceVars
    <2> QED BY <2>1, <2>2, <2>3
  <1>22. CASE SourceSeek
    <2>1. /\ event' \in {"streamStart", "segment", "data", "eos"} /\ user' \in {"finish", "refused"}
          /\ position' \in Offsets /\ update' \in BOOLEAN /\ sflush' \in BOOLEAN
      <3>1. /\ event' \in {"streamStart", "segment", "data", "eos"} /\ user' \in {"finish", "refused"}
            /\ position' \in Offsets
        BY <1>22 DEF SourceSeek, TypeOK
      <3>2. update' \in BOOLEAN
        BY <1>22 DEF SourceSeek
      <3>3. sflush' \in BOOLEAN
        BY <1>22 DEF SourceSeek
      <3> QED BY <3>1, <3>2, <3>3
    <2>2. TypeOK'
      BY <1>22, <2>1 DEF SourceSeek, TypeOK, bufferVars, elementVars, loopVars, userVars, sourceVars
    <2>3. Exclusive'
      BY <1>22 DEF SourceSeek, Exclusive, UserStreams, LoopStreams, TypeOK, bufferVars,
         elementVars, loopVars, userVars, sourceVars
    <2>4. FileIsMedia' /\ SourceInStep' /\ FirstSegment' /\ DataIntact'
      BY <1>22 DEF SourceSeek, FileIsMedia, SourceInStep, Streaming, FirstSegment, DataIntact,
         Unbroken, Closing, TypeOK, bufferVars, elementVars, loopVars, userVars, sourceVars
    <2> QED BY <2>2, <2>3, <2>4
  <1>23. CASE DisposeBuffer
    <2>1. TypeOK'
      BY <1>23 DEF DisposeBuffer, DisposeJoined, NoEvent, Events, TypeOK, bufferVars,
         elementVars, loopVars, userVars, sourceVars
    <2>2. Exclusive' /\ FirstSegment' /\ DataIntact'
      BY <1>23 DEF DisposeBuffer, DisposeJoined, NoEvent, Events, Exclusive,
         UserStreams, LoopStreams, FirstSegment, DataIntact, bufferVars, elementVars,
         loopVars, userVars, sourceVars
    <2>3. FileIsMedia' /\ SourceInStep'
      BY <1>23 DEF DisposeBuffer, DisposeJoined, NoEvent, Events, FileIsMedia,
         SourceInStep, Streaming, bufferVars, elementVars, loopVars, userVars,
         sourceVars
    <2> QED BY <2>1, <2>2, <2>3
  <1>24. CASE DisposeSource
    <2>1. TypeOK'
      BY <1>24 DEF DisposeSource, TypeOK, bufferVars, elementVars, loopVars, userVars,
         sourceVars
    <2>2. Exclusive' /\ FirstSegment' /\ DataIntact'
      BY <1>24 DEF DisposeSource, Exclusive, UserStreams, LoopStreams, FirstSegment,
         DataIntact, bufferVars, elementVars, loopVars, userVars, sourceVars
    <2>3. FileIsMedia' /\ SourceInStep'
      BY <1>24 DEF DisposeSource, FileIsMedia, SourceInStep, Streaming, bufferVars,
         elementVars, loopVars, userVars, sourceVars
    <2> QED BY <2>1, <2>2, <2>3
  <1>25. CASE Disposed
    <2>1. TypeOK'
      BY <1>25 DEF Disposed, TypeOK, bufferVars, elementVars, loopVars, userVars,
         sourceVars
    <2>2. Exclusive' /\ FirstSegment' /\ DataIntact'
      BY <1>25 DEF Disposed, Exclusive, UserStreams, LoopStreams, FirstSegment,
         DataIntact, bufferVars, elementVars, loopVars, userVars, sourceVars
    <2>3. FileIsMedia' /\ SourceInStep'
      BY <1>25 DEF Disposed, FileIsMedia, SourceInStep, Streaming, bufferVars,
         elementVars, loopVars, userVars, sourceVars
    <2> QED BY <2>1, <2>2, <2>3
  <1>26. CASE SourceFlushing
    <2>1. TypeOK'
      BY <1>26 DEF SourceFlushing, TypeOK, bufferVars, elementVars, loopVars, userVars,
         sourceVars
    <2>2. Exclusive' /\ FirstSegment' /\ DataIntact'
      BY <1>26 DEF SourceFlushing, Exclusive, UserStreams, LoopStreams, FirstSegment,
         DataIntact, bufferVars, elementVars, loopVars, userVars, sourceVars
    <2>3. FileIsMedia' /\ SourceInStep'
      BY <1>26 DEF SourceFlushing, FileIsMedia, SourceInStep, Streaming, bufferVars,
         elementVars, loopVars, userVars, sourceVars
    <2> QED BY <2>1, <2>2, <2>3
  <1>27. CASE PushStreamStart
    <2>1. sgot' \in {"ok", "flushing"} /\ event' = "segment"
      BY <1>27 DEF PushStreamStart, TypeOK, PushEvent, sink_event, Enqueue
    <2>2. TypeOK'
      BY <1>27, <2>1 DEF PushStreamStart, TypeOK, bufferVars, elementVars, loopVars, userVars,
         sourceVars, PushEvent, sink_event, Enqueue
    <2>3. Exclusive'
      BY <1>27 DEF PushStreamStart, Exclusive, UserStreams, LoopStreams, TypeOK, bufferVars,
         elementVars, loopVars, userVars, sourceVars, PushEvent, sink_event, Enqueue
    <2>4. FileIsMedia' /\ SourceInStep' /\ FirstSegment' /\ DataIntact'
      BY SMTT(40), <1>27 DEF PushStreamStart, FileIsMedia, SourceInStep, Streaming, FirstSegment,
         DataIntact, TypeOK, bufferVars, elementVars, loopVars, userVars, sourceVars, PushEvent,
         sink_event, Enqueue
    <2> QED BY <2>2, <2>3, <2>4
  <1>28. CASE PushSegment
    <2>1. PICK r \in {"ok", "flushing"} : PushEvent("segment", "data", r) /\ sgot' = r
      BY <1>28 DEF PushSegment
    <2>2. CASE sflush \/ eos
      <3>1. UNCHANGED <<elementVars, task, pc, skip, out, res, down, userVars>> /\ r = "flushing"
        BY <2>1, <2>2 DEF PushEvent, sink_event, bufferVars, elementVars, loopVars, userVars,
           sourceVars
      <3>2. TypeOK' /\ Exclusive'
        BY <2>1, <3>1 DEF PushEvent, TypeOK, Exclusive, UserStreams, LoopStreams, bufferVars,
           elementVars, loopVars, userVars, sourceVars
      <3>3. FileIsMedia' /\ SourceInStep' /\ FirstSegment' /\ DataIntact'
        BY <2>1, <3>1 DEF PushEvent, FileIsMedia, SourceInStep, Streaming, FirstSegment,
           DataIntact, bufferVars, elementVars, loopVars, userVars, sourceVars
      <3> QED BY <3>2, <3>3
    <2>3. CASE ~sflush /\ ~eos
      <3>1. /\ enqueue_segment(position, update) /\ UNCHANGED <<skip, out, res, down, userVars>>
            /\ spc = "push" /\ event = "segment" /\ event' = "data" /\ spc' = "store"
            /\ UNCHANGED <<sres, position, update, sflush, ranges>>
        BY <2>1, <2>3 DEF PushEvent, sink_event, Enqueue
      <3>2. cache' \in Cache(Blocks) /\ cache'.write = 0 /\ offset' = position
        <4>1. CASE update
          BY <3>1, <4>1, CreateCache DEF enqueue_segment, FirstSegment, TypeOK
        <4>2. CASE ~update
          <5>1. /\ cache_set_write_position(cache, 0) \in Cache(Blocks)
                /\ cache_set_write_position(cache, 0).write = 0
            BY SetPositions DEF TypeOK
          <5>2. cache' = cache_set_read_position(cache_set_write_position(cache, 0), 0) /\ offset' = position
            BY <3>1, <4>2 DEF enqueue_segment
          <5> HIDE DEF Blocks
          <5> DEFINE c == cache_set_write_position(cache, 0)
          <5>3. c \in Cache(Blocks) /\ c.write = 0 /\ 0 \in Int
            BY <5>1
          <5> HIDE DEF c
          <5>4. cache_set_read_position(c, 0) \in Cache(Blocks) /\ cache_set_read_position(c, 0).write = 0
            BY <5>3, SetPositions
          <5> QED BY <5>2, <5>4 DEF c
        <4> QED BY <4>1, <4>2
      <3>3. pending' \in Events
        BY <3>1 DEF enqueue_segment, Events, TypeOK
      <3>4. pc' = pc \/ (pc = "waiting" /\ pc' = "check")
        BY <3>1 DEF enqueue_segment, Signalled
      <3>5. TypeOK'
        <4>1. /\ unexpected' = FALSE /\ instant' = TRUE /\ UNCHANGED <<srcresult, eos, task>>
              /\ seg' = [start |-> position, position |-> position, stop |-> Size]
          BY <3>1 DEF enqueue_segment
        <4>2. unexpected' \in BOOLEAN /\ instant' \in BOOLEAN
          BY <4>1
        <4>3. seg' \in [start : Offsets, position : Offsets, stop : 0..NoStop]
          BY <4>1 DEF TypeOK
        <4> QED BY <2>1, <3>1, <3>2, <3>3, <3>4, <4>1, <4>2, <4>3 DEF TypeOK, userVars
      <3>6. Exclusive' /\ DataIntact'
        BY <3>1, <3>4 DEF Exclusive, UserStreams, LoopStreams, DataIntact, bufferVars,
           elementVars, loopVars, userVars, sourceVars
      <3>7. FileIsMedia' /\ SourceInStep' /\ FirstSegment'
        BY <3>1, <3>2 DEF enqueue_segment, FileIsMedia, SourceInStep, Streaming, FirstSegment,
           TypeOK
      <3> QED BY <3>5, <3>6, <3>7
    <2> QED BY <2>2, <2>3
  <1>29. CASE PushEos
    <2>1. PICK r \in {"ok", "flushing"} : PushEvent("eos", "eos", r) /\ sgot' = "eos"
      BY <1>29 DEF PushEos
    <2>2. /\ UNCHANGED <<cache, offset, unexpected, instant, skip, out, res, down, userVars,
                         position, update, sflush, ranges>>
          /\ pending' \in {pending, NoEvent} /\ seg' \in {seg, [seg EXCEPT !.stop = seg.position]}
          /\ eos' \in BOOLEAN /\ srcresult' = srcresult /\ task' = task /\ sres' = sres
          /\ event' = "eos" /\ spc' = "store"
          /\ pc' = pc \/ (pc = "waiting" /\ pc' = "check")
      <3>1. /\ event' = "eos" /\ spc' = "store"
            /\ UNCHANGED <<sres, position, update, sflush, ranges>>
            /\ IF sflush THEN UNCHANGED bufferVars ELSE sink_event("eos", position, update, r)
        BY <2>1 DEF PushEvent
      <3>2. eos \in BOOLEAN
        BY DEF TypeOK
      <3>3. CASE sflush \/ eos
        BY <3>1, <3>2, <3>3 DEF sink_event, bufferVars, elementVars, loopVars, userVars
      <3>4. CASE ~sflush /\ ~eos
        <4>1. enqueue_eos /\ UNCHANGED <<skip, out, res, down, userVars>>
          BY <3>1, <3>4 DEF sink_event, Enqueue
        <4>2. seg' \in {seg, [seg EXCEPT !.stop = seg.position]}
          <5>1. CASE seg.position < seg.stop
            BY <4>1, <5>1 DEF enqueue_eos
          <5>2. CASE ~(seg.position < seg.stop)
            BY <4>1, <5>2 DEF enqueue_eos, TypeOK
          <5> QED BY <5>1, <5>2
        <4> QED BY <3>1, <4>1, <4>2 DEF enqueue_eos, Signalled
      <3> QED BY <3>3, <3>4
    <2>3. TypeOK'
      BY SMTT(40), <2>1, <2>2 DEF TypeOK, Events, userVars
    <2>4. Exclusive'
      BY <2>2 DEF Exclusive, UserStreams, LoopStreams, userVars
    <2>5. FileIsMedia' /\ SourceInStep' /\ FirstSegment' /\ DataIntact'
      BY <2>2 DEF FileIsMedia, SourceInStep, Streaming, FirstSegment, DataIntact
    <2> QED BY <2>3, <2>4, <2>5
  <1>30. CASE PushBlock
    <2>1. PICK r \in {"ok", "eos", "error", "flushing"}, sig \in BOOLEAN :
            /\ IF sflush THEN r = "flushing" /\ UNCHANGED bufferVars ELSE chain(position, position, sig, r)
            /\ event' = IF r = "eos" THEN "eos" ELSE "data"
            /\ spc' = IF r = "eos" THEN "push" ELSE "store"
            /\ sgot' = r
      BY <1>30 DEF PushBlock
    <2>2. /\ spc = "push" /\ event = "data" /\ position \in 0..Size-1 /\ position' = position + 1
          /\ UNCHANGED <<sres, update, sflush, ranges>>
      BY <1>30 DEF PushBlock, TypeOK
    <2>3. CASE r # "ok"
      <3>1. /\ UNCHANGED <<pending, cache, offset, eos, unexpected, instant, pc, skip, out, res, down, userVars>>
            /\ srcresult' \in {srcresult, "ok"} /\ task' = task
            /\ seg' \in {seg, [seg EXCEPT !.position = position + 1]}
        BY <2>1, <2>3 DEF chain, enqueue_buffer, bufferVars, elementVars, loopVars, userVars,
           sourceVars
      <3>2. TypeOK'
        BY SMTT(40), <2>1, <2>2, <3>1 DEF TypeOK, userVars
      <3>3. Exclusive' /\ DataIntact'
        BY <3>1 DEF Exclusive, UserStreams, LoopStreams, DataIntact, userVars
      <3>4. FileIsMedia' /\ SourceInStep' /\ FirstSegment'
        BY <2>1, <2>2, <2>3, <3>1 DEF FileIsMedia, SourceInStep, Streaming, FirstSegment
      <3> QED BY <3>2, <3>3, <3>4
    <2>4. CASE r = "ok"
      <3>1. /\ cache' = cache_write_buffer(cache, position)
            /\ UNCHANGED <<pending, offset, eos, unexpected, instant, skip, out, res, down, userVars>>
            /\ srcresult' \in {srcresult, "ok"} /\ task' \in {task, "started"}
            /\ pc' = pc \/ (pc = "waiting" /\ pc' = "check")
            /\ seg' = [seg EXCEPT !.position = position + 1]
        BY <2>1, <2>4 DEF chain, enqueue_buffer, Signalled
      <3>2. /\ cache' \in Cache(Blocks) /\ cache'.write = cache.write + 1 /\ cache.write \in Nat
            /\ cache'.file[cache.write + 1] = position
            /\ \A q \in 0..cache.write-1 : cache'.file[q + 1] = cache.file[q + 1]
        <4>1. cache \in Cache(Blocks) /\ position \in Blocks
          BY <2>2 DEF TypeOK
        <4> HIDE DEF Blocks
        <4>2. cache.write \in Nat
          BY <4>1, ReadBuffer
        <4>3. /\ cache_write_buffer(cache, position) \in Cache(Blocks)
              /\ cache_write_buffer(cache, position).write = cache.write + 1
              /\ cache_write_buffer(cache, position).file[cache.write + 1] = position
              /\ \A q \in 0..cache.write-1 :
                   cache_write_buffer(cache, position).file[q + 1] = cache.file[q + 1]
          BY <4>1, WriteBuffer
        <4> QED BY <3>1, <4>2, <4>3
      <3>3. position = cache.write + offset /\ offset \in Int
        BY <2>2 DEF SourceInStep, Streaming, TypeOK
      <3>4. TypeOK'
        <4>1. /\ seg' \in [start : Offsets, position : Offsets, stop : 0..NoStop]
              /\ position' \in Offsets
          BY SMTT(40), <2>2, <3>1 DEF TypeOK
        <4>2. /\ event' = "data" /\ spc' = "store" /\ sgot' = "ok"
              /\ UNCHANGED <<sres, update, sflush, ranges>>
          BY <2>1, <2>2, <2>4
        <4>3. cache' \in Cache(Blocks)
          BY <3>2
        <4>4. /\ srcresult' \in {"ok", "eos", "error", "flushing"}
              /\ task' \in {"none", "started", "paused", "stopped"}
              /\ pc' = pc \/ pc' = "check"
          BY <3>1 DEF TypeOK
        <4>5. UNCHANGED <<pending, offset, eos, unexpected, instant, skip, out, res, down,
                          user, target, seeks>>
          BY <3>1 DEF userVars
        <4> QED BY <4>1, <4>2, <4>3, <4>4, <4>5 DEF TypeOK
      <3>5. Exclusive' /\ DataIntact'
        BY <3>1 DEF Exclusive, UserStreams, LoopStreams, DataIntact, userVars
      <3>6. FileIsMedia'
        BY SMTT(40), <3>1, <3>2, <3>3 DEF FileIsMedia
      <3>7. SourceInStep' /\ FirstSegment'
        BY <2>1, <2>2, <2>4, <3>1, <3>2, <3>3 DEF SourceInStep, Streaming, FirstSegment
      <3> QED BY <3>4, <3>5, <3>6, <3>7
    <2> QED BY <2>3, <2>4
  <1>31. CASE ReadEnd
    <2>1. TypeOK'
      BY <1>31 DEF ReadEnd, TypeOK, bufferVars, elementVars, loopVars, userVars,
         sourceVars
    <2>2. Exclusive' /\ FirstSegment' /\ DataIntact'
      BY <1>31 DEF ReadEnd, Exclusive, UserStreams, LoopStreams, FirstSegment,
         DataIntact, bufferVars, elementVars, loopVars, userVars, sourceVars
    <2>3. FileIsMedia' /\ SourceInStep'
      BY <1>31 DEF ReadEnd, FileIsMedia, SourceInStep, Streaming, bufferVars,
         elementVars, loopVars, userVars, sourceVars
    <2> QED BY <2>1, <2>2, <2>3
  <1>32. CASE ReadError
    <2>1. TypeOK'
      BY <1>32 DEF ReadError, TypeOK, bufferVars, elementVars, loopVars, userVars,
         sourceVars
    <2>2. Exclusive' /\ FirstSegment' /\ DataIntact'
      BY <1>32 DEF ReadError, Exclusive, UserStreams, LoopStreams, FirstSegment,
         DataIntact, bufferVars, elementVars, loopVars, userVars, sourceVars
    <2>3. FileIsMedia' /\ SourceInStep'
      BY <1>32 DEF ReadError, FileIsMedia, SourceInStep, Streaming, bufferVars,
         elementVars, loopVars, userVars, sourceVars
    <2> QED BY <2>1, <2>2, <2>3
  <1>33. CASE SourceStore
    <2>1. TypeOK'
      BY <1>33 DEF SourceStore, TypeOK, bufferVars, elementVars, loopVars, userVars,
         sourceVars
    <2>2. Exclusive' /\ FirstSegment' /\ DataIntact'
      BY <1>33 DEF SourceStore, Exclusive, UserStreams, LoopStreams, FirstSegment,
         DataIntact, bufferVars, elementVars, loopVars, userVars, sourceVars
    <2>3. FileIsMedia' /\ SourceInStep'
      BY <1>33 DEF SourceStore, FileIsMedia, SourceInStep, Streaming, bufferVars,
         elementVars, loopVars, userVars, sourceVars
    <2> QED BY <2>1, <2>2, <2>3
  <1>34. CASE UNCHANGED vars
    <2>1. TypeOK'
      BY <1>34 DEF TypeOK, vars, bufferVars, elementVars, loopVars, userVars, sourceVars
    <2>2. Exclusive' /\ FirstSegment' /\ DataIntact'
      BY <1>34 DEF Exclusive, UserStreams, LoopStreams, FirstSegment, DataIntact, vars,
         bufferVars, elementVars, loopVars, userVars, sourceVars
    <2>3. FileIsMedia' /\ SourceInStep'
      BY <1>34 DEF FileIsMedia, SourceInStep, Streaming, vars, bufferVars, elementVars,
         loopVars, userVars, sourceVars
    <2> QED BY <2>1, <2>2, <2>3
  <1> QED
    BY <1>1, <1>2, <1>3, <1>4, <1>5, <1>6, <1>7, <1>8, <1>9, <1>10, <1>11, <1>12, <1>13, <1>14,
       <1>15, <1>16, <1>17, <1>18, <1>20, <1>21, <1>22, <1>23, <1>24, <1>25, <1>26, <1>27,
       <1>28, <1>29, <1>30, <1>31, <1>32, <1>33, <1>34
       DEF Next, LoopStep, Loop, PlayerStep, SeekStep, DisposeStep, SourceCall, PlayerCall, Source

(* A server that refuses seeks keeps the source in step with the file.     *)
LEMMA StepUnbroken ==
  ASSUME IInv, Unbroken, [Next]_vars
  PROVE  Unbroken'
  <1>1. /\ seg.stop \in Int /\ position \in Int /\ offset \in Int /\ Size \in Nat
        /\ seg \in [start : Offsets, position : Offsets, stop : 0..NoStop]
    BY DEF IInv, TypeOK, Offsets, NoStop
  <1>2. cache.write \in Nat /\ cache \in Cache(Blocks)
    BY DEF IInv, TypeOK, Cache
  <1>3. CASE (Loop \/ SeekStep \/ DisposeStep \/ SeekFlushStart \/ DisposeFlush) /\ UNCHANGED sourceVars
    <2>1. cache'.write = cache.write
      <3>1. \A p \in Int : cache_set_read_position(cache, p).write = cache.write
        BY <1>2, SetPositions
      <3>2. cache_read_buffer(cache).write = cache.write
        BY <1>2, ReadBuffer
      <3>3. target - offset \in Int
        BY DEF IInv, TypeOK, Offsets, Blocks
      <3>4. CASE LoopRead
        BY <3>2, <3>4 DEF LoopRead
      <3>5. CASE SeekLocked
        BY <3>1, <3>3, <3>5 DEF SeekLocked, ReadFrom
      <3>6. CASE SeekRefused
        BY <3>1, <3>3, <3>6 DEF SeekRefused, ReadFrom
      <3> QED BY <1>3, <3>4, <3>5, <3>6 DEF Loop, SeekStep, DisposeStep, LoopEnter, LoopAgain,
                 LoopWait, LoopFlushed, LoopTakeEvent, LoopPushBuffer, LoopStore, LoopPushEvent,
                 LoopPause, SeekSignal, StopLoop, SeekFinish, DisposeSignal, DisposeStopTask,
                 SeekFlushStart, DisposeFlush, elementVars
    <2>2. UNCHANGED <<seg, offset>> /\ (eos' => eos)
      BY <1>3 DEF Loop, SeekStep, DisposeStep, LoopEnter, LoopAgain, LoopRead, SeekLocked, ReadFrom,
         SeekRefused, LoopWait, LoopFlushed, LoopTakeEvent, LoopPushBuffer, LoopStore, LoopPushEvent,
         LoopPause, SeekSignal, StopLoop, SeekFinish, DisposeSignal, DisposeStopTask,
         SeekFlushStart, DisposeFlush, elementVars
    <2>3. \/ user' = user
          \/ {user, user'} \cap ({"sourceFlush", "sourceLock"} \cup Closing) = {}
      BY <1>3 DEF Loop, SeekStep, DisposeStep, LoopEnter, LoopAgain, LoopRead, SeekLocked, ReadFrom,
         SeekRefused, LoopWait, LoopFlushed, LoopTakeEvent, LoopPushBuffer, LoopStore, LoopPushEvent,
         LoopPause, SeekSignal, StopLoop, SeekFinish, DisposeSignal, DisposeStopTask,
         SeekFlushStart, DisposeFlush, userVars, Closing
    <2> QED BY <1>3, <2>1, <2>2, <2>3 DEF Unbroken, Closing, sourceVars
  <1>4. CASE SourceFlushStart
    BY <1>4 DEF SourceFlushStart, Unbroken, Closing, elementVars
  <1>5. CASE SourceStop
    BY <1>5 DEF SourceStop, Unbroken, Closing, elementVars
  <1>6. CASE SourceSeek
    BY <1>6 DEF SourceSeek, Unbroken, Closing, elementVars
  <1>7. CASE DisposeBuffer \/ DisposeSource \/ Disposed
    BY <1>7 DEF DisposeBuffer, DisposeJoined, DisposeSource, Disposed, Unbroken, Closing, sourceVars
  <1>8. CASE SourceFlushing \/ ReadEnd \/ ReadError
    BY <1>8 DEF SourceFlushing, ReadEnd, ReadError, Unbroken, Closing, bufferVars, elementVars,
       userVars
  <1>9. CASE SourceStore
    BY <1>9 DEF SourceStore, Unbroken, Closing, bufferVars, elementVars, userVars
  <1>10. CASE PushStreamStart
    BY <1>10 DEF PushStreamStart, PushEvent, sink_event, Enqueue, Unbroken, Closing, bufferVars,
       elementVars, userVars
  <1>11. CASE PushEos
    BY <1>11 DEF PushEos, PushEvent, sink_event, Enqueue, enqueue_eos, Unbroken, Closing,
       bufferVars, elementVars, userVars
  <1>12. CASE PushSegment
    <2>1. create_cache.write = 0
      BY CreateCache
    <2>2. sflush /\ ~ranges => user \in Closing
      BY <1>12 DEF PushSegment, PushEvent, Meets, Unbroken, Closing
    <2> QED BY <1>1, <1>12, <2>1, <2>2 DEF PushSegment, PushEvent, sink_event, Enqueue, enqueue_segment,
               Unbroken, Closing, bufferVars, elementVars, userVars, IInv, FirstSegment
  <1>13. CASE PushBlock
    <2>1. PICK r \in {"ok", "eos", "error", "flushing"}, sig \in BOOLEAN :
               /\ IF sflush
                  THEN r = "flushing" /\ UNCHANGED bufferVars
                  ELSE chain(position, position, sig, r)
               /\ event' = IF r = "eos" THEN "eos" ELSE "data"
      BY <1>13 DEF PushBlock
    <2>2. /\ event = "data" /\ sres = "ok" /\ position \in 0..Size-1 /\ position' = position + 1
          /\ UNCHANGED <<sres, update, sflush, ranges, user>>
      BY <1>13, <2>1 DEF PushBlock, IInv, TypeOK, Offsets, chain, bufferVars, userVars
    <2>3. sflush /\ ~ranges => user \in Closing
      BY <1>13 DEF PushBlock, Meets, Unbroken, Closing
    <2>4. ASSUME ~ranges, user \notin Closing
          PROVE  /\ event' # "eos" => ~eos'
                 /\ event' = "data" => position' = cache'.write + offset' /\ Size <= seg'.stop
      <3>1. chain(position, position, sig, r) /\ position = cache.write + offset /\ Size <= seg.stop
            /\ ~eos
        BY <2>1, <2>2, <2>3, <2>4 DEF Unbroken
      <3>2. CASE unexpected
        BY <2>1, <3>1, <3>2 DEF chain
      <3>3. CASE ~unexpected
        <4>1. ~(seg.stop < position + 1)
          BY <1>1, <2>2, <3>1
        <4>2. /\ cache' = cache_write_buffer(cache, position) /\ UNCHANGED <<offset, eos>>
              /\ seg' = [seg EXCEPT !.position = position + 1]
          BY <3>1, <3>3, <4>1 DEF chain, enqueue_buffer
        <4>3. cache'.write = cache.write + 1
          <5>1. position \in Blocks
            BY <2>2 DEF Blocks
          <5> QED BY <1>2, <4>2, <5>1, WriteBuffer
        <4>4. seg'.stop = seg.stop
          BY <1>1, <4>2
        <4> QED BY <1>1, <1>2, <2>2, <3>1, <4>2, <4>3, <4>4
      <3> QED BY <3>2, <3>3
    <2> QED BY <2>2, <2>4 DEF Unbroken
  <1>14. CASE UNCHANGED vars
    BY <1>14 DEF vars, Unbroken, bufferVars, elementVars, userVars, sourceVars
  <1> QED BY <1>3, <1>4, <1>5, <1>6, <1>7, <1>8, <1>9, <1>10, <1>11, <1>12, <1>13, <1>14
          DEF Next, LoopStep, PlayerStep, SourceCall, PlayerCall, Source

-----------------------------------------------------------------------------
(* No step puts the loop to sleep over a flush or an event, or sets one    *)
(* behind its back; here a seek of the source may fail too.                *)
WakeInv == Exclusive /\ NoLostWakeup

LEMMA StepWake ==
  ASSUME WakeInv, [Next]_vars
  PROVE  WakeInv'
  <1> USE DEF WakeInv, Exclusive, NoLostWakeup, UserStreams, LoopStreams
  <1>1. CASE LoopEnter /\ UNCHANGED sourceVars
    BY <1>1 DEF LoopEnter, bufferVars, elementVars, loopVars, userVars, sourceVars
  <1>2. CASE LoopAgain /\ UNCHANGED sourceVars
    BY <1>2 DEF LoopAgain, bufferVars, elementVars, loopVars, userVars, sourceVars
  <1>3. CASE LoopWait /\ UNCHANGED sourceVars
    BY <1>3 DEF LoopWait, AtCheck, NothingToPush, bufferVars, elementVars, loopVars, userVars,
       sourceVars
  <1>4. CASE LoopFlushed /\ UNCHANGED sourceVars
    BY <1>4 DEF LoopFlushed, AtCheck, bufferVars, elementVars, loopVars, userVars, sourceVars
  <1>5. CASE LoopTakeEvent /\ UNCHANGED sourceVars
    BY <1>5 DEF LoopTakeEvent, AtCheck, bufferVars, elementVars, loopVars, userVars, sourceVars
  <1>6. CASE LoopRead /\ UNCHANGED sourceVars
    BY <1>6 DEF LoopRead, AtCheck, bufferVars, elementVars, loopVars, userVars, sourceVars
  <1>7. CASE LoopPushBuffer /\ UNCHANGED sourceVars
    BY <1>7 DEF LoopPushBuffer, bufferVars, elementVars, loopVars, userVars, sourceVars
  <1>8. CASE LoopStore /\ UNCHANGED sourceVars
    BY <1>8 DEF LoopStore, bufferVars, elementVars, loopVars, userVars, sourceVars
  <1>9. CASE LoopPushEvent /\ UNCHANGED sourceVars
    BY <1>9 DEF LoopPushEvent, bufferVars, elementVars, loopVars, userVars, sourceVars
  <1>10. CASE LoopPause /\ UNCHANGED sourceVars
    BY <1>10 DEF LoopPause, bufferVars, elementVars, loopVars, userVars, sourceVars
  <1>11. CASE SeekSignal /\ UNCHANGED sourceVars
    BY <1>11 DEF SeekSignal, StopLoop, Signalled, bufferVars, elementVars, loopVars, userVars,
       sourceVars
  <1>12. CASE SeekLocked /\ UNCHANGED sourceVars
    BY <1>12 DEF SeekLocked, ReadFrom, bufferVars, elementVars, loopVars, userVars, sourceVars
  <1>13. CASE SeekRefused /\ UNCHANGED sourceVars
    BY <1>13 DEF SeekRefused, ReadFrom, bufferVars, elementVars, loopVars, userVars, sourceVars
  <1>14. CASE SeekFinish /\ UNCHANGED sourceVars
    BY <1>14 DEF SeekFinish, bufferVars, elementVars, loopVars, userVars, sourceVars
  <1>15. CASE DisposeSignal /\ UNCHANGED sourceVars
    BY <1>15 DEF DisposeSignal, StopLoop, Signalled, bufferVars, elementVars, loopVars, userVars,
       sourceVars
  <1>16. CASE DisposeStopTask /\ UNCHANGED sourceVars
    BY <1>16 DEF DisposeStopTask, bufferVars, elementVars, loopVars, userVars, sourceVars
  <1>17. CASE SeekFlushStart /\ UNCHANGED sourceVars
    BY <1>17 DEF SeekFlushStart, bufferVars, elementVars, loopVars, userVars, sourceVars
  <1>18. CASE DisposeFlush /\ UNCHANGED sourceVars
    BY <1>18 DEF DisposeFlush, bufferVars, elementVars, loopVars, userVars, sourceVars
  <1>20. CASE SourceFlushStart
    BY <1>20 DEF SourceFlushStart, bufferVars, elementVars, loopVars, userVars, sourceVars
  <1>21. CASE SourceStop
    BY <1>21 DEF SourceStop, bufferVars, elementVars, loopVars, userVars, sourceVars
  <1>22. CASE SourceSeek
    BY <1>22 DEF SourceSeek, bufferVars, elementVars, loopVars, userVars, sourceVars
  <1>23. CASE DisposeBuffer
    BY <1>23 DEF DisposeBuffer, DisposeJoined, bufferVars, elementVars, loopVars, userVars,
       sourceVars
  <1>24. CASE DisposeSource
    BY <1>24 DEF DisposeSource, bufferVars, elementVars, loopVars, userVars, sourceVars
  <1>25. CASE Disposed
    BY <1>25 DEF Disposed, bufferVars, elementVars, loopVars, userVars, sourceVars
  <1>26. CASE SourceFlushing
    BY <1>26 DEF SourceFlushing, bufferVars, elementVars, loopVars, userVars, sourceVars
  <1>27. CASE PushStreamStart
    BY <1>27 DEF PushStreamStart, PushEvent, sink_event, Enqueue, bufferVars, elementVars,
       loopVars, userVars, sourceVars
  <1>28. CASE PushSegment
    BY <1>28 DEF PushSegment, PushEvent, sink_event, Enqueue, enqueue_segment, Signalled,
       bufferVars, elementVars, loopVars, userVars, sourceVars
  <1>29. CASE PushEos
    BY <1>29 DEF PushEos, PushEvent, sink_event, Enqueue, enqueue_eos, Signalled, bufferVars,
       elementVars, loopVars, userVars, sourceVars
  <1>30. CASE PushBlock
    BY <1>30 DEF PushBlock, chain, enqueue_buffer, Signalled, bufferVars, elementVars, loopVars,
       userVars, sourceVars
  <1>31. CASE ReadEnd
    BY <1>31 DEF ReadEnd, bufferVars, elementVars, loopVars, userVars, sourceVars
  <1>32. CASE ReadError
    BY <1>32 DEF ReadError, bufferVars, elementVars, loopVars, userVars, sourceVars
  <1>33. CASE SourceStore
    BY <1>33 DEF SourceStore, bufferVars, elementVars, loopVars, userVars, sourceVars
  <1>34. CASE UNCHANGED vars
    BY <1>34 DEF vars, bufferVars, elementVars, loopVars, userVars, sourceVars
  <1> QED
    BY <1>1, <1>2, <1>3, <1>4, <1>5, <1>6, <1>7, <1>8, <1>9, <1>10, <1>11, <1>12, <1>13, <1>14,
       <1>15, <1>16, <1>17, <1>18, <1>20, <1>21, <1>22, <1>23, <1>24, <1>25, <1>26, <1>27,
       <1>28, <1>29, <1>30, <1>31, <1>32, <1>33, <1>34
       DEF Next, LoopStep, Loop, PlayerStep, SeekStep, DisposeStep, SourceCall, PlayerCall, Source
-----------------------------------------------------------------------------
(* The shapes of the records and numbers, which hold whether seeks of the  *)
(* source fail or not.                                                     *)
Shapes ==
  /\ cache \in Cache(Nat) /\ offset \in Nat /\ position \in Nat /\ target \in Nat
  /\ pending \in {NoEvent, EosEvent} \cup [kind : {"segment"}, start : Nat]
  /\ seg \in [start : Int, position : Int, stop : Int]
  /\ out \in [offset : Int, block : Int]
  /\ down \in [flushing : BOOLEAN, next : Int, ended : BOOLEAN]

(* What the results, the flushes and the skipping of the loop have to do   *)
(* with each other.                                                        *)
Flow ==
  /\ task = "none" => srcresult = "ok" /\ pc = "parked" /\ user = "idle"
  /\ srcresult \in {"ok", "eos", "flushing"} /\ res \in {"ok", "flushing"}
  /\ srcresult = "flushing" => down.flushing
  /\ user # "idle" => down.flushing
  /\ pc \in {"pushBuffer", "store"} => srcresult # "eos" /\ ~skip
  /\ pc = "store" /\ res = "flushing" => down.flushing
  /\ skip /\ pc \in {"top", "pause", "pushEvent"} => srcresult # "ok"
  /\ pc \in {"parked", "done"} => ~skip
  /\ pc = "pushEvent" /\ out.offset = None => srcresult # "ok"
  /\ pc = "pushEvent" => pending # EosEvent
  /\ UserStreams => pending # EosEvent /\ srcresult = "ok"

(* A pending EOS was set with the last buffer of the segment.              *)
Ending == pending = EosEvent /\ srcresult = "ok" /\ ~down.flushing /\ ~skip
            => seg.stop = IF pc = "pushBuffer" THEN out.offset + 1 ELSE down.next

(* A pending segment starts where the loop reads next.                     *)
Announced == pending.kind = "segment" => pending.start = cache.read + offset

(* Nothing is read, or not before a new segment is pushed, or the EOS of   *)
(* the source has discarded that.                                          *)
Behind == ~instant \/ pending.kind = "segment" \/ eos

(* Otherwise the loop reads next what downstream expects next, once it has *)
(* been given what the loop holds.                                         *)
Following == ~Behind /\ srcresult = "ok" /\ ~down.flushing /\ ~skip
               => cache.read + offset = CASE pc = "pushBuffer" -> out.offset + 1
                                          [] pc = "pushEvent"  -> out.offset
                                          [] OTHER             -> down.next

(* A seek goes to a place that the file can be read from, now or later,    *)
(* and leaves a segment to be pushed.                                      *)
SeekTargets ==
  /\ user \notin {"stopSource", "joinSource", "disposed"} => seg.start = offset
  /\ user = "refused" => ~ranges
  /\ UserStreams => Behind

SequenceInv == Announced /\ Following /\ SeekTargets /\ InSequence

(* No step gives a number or a record another shape.                       *)
LEMMA StepShapes ==
  ASSUME Shapes, [Next]_vars
  PROVE  Shapes'
  <1> USE DEF Shapes, None, NoEvent, EosEvent, Segment, NoBuffer, NoStop, Blocks, Offsets
  <1>1. CASE LoopEnter /\ UNCHANGED sourceVars
    BY <1>1 DEF LoopEnter, bufferVars, elementVars, loopVars, userVars, sourceVars
  <1>2. CASE LoopAgain /\ UNCHANGED sourceVars
    BY <1>2 DEF LoopAgain, bufferVars, elementVars, loopVars, userVars, sourceVars
  <1>3. CASE LoopWait /\ UNCHANGED sourceVars
    BY <1>3 DEF LoopWait, AtCheck, NothingToPush, bufferVars, elementVars, loopVars, userVars,
       sourceVars
  <1>4. CASE LoopFlushed /\ UNCHANGED sourceVars
    BY <1>4 DEF LoopFlushed, AtCheck, bufferVars, elementVars, loopVars, userVars, sourceVars
  <1>5. CASE LoopTakeEvent /\ UNCHANGED sourceVars
    BY <1>5 DEF LoopTakeEvent, AtCheck, bufferVars, elementVars, loopVars, userVars, sourceVars
  <1>6. CASE LoopRead /\ UNCHANGED sourceVars
    <2>1. cache' \in Cache(Nat) /\ cache.read \in Nat /\ BlockRead(cache) \in Nat
      BY <1>6, ReadBuffer DEF LoopRead
    <2> QED BY <1>6, <2>1 DEF LoopRead, bufferVars, elementVars, loopVars, userVars, sourceVars
  <1>7. CASE LoopPushBuffer /\ UNCHANGED sourceVars
    BY <1>7 DEF LoopPushBuffer, bufferVars, elementVars, loopVars, userVars, sourceVars
  <1>8. CASE LoopStore /\ UNCHANGED sourceVars
    BY <1>8 DEF LoopStore, bufferVars, elementVars, loopVars, userVars, sourceVars
  <1>9. CASE LoopPushEvent /\ UNCHANGED sourceVars
    <2>1. down' \in [flushing : BOOLEAN, next : Int, ended : BOOLEAN]
      BY ZenonT(60), <1>9 DEF LoopPushEvent
    <2> QED BY <1>9, <2>1 DEF LoopPushEvent, bufferVars, elementVars, loopVars, userVars, sourceVars
  <1>10. CASE LoopPause /\ UNCHANGED sourceVars
    BY <1>10 DEF LoopPause, bufferVars, elementVars, loopVars, userVars, sourceVars
  <1>11. CASE SeekSignal /\ UNCHANGED sourceVars
    BY <1>11 DEF SeekSignal, StopLoop, Signalled, bufferVars, elementVars, loopVars, userVars,
       sourceVars
  <1>12. CASE SeekLocked /\ UNCHANGED sourceVars
    <2>1. cache' \in Cache(Nat)
      <3>1. target - offset \in Int /\ cache \in Cache(Nat)
        OBVIOUS
      <3>2. cache_set_read_position(cache, target - offset) \in Cache(Nat)
        BY <3>1, SetPositions
      <3> HIDE DEF Cache
      <3> QED BY <1>12, <3>1, <3>2 DEF SeekLocked, ReadFrom
    <2> QED BY <1>12, <2>1 DEF SeekLocked, ReadFrom, bufferVars, elementVars, loopVars, userVars,
       sourceVars
  <1>13. CASE SeekRefused /\ UNCHANGED sourceVars
    <2>1. cache' \in Cache(Nat)
      <3>1. target - offset \in Int /\ cache \in Cache(Nat)
        OBVIOUS
      <3> QED BY <1>13, <3>1, SetPositions DEF SeekRefused, ReadFrom
    <2> QED BY <1>13, <2>1 DEF SeekRefused, ReadFrom, bufferVars, elementVars, loopVars, userVars,
       sourceVars
  <1>14. CASE SeekFinish /\ UNCHANGED sourceVars
    BY <1>14 DEF SeekFinish, bufferVars, elementVars, loopVars, userVars, sourceVars
  <1>15. CASE DisposeSignal /\ UNCHANGED sourceVars
    BY <1>15 DEF DisposeSignal, StopLoop, Signalled, bufferVars, elementVars, loopVars,
       userVars, sourceVars
  <1>16. CASE DisposeStopTask /\ UNCHANGED sourceVars
    BY <1>16 DEF DisposeStopTask, bufferVars, elementVars, loopVars, userVars, sourceVars
  <1>17. CASE SeekFlushStart /\ UNCHANGED sourceVars
    <2>1. down' \in [flushing : BOOLEAN, next : Int, ended : BOOLEAN]
      BY <1>17 DEF SeekFlushStart
    <2>2. target' \in Nat
      BY <1>17 DEF SeekFlushStart
    <2> QED BY <1>17, <2>1, <2>2 DEF SeekFlushStart, bufferVars, elementVars, loopVars, userVars,
       sourceVars
  <1>18. CASE DisposeFlush /\ UNCHANGED sourceVars
    BY <1>18 DEF DisposeFlush, bufferVars, elementVars, loopVars, userVars, sourceVars
  <1>20. CASE SourceFlushStart
    BY <1>20 DEF SourceFlushStart, bufferVars, elementVars, loopVars, userVars, sourceVars
  <1>21. CASE SourceStop
    BY <1>21 DEF SourceStop, bufferVars, elementVars, loopVars, userVars, sourceVars
  <1>22. CASE SourceSeek
    BY <1>22 DEF SourceSeek, bufferVars, elementVars, loopVars, userVars, sourceVars
  <1>23. CASE DisposeBuffer
    BY <1>23 DEF DisposeBuffer, DisposeJoined, bufferVars, elementVars, loopVars, userVars,
       sourceVars
  <1>24. CASE DisposeSource
    BY <1>24 DEF DisposeSource, bufferVars, elementVars, loopVars, userVars, sourceVars
  <1>25. CASE Disposed
    BY <1>25 DEF Disposed, bufferVars, elementVars, loopVars, userVars, sourceVars
  <1>26. CASE SourceFlushing
    BY <1>26 DEF SourceFlushing, bufferVars, elementVars, loopVars, userVars, sourceVars
  <1>27. CASE PushStreamStart
    BY <1>27 DEF PushStreamStart, PushEvent, sink_event, Enqueue, bufferVars, elementVars,
       loopVars, userVars, sourceVars
  <1>28. CASE PushSegment
    <2>1. cache' \in Cache(Nat)
      <3>1. cache_set_write_position(cache, 0) \in Cache(Nat)
        BY SetPositions
      <3>2. cache_set_read_position(cache_set_write_position(cache, 0), 0) \in Cache(Nat)
        BY SMTT(40), <3>1, SetPositions
      <3>3. create_cache \in Cache(Nat)
        BY CreateCache
      <3> HIDE DEF Cache
      <3> QED BY <1>28, <3>2, <3>3 DEF PushSegment, PushEvent, sink_event, Enqueue,
                 enqueue_segment, bufferVars, elementVars, loopVars, userVars, sourceVars
    <2> QED BY <1>28, <2>1 DEF PushSegment, PushEvent, sink_event, Enqueue, enqueue_segment,
               bufferVars, elementVars, loopVars, userVars, sourceVars
  <1>29. CASE PushEos
    BY <1>29 DEF PushEos, PushEvent, sink_event, Enqueue, enqueue_eos, Signalled, bufferVars,
       elementVars, loopVars, userVars, sourceVars
  <1>30. CASE PushBlock
    <2>1. cache' \in Cache(Nat)
      BY <1>30, WriteBuffer DEF PushBlock, chain, enqueue_buffer, bufferVars, elementVars,
         loopVars, userVars, sourceVars
    <2> QED BY <1>30, <2>1 DEF PushBlock, chain, enqueue_buffer,
               bufferVars, elementVars, loopVars, userVars, sourceVars
  <1>31. CASE ReadEnd
    BY <1>31 DEF ReadEnd, bufferVars, elementVars, loopVars, userVars, sourceVars
  <1>32. CASE ReadError
    BY <1>32 DEF ReadError, bufferVars, elementVars, loopVars, userVars, sourceVars
  <1>33. CASE SourceStore
    BY <1>33 DEF SourceStore, bufferVars, elementVars, loopVars, userVars, sourceVars
  <1>34. CASE UNCHANGED vars
    BY <1>34 DEF vars, bufferVars, elementVars, loopVars, userVars, sourceVars
  <1> QED
    BY <1>1, <1>2, <1>3, <1>4, <1>5, <1>6, <1>7, <1>8, <1>9, <1>10, <1>11, <1>12, <1>13, <1>14,
       <1>15, <1>16, <1>17, <1>18, <1>20, <1>21, <1>22, <1>23, <1>24, <1>25, <1>26,
       <1>27, <1>28, <1>29, <1>30, <1>31, <1>32, <1>33, <1>34
       DEF Next, LoopStep, Loop, PlayerStep, SeekStep, DisposeStep, SourceCall, PlayerCall, Source

(* The results, flushes and skips stay in step, whoever moves.             *)
LEMMA StepFlow ==
  ASSUME Shapes, Exclusive, Flow, [Next]_vars
  PROVE  Flow'
  <1> USE DEF Shapes, Exclusive, Flow, UserStreams, LoopStreams, None, NoEvent, EosEvent,
     Segment, NoBuffer
  <1>1. CASE LoopEnter /\ UNCHANGED sourceVars
    BY <1>1 DEF LoopEnter, bufferVars, elementVars, loopVars, userVars, sourceVars
  <1>2. CASE LoopAgain /\ UNCHANGED sourceVars
    BY <1>2 DEF LoopAgain, bufferVars, elementVars, loopVars, userVars, sourceVars
  <1>3. CASE LoopWait /\ UNCHANGED sourceVars
    BY <1>3 DEF LoopWait, AtCheck, NothingToPush, bufferVars, elementVars, loopVars, userVars,
       sourceVars
  <1>4. CASE LoopFlushed /\ UNCHANGED sourceVars
    BY <1>4 DEF LoopFlushed, AtCheck, bufferVars, elementVars, loopVars, userVars, sourceVars
  <1>5. CASE LoopTakeEvent /\ UNCHANGED sourceVars
    <2>1. CASE pending = EosEvent
      BY <1>5, <2>1 DEF LoopTakeEvent, AtCheck, bufferVars, elementVars, loopVars, userVars,
         sourceVars
    <2>2. CASE pending # EosEvent
      <3>1. pending.start \in Nat
        BY <1>5, <2>2 DEF LoopTakeEvent
      <3>2. /\ pc \in {"check", "held"} /\ pc' = "pushEvent" /\ out'.offset # None
            /\ srcresult = "ok" /\ srcresult' = "ok" /\ pending' = NoEvent
            /\ UNCHANGED <<task, res, down, user>>
        BY <1>5, <2>2, <3>1 DEF LoopTakeEvent, AtCheck, userVars
      <3>3. ~skip'
        BY Zenon, <1>5, <2>2 DEF LoopTakeEvent
      <3> QED BY <3>2, <3>3
    <2> QED BY <2>1, <2>2
  <1>6. CASE LoopRead /\ UNCHANGED sourceVars
    BY <1>6 DEF LoopRead, AtCheck, AtStop, bufferVars, elementVars, loopVars, userVars,
       sourceVars
  <1>7. CASE LoopPushBuffer /\ UNCHANGED sourceVars
    BY <1>7 DEF LoopPushBuffer, bufferVars, elementVars, loopVars, userVars, sourceVars
  <1>8. CASE LoopStore /\ UNCHANGED sourceVars
    BY <1>8 DEF LoopStore, bufferVars, elementVars, loopVars, userVars, sourceVars
  <1>9. CASE LoopPushEvent /\ UNCHANGED sourceVars
    BY <1>9 DEF LoopPushEvent, bufferVars, elementVars, loopVars, userVars, sourceVars
  <1>10. CASE LoopPause /\ UNCHANGED sourceVars
    BY <1>10 DEF LoopPause, bufferVars, elementVars, loopVars, userVars, sourceVars
  <1>11. CASE SeekSignal /\ UNCHANGED sourceVars
    BY <1>11 DEF SeekSignal, StopLoop, Signalled, bufferVars, elementVars, loopVars, userVars,
       sourceVars
  <1>12. CASE SeekLocked /\ UNCHANGED sourceVars
    BY <1>12 DEF SeekLocked, ReadFrom, bufferVars, elementVars, loopVars, userVars, sourceVars
  <1>13. CASE SeekRefused /\ UNCHANGED sourceVars
    BY <1>13 DEF SeekRefused, ReadFrom, bufferVars, elementVars, loopVars, userVars, sourceVars
  <1>14. CASE SeekFinish /\ UNCHANGED sourceVars
    BY <1>14 DEF SeekFinish, bufferVars, elementVars, loopVars, userVars, sourceVars
  <1>15. CASE DisposeSignal /\ UNCHANGED sourceVars
    BY <1>15 DEF DisposeSignal, StopLoop, Signalled, bufferVars, elementVars, loopVars,
       userVars, sourceVars
  <1>16. CASE DisposeStopTask /\ UNCHANGED sourceVars
    BY <1>16 DEF DisposeStopTask, bufferVars, elementVars, loopVars, userVars, sourceVars
  <1>17. CASE SeekFlushStart /\ UNCHANGED sourceVars
    BY <1>17 DEF SeekFlushStart, bufferVars, elementVars, loopVars, userVars, sourceVars
  <1>18. CASE DisposeFlush /\ UNCHANGED sourceVars
    BY <1>18 DEF DisposeFlush, bufferVars, elementVars, loopVars, userVars, sourceVars
  <1>20. CASE SourceFlushStart
    BY <1>20 DEF SourceFlushStart, bufferVars, elementVars, loopVars, userVars, sourceVars
  <1>21. CASE SourceStop
    BY <1>21 DEF SourceStop, bufferVars, elementVars, loopVars, userVars, sourceVars
  <1>22. CASE SourceSeek
    BY <1>22 DEF SourceSeek, bufferVars, elementVars, loopVars, userVars, sourceVars
  <1>23. CASE DisposeBuffer
    BY <1>23 DEF DisposeBuffer, DisposeJoined, bufferVars, elementVars, loopVars, userVars,
       sourceVars
  <1>24. CASE DisposeSource
    BY <1>24 DEF DisposeSource, bufferVars, elementVars, loopVars, userVars, sourceVars
  <1>25. CASE Disposed
    BY <1>25 DEF Disposed, bufferVars, elementVars, loopVars, userVars, sourceVars
  <1>26. CASE SourceFlushing
    BY <1>26 DEF SourceFlushing, bufferVars, elementVars, loopVars, userVars, sourceVars
  <1>27. CASE PushStreamStart
    BY <1>27 DEF PushStreamStart, PushEvent, sink_event, Enqueue, bufferVars, elementVars,
       loopVars, userVars, sourceVars
  <1>28. CASE PushSegment
    BY <1>28 DEF PushSegment, PushEvent, sink_event, Enqueue, enqueue_segment, Signalled,
       bufferVars, elementVars, loopVars, userVars, sourceVars
  <1>29. CASE PushEos
    BY <1>29 DEF PushEos, PushEvent, sink_event, Enqueue, enqueue_eos, Signalled, bufferVars,
       elementVars, loopVars, userVars, sourceVars
  <1>30. CASE PushBlock
    BY <1>30 DEF PushBlock, chain, enqueue_buffer, Signalled, bufferVars, elementVars, loopVars,
       userVars, sourceVars
  <1>31. CASE ReadEnd
    BY <1>31 DEF ReadEnd, bufferVars, elementVars, loopVars, userVars, sourceVars
  <1>32. CASE ReadError
    BY <1>32 DEF ReadError, bufferVars, elementVars, loopVars, userVars, sourceVars
  <1>33. CASE SourceStore
    BY <1>33 DEF SourceStore, bufferVars, elementVars, loopVars, userVars, sourceVars
  <1>34. CASE UNCHANGED vars
    BY <1>34 DEF vars, bufferVars, elementVars, loopVars, userVars, sourceVars
  <1> QED
    BY <1>1, <1>2, <1>3, <1>4, <1>5, <1>6, <1>7, <1>8, <1>9, <1>10, <1>11, <1>12, <1>13, <1>14,
       <1>15, <1>16, <1>17, <1>18, <1>20, <1>21, <1>22, <1>23, <1>24, <1>25, <1>26,
       <1>27, <1>28, <1>29, <1>30, <1>31, <1>32, <1>33, <1>34
       DEF Next, LoopStep, Loop, PlayerStep, SeekStep, DisposeStep, SourceCall, PlayerCall, Source

(* Whoever touches the segment, its end or the pending event discards a    *)

(* pending EOS; pushing the last buffer makes good for it.                 *)
LEMMA StepEnding ==
  ASSUME Shapes, Exclusive, Flow, Ending, [Next]_vars
  PROVE  Ending'
  <1> USE DEF Shapes, Exclusive, Flow, Ending, UserStreams, LoopStreams, None, NoEvent,
     EosEvent, Segment, NoBuffer
  <1>1. CASE LoopEnter /\ UNCHANGED sourceVars
    BY <1>1 DEF LoopEnter, bufferVars, elementVars, loopVars, userVars, sourceVars
  <1>2. CASE LoopAgain /\ UNCHANGED sourceVars
    BY <1>2 DEF LoopAgain, bufferVars, elementVars, loopVars, userVars, sourceVars
  <1>3. CASE LoopWait /\ UNCHANGED sourceVars
    BY <1>3 DEF LoopWait, AtCheck, NothingToPush, bufferVars, elementVars, loopVars, userVars,
       sourceVars
  <1>4. CASE LoopFlushed /\ UNCHANGED sourceVars
    BY <1>4 DEF LoopFlushed, AtCheck, bufferVars, elementVars, loopVars, userVars, sourceVars
  <1>5. CASE LoopTakeEvent /\ UNCHANGED sourceVars
    BY <1>5 DEF LoopTakeEvent, AtCheck, bufferVars, elementVars, loopVars, userVars, sourceVars
  <1>6. CASE LoopRead /\ UNCHANGED sourceVars
    <2>1. cache.read \in Nat
      BY ReadBuffer
    <2> QED BY <1>6, <2>1 DEF LoopRead, AtCheck, AtStop, bufferVars, elementVars, loopVars,
       userVars, sourceVars
  <1>7. CASE LoopPushBuffer /\ UNCHANGED sourceVars
    BY ZenonT(60), <1>7 DEF LoopPushBuffer, bufferVars, elementVars, loopVars, userVars, sourceVars
  <1>8. CASE LoopStore /\ UNCHANGED sourceVars
    BY <1>8 DEF LoopStore, bufferVars, elementVars, loopVars, userVars, sourceVars
  <1>9. CASE LoopPushEvent /\ UNCHANGED sourceVars
    BY <1>9 DEF LoopPushEvent, bufferVars, elementVars, loopVars, userVars, sourceVars
  <1>10. CASE LoopPause /\ UNCHANGED sourceVars
    BY <1>10 DEF LoopPause, bufferVars, elementVars, loopVars, userVars, sourceVars
  <1>11. CASE SeekSignal /\ UNCHANGED sourceVars
    BY <1>11 DEF SeekSignal, StopLoop, Signalled, bufferVars, elementVars, loopVars, userVars,
       sourceVars
  <1>12. CASE SeekLocked /\ UNCHANGED sourceVars
    BY <1>12 DEF SeekLocked, ReadFrom, bufferVars, elementVars, loopVars, userVars, sourceVars
  <1>13. CASE SeekRefused /\ UNCHANGED sourceVars
    BY <1>13 DEF SeekRefused, ReadFrom, bufferVars, elementVars, loopVars, userVars, sourceVars
  <1>14. CASE SeekFinish /\ UNCHANGED sourceVars
    BY <1>14 DEF SeekFinish, bufferVars, elementVars, loopVars, userVars, sourceVars
  <1>15. CASE DisposeSignal /\ UNCHANGED sourceVars
    BY <1>15 DEF DisposeSignal, StopLoop, Signalled, bufferVars, elementVars, loopVars,
       userVars, sourceVars
  <1>16. CASE DisposeStopTask /\ UNCHANGED sourceVars
    BY <1>16 DEF DisposeStopTask, bufferVars, elementVars, loopVars, userVars, sourceVars
  <1>17. CASE SeekFlushStart /\ UNCHANGED sourceVars
    BY <1>17 DEF SeekFlushStart, bufferVars, elementVars, loopVars, userVars, sourceVars
  <1>18. CASE DisposeFlush /\ UNCHANGED sourceVars
    BY <1>18 DEF DisposeFlush, bufferVars, elementVars, loopVars, userVars, sourceVars
  <1>20. CASE SourceFlushStart
    BY <1>20 DEF SourceFlushStart, bufferVars, elementVars, loopVars, userVars, sourceVars
  <1>21. CASE SourceStop
    BY <1>21 DEF SourceStop, bufferVars, elementVars, loopVars, userVars, sourceVars
  <1>22. CASE SourceSeek
    BY <1>22 DEF SourceSeek, bufferVars, elementVars, loopVars, userVars, sourceVars
  <1>23. CASE DisposeBuffer
    BY <1>23 DEF DisposeBuffer, DisposeJoined, bufferVars, elementVars, loopVars, userVars,
       sourceVars
  <1>24. CASE DisposeSource
    BY <1>24 DEF DisposeSource, bufferVars, elementVars, loopVars, userVars, sourceVars
  <1>25. CASE Disposed
    BY <1>25 DEF Disposed, bufferVars, elementVars, loopVars, userVars, sourceVars
  <1>26. CASE SourceFlushing
    BY <1>26 DEF SourceFlushing, bufferVars, elementVars, loopVars, userVars, sourceVars
  <1>27. CASE PushStreamStart
    BY <1>27 DEF PushStreamStart, PushEvent, sink_event, Enqueue, bufferVars, elementVars,
       loopVars, userVars, sourceVars
  <1>28. CASE PushSegment
    BY <1>28 DEF PushSegment, PushEvent, sink_event, Enqueue, enqueue_segment, Signalled,
       bufferVars, elementVars, loopVars, userVars, sourceVars
  <1>29. CASE PushEos
    BY <1>29 DEF PushEos, PushEvent, sink_event, Enqueue, enqueue_eos, Signalled, bufferVars,
       elementVars, loopVars, userVars, sourceVars
  <1>30. CASE PushBlock
    BY <1>30 DEF PushBlock, chain, enqueue_buffer, Signalled, bufferVars, elementVars, loopVars,
       userVars, sourceVars
  <1>31. CASE ReadEnd
    BY <1>31 DEF ReadEnd, bufferVars, elementVars, loopVars, userVars, sourceVars
  <1>32. CASE ReadError
    BY <1>32 DEF ReadError, bufferVars, elementVars, loopVars, userVars, sourceVars
  <1>33. CASE SourceStore
    BY <1>33 DEF SourceStore, bufferVars, elementVars, loopVars, userVars, sourceVars
  <1>34. CASE UNCHANGED vars
    BY <1>34 DEF vars, bufferVars, elementVars, loopVars, userVars, sourceVars
  <1> QED
    BY <1>1, <1>2, <1>3, <1>4, <1>5, <1>6, <1>7, <1>8, <1>9, <1>10, <1>11, <1>12, <1>13, <1>14,
       <1>15, <1>16, <1>17, <1>18, <1>20, <1>21, <1>22, <1>23, <1>24, <1>25, <1>26,
       <1>27, <1>28, <1>29, <1>30, <1>31, <1>32, <1>33, <1>34
       DEF Next, LoopStep, Loop, PlayerStep, SeekStep, DisposeStep, SourceCall, PlayerCall, Source

(* What moves the file under the loop announces a segment; reading and     *)

(* pushing move both ends together.                                        *)
LEMMA StepSequence ==
  ASSUME IInv, Unbroken, Shapes, Flow, SequenceInv, [Next]_vars
  PROVE  SequenceInv'
  <1> USE DEF IInv, Exclusive, Shapes, Flow, SequenceInv, Announced, Behind, Following,
     SeekTargets, InSequence, UserStreams, LoopStreams, None, NoEvent, EosEvent, Segment,
     NoBuffer
  <1>1. CASE LoopEnter /\ UNCHANGED sourceVars
    BY <1>1 DEF LoopEnter, bufferVars, elementVars, loopVars, userVars, sourceVars
  <1>2. CASE LoopAgain /\ UNCHANGED sourceVars
    BY <1>2 DEF LoopAgain, bufferVars, elementVars, loopVars, userVars, sourceVars
  <1>3. CASE LoopWait /\ UNCHANGED sourceVars
    BY <1>3 DEF LoopWait, AtCheck, NothingToPush, bufferVars, elementVars, loopVars, userVars,
       sourceVars
  <1>4. CASE LoopFlushed /\ UNCHANGED sourceVars
    BY <1>4 DEF LoopFlushed, AtCheck, bufferVars, elementVars, loopVars, userVars, sourceVars
  <1>5. CASE LoopTakeEvent /\ UNCHANGED sourceVars
    BY <1>5 DEF LoopTakeEvent, AtCheck, bufferVars, elementVars, loopVars, userVars, sourceVars
  <1>6. CASE LoopRead /\ UNCHANGED sourceVars
    <2>1. cache.read \in Nat /\ cache'.read = cache.read + 1
      BY <1>6, ReadPosition DEF LoopRead
    <2> QED BY <1>6, <2>1 DEF LoopRead, AtCheck, AtStop, bufferVars, elementVars, loopVars,
       userVars, sourceVars
  <1>7. CASE LoopPushBuffer /\ UNCHANGED sourceVars
    BY <1>7 DEF LoopPushBuffer, bufferVars, elementVars, loopVars, userVars, sourceVars
  <1>8. CASE LoopStore /\ UNCHANGED sourceVars
    BY <1>8 DEF LoopStore, bufferVars, elementVars, loopVars, userVars, sourceVars
  <1>9. CASE LoopPushEvent /\ UNCHANGED sourceVars
    BY <1>9 DEF LoopPushEvent, bufferVars, elementVars, loopVars, userVars, sourceVars
  <1>10. CASE LoopPause /\ UNCHANGED sourceVars
    BY <1>10 DEF LoopPause, bufferVars, elementVars, loopVars, userVars, sourceVars
  <1>11. CASE SeekSignal /\ UNCHANGED sourceVars
    BY <1>11 DEF SeekSignal, StopLoop, Signalled, bufferVars, elementVars, loopVars, userVars,
       sourceVars
  <1>12. CASE SeekLocked /\ UNCHANGED sourceVars
    <2>1. ASSUME target >= seg.start
          PROVE  cache_set_read_position(cache, target - offset).read = target - offset
      <3>1. target - offset \in Nat /\ cache \in Cache(Nat)
        BY <1>12, <2>1 DEF SeekLocked
      <3> QED BY <3>1, ReadPosition
    <2> QED BY <1>12, <2>1 DEF SeekLocked, ReadFrom, Instant, bufferVars, elementVars, loopVars,
       userVars, sourceVars
  <1>13. CASE SeekRefused /\ UNCHANGED sourceVars
    <2>1. offset = 0
      BY <1>13 DEF SeekRefused, FirstSegment, Unbroken
    <2>2. cache_set_read_position(cache, target - offset).read = target - offset
      <3>1. target - offset \in Nat /\ cache \in Cache(Nat)
        BY <2>1
      <3> QED BY <3>1, ReadPosition
    <2> QED BY <1>13, <2>1, <2>2 DEF SeekRefused, ReadFrom, bufferVars, elementVars, loopVars,
       userVars, sourceVars
  <1>14. CASE SeekFinish /\ UNCHANGED sourceVars
    BY <1>14 DEF SeekFinish, bufferVars, elementVars, loopVars, userVars, sourceVars
  <1>15. CASE DisposeSignal /\ UNCHANGED sourceVars
    BY <1>15 DEF DisposeSignal, StopLoop, Signalled, bufferVars, elementVars, loopVars,
       userVars, sourceVars
  <1>16. CASE DisposeStopTask /\ UNCHANGED sourceVars
    BY <1>16 DEF DisposeStopTask, bufferVars, elementVars, loopVars, userVars, sourceVars
  <1>17. CASE SeekFlushStart /\ UNCHANGED sourceVars
    BY <1>17 DEF SeekFlushStart, bufferVars, elementVars, loopVars, userVars, sourceVars
  <1>18. CASE DisposeFlush /\ UNCHANGED sourceVars
    BY <1>18 DEF DisposeFlush, bufferVars, elementVars, loopVars, userVars, sourceVars
  <1>20. CASE SourceFlushStart
    BY <1>20 DEF SourceFlushStart, bufferVars, elementVars, loopVars, userVars, sourceVars
  <1>21. CASE SourceStop
    BY <1>21 DEF SourceStop, bufferVars, elementVars, loopVars, userVars, sourceVars
  <1>22. CASE SourceSeek
    BY <1>22 DEF SourceSeek, bufferVars, elementVars, loopVars, userVars, sourceVars
  <1>23. CASE DisposeBuffer
    BY <1>23 DEF DisposeBuffer, DisposeJoined, bufferVars, elementVars, loopVars, userVars,
       sourceVars
  <1>24. CASE DisposeSource
    BY <1>24 DEF DisposeSource, bufferVars, elementVars, loopVars, userVars, sourceVars
  <1>25. CASE Disposed
    BY <1>25 DEF Disposed, bufferVars, elementVars, loopVars, userVars, sourceVars
  <1>26. CASE SourceFlushing
    BY <1>26 DEF SourceFlushing, bufferVars, elementVars, loopVars, userVars, sourceVars
  <1>27. CASE PushStreamStart
    BY <1>27 DEF PushStreamStart, PushEvent, sink_event, Enqueue, bufferVars, elementVars,
       loopVars, userVars, sourceVars
  <1>28. CASE PushSegment
    <2>1. cache_set_write_position(cache, 0) \in Cache(Nat)
      BY SetPositions
    <2>2. /\ cache_set_read_position(cache_set_write_position(cache, 0), 0).read = 0
          /\ create_cache.read = 0
      BY <2>1, ReadPosition
    <2> QED BY <1>28, <2>2 DEF PushSegment, PushEvent, sink_event, Enqueue, enqueue_segment,
       Signalled,
               FirstSegment, bufferVars, elementVars, loopVars, userVars, sourceVars
  <1>29. CASE PushEos
    BY <1>29 DEF PushEos, PushEvent, sink_event, Enqueue, enqueue_eos, Signalled, bufferVars,
       elementVars, loopVars, userVars, sourceVars
  <1>30. CASE PushBlock
    <2>1. cache'.read = cache.read
      BY <1>30, ReadPosition DEF PushBlock, chain, enqueue_buffer, bufferVars, elementVars,
         loopVars, userVars, sourceVars
    <2> QED BY <1>30, <2>1 DEF PushBlock, chain, enqueue_buffer, Signalled, bufferVars,
       elementVars, loopVars, userVars, sourceVars
  <1>31. CASE ReadEnd
    BY <1>31 DEF ReadEnd, bufferVars, elementVars, loopVars, userVars, sourceVars
  <1>32. CASE ReadError
    BY <1>32 DEF ReadError, bufferVars, elementVars, loopVars, userVars, sourceVars
  <1>33. CASE SourceStore
    BY <1>33 DEF SourceStore, bufferVars, elementVars, loopVars, userVars, sourceVars
  <1>34. CASE UNCHANGED vars
    BY <1>34 DEF vars, bufferVars, elementVars, loopVars, userVars, sourceVars
  <1> QED
    BY <1>1, <1>2, <1>3, <1>4, <1>5, <1>6, <1>7, <1>8, <1>9, <1>10, <1>11, <1>12, <1>13, <1>14,
       <1>15, <1>16, <1>17, <1>18, <1>20, <1>21, <1>22, <1>23, <1>24, <1>25, <1>26,
       <1>27, <1>28, <1>29, <1>30, <1>31, <1>32, <1>33, <1>34
       DEF Next, LoopStep, Loop, PlayerStep, SeekStep, DisposeStep, SourceCall, PlayerCall, Source
-----------------------------------------------------------------------------
EndInv == Shapes /\ WakeInv /\ Flow /\ Ending

SeqInv == IInv /\ Unbroken /\ Shapes /\ Flow /\ SequenceInv

(* The shapes, the flow and the sequence are right initially.              *)
LEMMA InitSequence == Init => Shapes /\ WakeInv /\ Flow /\ Ending /\ SequenceInv
  <1> SUFFICES ASSUME Init PROVE Shapes /\ WakeInv /\ Flow /\ Ending /\ SequenceInv
    OBVIOUS
  <1>1. cache \in Cache(Nat)
    BY CreateCache DEF Init, BufferInit
  <1>2. Shapes
    <2> HIDE DEF Cache
    <2> QED BY <1>1 DEF Init, BufferInit, Shapes, NoBuffer, None, NoStop
  <1>3. WakeInv /\ Flow /\ Ending
    BY DEF Init, BufferInit, WakeInv, Exclusive, NoLostWakeup, Flow, Ending, UserStreams,
       LoopStreams, NoEvent, EosEvent
  <1>4. SequenceInv
    BY DEF Init, BufferInit, SequenceInv, Announced, Behind, Following, SeekTargets, InSequence,
       UserStreams, NoEvent
  <1> QED BY <1>2, <1>3, <1>4
-----------------------------------------------------------------------------
(* The types of the progress buffer and its source, for every size of the  *)
(* media and every number of seeks: no offset leaves the media, as long as *)
(* the flush of a refused seek loses no push (progressbuffer.c,            *)
(* javasource.c).                                                          *)
THEOREM TypesHold ==
  ASSUME Harmless
  PROVE  Spec => []TypeOK
  <1>1. Init => IInv /\ Unbroken
    BY InitInv, InitUnbroken
  <1>2. IInv /\ Unbroken /\ [Next]_vars => (IInv /\ Unbroken)'
    BY StepInv, StepUnbroken
  <1>3. IInv => TypeOK
    BY DEF IInv
  <1> QED BY <1>1, <1>2, <1>3, PTL DEF Spec

(* While a block is pushed, it is the block of the media at the offset it  *)
(* is pushed for, whatever the player seeks and the server refuses, as     *)
(* long as the flush of a refused seek loses no push                       *)
(* (progress_buffer_loop, enqueue_item, java_source_perform_seek).         *)
THEOREM DataStaysIntact ==
  ASSUME Harmless
  PROVE  Spec => []DataIntact
  <1>1. Init => IInv /\ Unbroken
    BY InitInv, InitUnbroken
  <1>2. IInv /\ Unbroken /\ [Next]_vars => (IInv /\ Unbroken)'
    BY StepInv, StepUnbroken
  <1>3. IInv => DataIntact
    BY DEF IInv
  <1> QED BY <1>1, <1>2, <1>3, PTL DEF Spec

(* The loop never sleeps on add_cond while it should flush or push an      *)
(* event, whether seeks of the source fail or not (every section that      *)
(* changes srcresult or pending_src_event, progressbuffer.c).              *)
THEOREM WakeupsArrive == Spec => []NoLostWakeup
  <1>1. Init => WakeInv
    BY DEF Init, BufferInit, WakeInv, Exclusive, NoLostWakeup, UserStreams, LoopStreams
  <1>2. WakeInv /\ [Next]_vars => WakeInv'
    BY StepWake
  <1>3. WakeInv => NoLostWakeup
    BY DEF WakeInv
  <1> QED BY <1>1, <1>2, <1>3, PTL DEF Spec

(* An EOS that the loop is about to push comes after the last buffer of    *)
(* its segment, for every size of the media, every early end of the        *)
(* connection and every failed seek (the event that progress_buffer_loop   *)
(* makes pending with the last buffer of a segment, and everything that    *)
(* may move the end of the segment before it is pushed).                   *)
THEOREM EosComesLast == Spec => []EosAtEnd
  <1>1. Init => EndInv
    BY InitSequence DEF EndInv
  <1>2. EndInv /\ [Next]_vars => EndInv'
    BY StepShapes, StepWake, StepFlow, StepEnding DEF EndInv, WakeInv
  <1>3. EndInv => EosAtEnd
    BY DEF EndInv, Ending, EosAtEnd, AtCheck
  <1> QED BY <1>1, <1>2, <1>3, PTL DEF Spec

(* Until the download has ended, every buffer that downstream takes        *)
(* follows the segment's start or the buffer before it without gap or      *)
(* repetition, as long as the flush of a refused seek loses no push: a     *)
(* seek in the file, a seek of the source and a segment that arrives       *)
(* during a push never let the loop read past what it has announced        *)
(* (progress_buffer_loop, progress_buffer_perform_push_seek, enqueue_item).*)
THEOREM BuffersInSequence ==
  ASSUME Harmless
  PROVE  Spec => []InSequence
  <1>1. Init => SeqInv
    BY InitInv, InitUnbroken, InitSequence DEF SeqInv
  <1>2. SeqInv /\ [Next]_vars => SeqInv'
    <2>1. SeqInv => Exclusive
      BY DEF SeqInv, IInv
    <2> QED BY <2>1, StepInv, StepUnbroken, StepShapes, StepFlow, StepSequence DEF SeqInv
  <1>3. SeqInv => InSequence
    BY DEF SeqInv, SequenceInv
  <1> QED BY <1>1, <1>2, <1>3, PTL DEF Spec
=============================================================================
