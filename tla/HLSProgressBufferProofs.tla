----------------------- MODULE HLSProgressBufferProofs ----------------------
(***************************************************************************)
(* What the buffer of an HTTP live stream hands downstream is the stream,  *)
(* block after block, for every ring of files, every stream and every      *)
(* number of seeks and failures.                                           *)
(*                                                                         *)
(* The argument is about the ring.  While downstream is not flushing, the  *)
(* files in use lie one behind the other from the one that the loop reads, *)
(* and hold consecutive segments; the source stores into the last of them. *)
(* Three things disturb that.  A segment event that overtakes a flush      *)
(* claims a file that no block will ever be stored in, and then the loop   *)
(* waits at that file until the next seek (Stuck).  After a failed push    *)
(* the loop reads nothing until the next flush (Broken), while the source  *)
(* goes on storing.  And after a failed seek nothing is known until a seek *)
(* succeeds (astray).                                                      *)
(***************************************************************************)
EXTENDS HLSProgressBuffer, SequenceTheorems, TLAPS

(* The source is in the event of a segment with content; in it it waits    *)
(* for a file; it is in a push, of an event or of a block.                 *)
Preparing == spc \in {"segment", "restart", "startTask", "announce"}
Waiting   == spc \in {"full", "missed", "waiting", "asleep", "woken"}
InEvent   == (Preparing /\ block # Start(segment)) \/ spc = "claim" \/ Waiting
InPush    == Preparing \/ spc \in {"claim", "chain"} \/ Waiting

(* The source has sent EOS and is about to pause, or has.                  *)
Ended == isEos /\ event = "eos" /\ (spc = "parked" \/ (spc = "store" /\ sgot = "eos"))

Empty(s) == s.cache.read >= s.cache.write

(* Where the source is in its segment.                                     *)
Places ==
  /\ Preparing => event = "data"
  /\ InEvent => event = "data" /\ segment > 0 /\ block = Start(segment - 1)
  /\ spc = "chain" => event = "data" /\ block < Start(segment)
  /\ event = "data" => block <= Start(segment)
  /\ spc \in {"restart", "startTask", "announce", "claim"} \/ Waiting => ~isEos
  /\ spc = "push" /\ sres = "flushing" => down.flushing

(* No file is claimed only while nothing is going to be stored, or read.   *)
Claims ==
  /\ wi = None /\ srcresult # "flushing" /\ event = "data" /\ ~astray =>
       \/ Preparing \/ spc \in {"claim", "parked"} \/ (spc = "store" /\ sgot # "ok")
       \/ Waiting \/ block = Start(segment) \/ (srcresult = "failed" /\ down.flushing)
  /\ wi = None /\ Waiting => srcresult # "ok"
  /\ wi = None /\ ~down.flushing =>
       srcresult # "failed" /\ pc \notin {"push", "store"} /\ \A i \in Slots : Empty(slots[i])

(* What a flush leaves: rewound files, of which a segment event that was   *)
(* under way may have claimed the first.                                   *)
Emptied ==
  /\ ri = 0
  /\ \A i \in Slots : slots[i].cache.read = 0 /\ slots[i].cache.write = 0
  /\ \/ wi = None /\ \A i \in Slots : slots[i].ready
     \/ wi = 0 /\ ~InPush /\ \A i \in Slots : slots[i].ready <=> i # 0

(* How far the player's thread is, and what is flushing then.              *)
Phases ==
  /\ user = "idle" => ~sflush /\ ~isFlushing /\ ~down.flushing
  /\ user = "flushDown" => sflush /\ ~down.flushing
  /\ user \notin {"idle", "flushDown", "crashed"} => down.flushing
  /\ user = "crashed" => astray \/ down.flushing
  /\ user \in {"flushData", "pauseTask", "awaitLoop", "awaitSource"} => sflush
  /\ user \in {"flushDown", "flushData", "pauseTask", "awaitLoop", "awaitSource"} => seeks > 0
  /\ astray => seeks > 0
  /\ user \in {"pauseTask", "awaitLoop", "awaitSource"} => Emptied
  /\ user \in {"awaitLoop", "awaitSource"} /\ isEos => task = "paused"
  /\ user = "awaitSource" => pc \notin {"push", "store"} /\ (isEos => pc \in {"parked", "done"})

(* While downstream is not flushing, only EOS makes the result FLUSHING,   *)
(* and an EOS from before a seek finds the loop parked, until it is        *)
(* started again.                                                          *)
Calm ==
  /\ pc = "store" /\ res = "flushing" => down.flushing
  /\ ~down.flushing /\ srcresult = "flushing" => Ended
  /\ ~down.flushing /\ srcresult = "failed" => pc \notin {"push", "store"}
  /\ ~down.flushing /\ ((isEos /\ ~Ended) \/ spc \in {"restart", "startTask"})
       => task = "paused" /\ pc \in {"parked", "done", "crashed"} /\ srcresult = "ok"
  /\ ~down.flushing /\ ~sflush /\ isEos => event # "data" \/ spc = "segment" \/ astray

(* Until the segment is announced downstream there is nothing to push.     *)
Announcing == ~down.flushing /\ ~down.segment /\ ~astray =>
  /\ sendNewSegment /\ pc \notin {"push", "store"} /\ srcresult # "failed"
  /\ \A i \in Slots : Empty(slots[i])
  /\ spc \notin {"claim", "chain"} /\ ~Waiting
  /\ sflush \/ event # "data" \/ Preparing \/ block = Start(segment)

(* Places of the ring, counted from the one that is read; the place that   *)
(* is claimed next; and the block that the loop reads next.                *)
Dist(i)  == IF i >= ri THEN i - ri ELSE i - ri + N
After(k) == IF ri + k < N THEN ri + k ELSE ri + k - N
NextSlot == IF Waiting THEN wi ELSE IF wi + 1 = N THEN 0 ELSE wi + 1
next     == IF pc = "push" THEN out + 1 ELSE down.next

(* A file in use: it holds a part of segment n from the start on.          *)
Unread(s, first, n) ==
  /\ s.size = SegmentSize /\ s.cache.write <= SegmentSize /\ s.cache.read <= s.cache.write
  /\ IF first THEN s.cache.read < SegmentSize ELSE s.cache.read = 0
  /\ \A p \in 0..s.cache.write-1 : s.cache.file[p + 1] = Start(n) + p

(* The source takes part, and is about to store more of its segment.       *)
Live    == ~sflush \/ spc = "chain"
Storing == ~InEvent /\ event = "data" /\ block # Start(segment)

(* k files are in use, the first for segment b; all but the last are full, *)
(* and the source goes on behind the last.                                 *)
Ring(b, k) ==
  /\ \A i \in Slots : slots[i].ready <=> Dist(i) >= k
  /\ NextSlot = After(k)
  /\ next = Start(b) + (IF k = 0 THEN 0 ELSE slots[ri].cache.read)
  /\ \A i \in Slots : IF Dist(i) < k THEN Unread(slots[i], i = ri, b + Dist(i)) ELSE Empty(slots[i])
  /\ InEvent => segment = b + k + 1
  /\ ~InEvent /\ Live => segment = b + k
  /\ Storing /\ Live => wi # None /\ k > 0 /\ block = Start(segment - 1) + slots[wi].cache.write
  /\ Live => \A i \in Slots : Dist(i) < k =>
                slots[i].cache.write = SegmentSize \/ (i = wi /\ Storing)

(* The loop waits at a file that is never written.                         *)
Stuck == /\ ~slots[ri].ready /\ slots[ri].cache.read = 0 /\ slots[ri].cache.write = 0
         /\ pc # "push"
         /\ wi = ri => ~(Storing /\ Live)

(* A push has failed: nothing is read until the next flush.                *)
Broken == srcresult = "failed" \/ (pc = "store" /\ res = "failed")

Sound == ~down.flushing /\ ~astray /\ ~Broken =>
           (Stuck /\ seeks > 0) \/ \E b \in 0..Segments, k \in 0..N : Ring(b, k)

Order == pc = "push" /\ ~down.flushing /\ ~astray => out = down.next

(* Undisturbed, EOS finds the whole stream stored, and read when it is     *)
(* pushed.                                                                 *)
Final == Undisturbed =>
  /\ event = "eos" => segment = Segments
  /\ isEos => Ended
  /\ down.ended => /\ isEos /\ srcresult = "flushing" /\ pc \notin {"push", "store"}
                   /\ \A i \in Slots : slots[i].ready

IInv == TypeOK /\ Places /\ Claims /\ Phases /\ Calm /\ Announcing /\ Sound /\ Order /\ Final

(* What the slots of the ring are (TypeOK).                                *)
Files == [Slots -> [cache : Cache(Blocks), size : {0, SegmentSize}, ready : BOOLEAN]]

-----------------------------------------------------------------------------
(* What the operations of the backing file (filecache.c) do to its         *)
(* positions and its content.                                              *)

(* A write appends or overwrites one block and leaves the ones before it.  *)
LEMMA WriteBuffer ==
  ASSUME NEW B, NEW c \in Cache(B), NEW b \in B
  PROVE  /\ cache_write_buffer(c, b) \in Cache(B)
         /\ cache_write_buffer(c, b).write = c.write + 1
         /\ cache_write_buffer(c, b).file[c.write + 1] = b
         /\ \A q \in 0..c.write-1 : cache_write_buffer(c, b).file[q + 1] = c.file[q + 1]
  <1> DEFINE w == c.write
             f == c.file
             g == IF w < Len(f) THEN [f EXCEPT ![w + 1] = b] ELSE Append(f, b)
  <1>1. c \in [read : Nat, write : Nat, file : Seq(B)] /\ c.write <= Len(c.file)
    BY DEF Cache
  <1>2. w \in Nat /\ f \in Seq(B) /\ w <= Len(f)
    BY <1>1
  <1>3. cache_write_buffer(c, b) = [c EXCEPT !.write = w + 1, !.file = g]
    BY Zenon DEF cache_write_buffer
  <1> HIDE DEF g
  <1>4. cache_write_buffer(c, b) = [read |-> c.read, write |-> w + 1, file |-> g]
    BY <1>1, <1>3
  <1> HIDE DEF w, f
  <1>5. /\ g \in Seq(B) /\ w + 1 <= Len(g) /\ g[w + 1] = b
        /\ \A q \in 0..w-1 : g[q + 1] = f[q + 1]
    <2>1. CASE w < Len(f)
      <3>1. [f EXCEPT ![w + 1] = b] \in Seq(B) /\ Len([f EXCEPT ![w + 1] = b]) = Len(f)
        BY <1>2, <2>1, ExceptSeq
      <3> QED BY <1>2, <2>1, <3>1 DEF g
    <2>2. CASE ~(w < Len(f))
      BY <1>2, <2>2 DEF g
    <2> QED BY <2>1, <2>2
  <1> QED BY <1>1, <1>2, <1>4, <1>5 DEF Cache, w, f

(* The positions move without touching the file.                           *)
LEMMA SetPositions ==
  ASSUME NEW B, NEW c \in Cache(B)
  PROVE  /\ \A p \in Int : /\ cache_set_read_position(c, p) \in Cache(B)
                           /\ cache_set_read_position(c, p).write = c.write
                           /\ cache_set_read_position(c, p).file = c.file
         /\ cache_set_write_position(c, 0) \in Cache(B)
         /\ cache_set_write_position(c, 0).write = 0
  BY DEF Cache, cache_set_read_position, cache_set_write_position

(* A read that finds data returns what the file holds at the read position.*)
LEMMA ReadBuffer ==
  ASSUME NEW B, NEW c \in Cache(B)
  PROVE  /\ cache_read_buffer(c) \in Cache(B)
         /\ cache_read_buffer(c).write = c.write
         /\ cache_read_buffer(c).file = c.file
         /\ c.read \in Nat /\ c.write \in Nat
         /\ cache_has_enough_data(c) => BlockRead(c) \in B /\ c.read \in 0..c.write-1
  BY DEF Cache, cache_read_buffer, cache_has_enough_data, BlockRead

(* What the operations of the file cache do to the read position.          *)
LEMMA ReadPosition ==
  ASSUME NEW B, NEW c \in Cache(B)
  PROVE  /\ c.read \in Nat
         /\ cache_read_buffer(c).read = c.read + 1
         /\ \A p \in Nat : cache_set_read_position(c, p).read = p
         /\ \A b : cache_write_buffer(c, b).read = c.read
         /\ create_cache.read = 0
  BY DEF Cache, cache_read_buffer, cache_set_read_position, cache_write_buffer, create_cache
-----------------------------------------------------------------------------
USE HLSAssumption DEF Files
-----------------------------------------------------------------------------
(* Where segments start: products are needed here and nowhere else.        *)
LEMMA StartFacts ==
  /\ Start(0) = 0 /\ Start(Segments) = Last
  /\ \A n \in Nat : Start(n) \in Nat /\ Start(n + 1) = Start(n) + SegmentSize
  /\ \A m, n \in Nat : m <= n => Start(m) <= Start(n)
  BY DEF Start, Last

(* A segment of the stream starts in it, and is not empty.                 *)
LEMMA StartBounds ==
  ASSUME NEW n \in 0..Segments
  PROVE  /\ Start(n) \in Nat /\ Last \in Nat /\ Start(n) <= Last /\ Start(n) \in 0..Last
         /\ Start(n + 1) \in Nat /\ Start(n) < Start(n + 1)
  <1>1. n \in Nat /\ Segments \in Nat /\ n <= Segments /\ n + 1 \in Nat /\ SegmentSize \in Nat \ {0}
    OBVIOUS
  <1>2. /\ Start(n) \in Nat /\ Start(Segments) \in Nat /\ Start(n) <= Start(Segments)
        /\ Start(n + 1) = Start(n) + SegmentSize
    BY <1>1, StartFacts
  <1>3. Start(Segments) = Last
    BY StartFacts
  <1> QED BY <1>1, <1>2, <1>3

(* The successor in the ring, without a remainder.                         *)
LEMMA NextIndex ==
  ASSUME NEW x \in Slots \cup {None}
  PROVE  (x + 1) % N = (IF x + 1 = N THEN 0 ELSE x + 1) /\ (x + 1) % N \in Slots
  BY DEF Slots, None, N

(* A file that is rewound is a file.                                       *)
LEMMA Rewound ==
  ASSUME NEW c \in Cache(Blocks)
  PROVE  LET r == cache_set_read_position(cache_set_write_position(c, 0), 0)
         IN r \in Cache(Blocks) /\ r.read = 0 /\ r.write = 0
  <1>1. cache_set_write_position(c, 0) \in Cache(Blocks) /\ cache_set_write_position(c, 0).write = 0
    BY SetPositions
  <1>2. ASSUME NEW d \in Cache(Blocks)
        PROVE  /\ cache_set_read_position(d, 0) \in Cache(Blocks)
               /\ cache_set_read_position(d, 0).read = 0
               /\ cache_set_read_position(d, 0).write = d.write
    <2>1. 0 \in Int /\ 0 \in Nat
      OBVIOUS
    <2> QED BY <2>1, SetPositions, ReadPosition
  <1> QED BY <1>1, <1>2

(* What a claim leaves of the files.                                       *)
LEMMA ClaimedSlots ==
  ASSUME TypeOK, NEW i \in Slots
  PROVE  /\ Claimed(i) \in Files
         /\ \A j \in Slots : j # i => Claimed(i)[j] = slots[j]
         /\ ~Claimed(i)[i].ready /\ Claimed(i)[i].size = SegmentSize
         /\ Claimed(i)[i].cache.read = 0 /\ Claimed(i)[i].cache.write = 0
  <1> DEFINE c == cache_set_read_position(cache_set_write_position(slots[i].cache, 0), 0)
  <1>1. c \in Cache(Blocks) /\ c.read = 0 /\ c.write = 0
    BY Rewound DEF TypeOK
  <1>2. Claimed(i) = [slots EXCEPT ![i] = [cache |-> c, size |-> SegmentSize, ready |-> FALSE]]
    BY DEF Claimed
  <1> HIDE DEF c
  <1> QED BY <1>1, <1>2 DEF TypeOK

(* What a flush leaves of the files.                                       *)
LEMMA FlushedSlots ==
  ASSUME TypeOK, FlushData
  PROVE  /\ slots' \in Files
         /\ \A i \in Slots : /\ slots'[i].ready
                             /\ slots'[i].cache.read = 0 /\ slots'[i].cache.write = 0
  <1> DEFINE c(i) == cache_set_read_position(cache_set_write_position(slots[i].cache, 0), 0)
  <1>1. \A i \in Slots : c(i) \in Cache(Blocks) /\ c(i).read = 0 /\ c(i).write = 0
    BY Rewound DEF TypeOK
  <1>2. slots' = [i \in Slots |-> [cache |-> c(i), size |-> 0, ready |-> TRUE]]
    BY DEF FlushData
  <1> HIDE DEF c
  <1> QED BY <1>1, <1>2

(* What a read leaves of the files, and what it returns.                   *)
LEMMA ReadSlots ==
  ASSUME TypeOK, LoopRead
  PROVE  LET s == slots[ri]
             done == s.cache.read + 1 = s.size
         IN /\ slots' \in Files
            /\ \A j \in Slots : j # ri => slots'[j] = slots[j]
            /\ slots'[ri].ready <=> s.ready \/ done
            /\ slots'[ri].size = s.size
            /\ slots'[ri].cache.read = s.cache.read + 1
            /\ slots'[ri].cache.write = s.cache.write /\ slots'[ri].cache.file = s.cache.file
            /\ s.cache.read \in 0..s.cache.write-1 /\ s.cache.write \in Nat
            /\ out' = s.cache.file[s.cache.read + 1] /\ out' \in Blocks
            /\ ri' = (IF ~done THEN ri ELSE IF ri + 1 = N THEN 0 ELSE ri + 1) /\ ri' \in Slots
  <1> DEFINE s == slots[ri]
             done == s.cache.read + 1 = s.size
             c == cache_read_buffer(s.cache)
             r == s.ready \/ done
  <1>1. /\ s \in [cache : Cache(Blocks), size : {0, SegmentSize}, ready : BOOLEAN]
        /\ s.cache \in Cache(Blocks) /\ ri \in Slots
    BY DEF TypeOK
  <1>2. /\ c \in Cache(Blocks) /\ c.read = s.cache.read + 1
        /\ c.write = s.cache.write /\ c.file = s.cache.file
        /\ s.cache.read \in 0..s.cache.write-1 /\ s.cache.write \in Nat
        /\ BlockRead(s.cache) \in Blocks
    BY <1>1, ReadBuffer, ReadPosition DEF LoopRead, HasData
  <1>3. out' = s.cache.file[s.cache.read + 1] /\ out' \in Blocks
    BY <1>2 DEF LoopRead, BlockRead
  <1>4. /\ ri' = (IF ~done THEN ri ELSE IF ri + 1 = N THEN 0 ELSE ri + 1) /\ ri' \in Slots
    BY <1>1, NextIndex DEF LoopRead
  <1>5. slots' = [slots EXCEPT ![ri] = [cache |-> c, size |-> s.size, ready |-> r]]
    <2>1. slots' = [slots EXCEPT ![ri].cache = c, ![ri].ready = r]
      BY Zenon DEF LoopRead
    <2> DEFINE t == [slots EXCEPT ![ri].cache = c]
    <2>2. slots' = [t EXCEPT ![ri].ready = r]
      BY Zenon, <2>1
    <2>3. t = [slots EXCEPT ![ri] = [cache |-> c, size |-> s.size, ready |-> s.ready]]
      <3> HIDE DEF c
      <3>1. [s EXCEPT !.cache = c] = [cache |-> c, size |-> s.size, ready |-> s.ready]
        BY <1>1
      <3> QED BY <1>1, <3>1 DEF TypeOK
    <2> HIDE DEF c, r, t
    <2>4. /\ t[ri] = [cache |-> c, size |-> s.size, ready |-> s.ready]
          /\ DOMAIN t = Slots /\ \A j \in Slots : j # ri => t[j] = slots[j]
      BY <1>1, <2>3 DEF TypeOK
    <2>5. [t[ri] EXCEPT !.ready = r] = [cache |-> c, size |-> s.size, ready |-> r]
      BY <2>4
    <2> QED BY <1>1, <2>2, <2>3, <2>5 DEF TypeOK
  <1>6. r \in BOOLEAN
    BY <1>1
  <1> HIDE DEF c, r
  <1>7. /\ slots' \in Files
        /\ \A j \in Slots : j # ri => slots'[j] = slots[j]
        /\ slots'[ri] = [cache |-> c, size |-> s.size, ready |-> r]
    BY <1>1, <1>2, <1>5, <1>6 DEF TypeOK
  <1> QED BY <1>1, <1>2, <1>3, <1>4, <1>7 DEF r

(* No index, block or offset leaves its range.                             *)
LEMMA StepTypes ==
  ASSUME TypeOK, Places, Claims, [Next]_vars
  PROVE  TypeOK'
  <1> USE DEF TypeOK, Slots, None, elementVars, loopVars, sourceVars, userVars, faultVars
  <1>1. CASE LoopEnter
    BY <1>1 DEF LoopEnter
  <1>2. CASE LoopAgain
    BY <1>2 DEF LoopAgain
  <1>3. CASE LoopWait
    BY <1>3 DEF LoopWait, HasData
  <1>4. CASE LoopEos
    <2>1. down' \in [flushing : BOOLEAN, segment : BOOLEAN, next : 0..Last, ended : BOOLEAN]
      BY <1>4 DEF LoopEos, HasData
    <2> QED BY <1>4, <2>1 DEF LoopEos, HasData
  <1>5. CASE LoopFlushed
    BY <1>5 DEF LoopFlushed
  <1>6. CASE LoopRead
    <2>1. slots' \in Files /\ out' \in Blocks /\ ri' \in Slots
      BY <1>6, ReadSlots
    <2> QED BY SMTT(40), <1>6, <2>1 DEF LoopRead, DelSignalled
  <1>7. CASE LoopPush
    <2>1. Last \in Nat /\ Blocks = 0..Last-1
      BY StartFacts DEF Blocks
    <2>2. out + 1 \in 0..Last
      BY <2>1
    <2>3. down' \in [flushing : BOOLEAN, segment : BOOLEAN, next : 0..Last, ended : BOOLEAN]
      BY <1>7, <2>2 DEF LoopPush
    <2>4. /\ res' \in {"ok", "flushing", "failed"} /\ out' = None /\ pc' = "store"
          /\ faults' \in 0..MaxFaults
      BY <1>7 DEF LoopPush, Fault
    <2> QED BY <1>7, <2>3, <2>4 DEF LoopPush
  <1>8. CASE LoopStore
    BY <1>8 DEF LoopStore
  <1>9. CASE LoopEnd
    BY <1>9 DEF LoopEnd
  <1>10. CASE SourceFlushing
    BY <1>10 DEF SourceFlushing
  <1>11. CASE NoMoreSegments
    BY <1>11 DEF NoMoreSegments
  <1>12. CASE SegmentInVain
    BY <1>12 DEF SegmentInVain
  <1>13. CASE PushSegment
    <2>1. Start(segment) \in 0..Last
      BY StartBounds
    <2> QED BY <1>13, <2>1 DEF PushSegment, SendSegment
  <1>14. CASE PushEmptySegment
    <2>1. Start(segment) \in 0..Last
      BY StartBounds
    <2>2. faults' \in 0..MaxFaults
      BY <1>14 DEF PushEmptySegment, Fault
    <2>3. sgot' \in {"ok", "flushing"} /\ spc' \in {"segment", "store"}
      BY <1>14 DEF PushEmptySegment, SendSegment
    <2>4. /\ event' = "data" /\ block' = Start(segment) /\ segment' = segment
          /\ UNCHANGED <<elementVars, loopVars, down, sres, sflush, user, target, seeks, astray>>
      BY <1>14 DEF PushEmptySegment, SendSegment
    <2> QED BY <2>1, <2>2, <2>3, <2>4
  <1>15. CASE ClearEos
    <2>1. isEos' \in BOOLEAN /\ spc' \in {"restart", "announce"}
      BY <1>15 DEF ClearEos
    <2> QED BY <1>15, <2>1 DEF ClearEos
  <1>16. CASE RestartResult
    BY <1>16 DEF RestartResult
  <1>17. CASE RestartTask
    BY <1>17 DEF RestartTask
  <1>18. CASE RefuseEmpty
    BY <1>18 DEF RefuseEmpty
  <1>19. CASE AnnounceSegment
    <2>1. down' \in [flushing : BOOLEAN, segment : BOOLEAN, next : 0..Last, ended : BOOLEAN]
      BY <1>19 DEF AnnounceSegment
    <2>2. sendNewSegment' \in BOOLEAN /\ sgot' \in {"ok", "eos", "flushing"} /\ spc' = "claim"
      BY <1>19 DEF AnnounceSegment
    <2> QED BY <1>19, <2>1, <2>2 DEF AnnounceSegment
  <1>20. CASE ClaimSlot
    <2>1. (wi + 1) % N \in Slots /\ Claimed((wi + 1) % N) \in Files
      BY NextIndex, ClaimedSlots
    <2> QED BY <1>20, <2>1 DEF ClaimSlot
  <1>21. CASE WaitForSlot
    BY <1>21 DEF WaitForSlot
  <1>22. CASE SlotSignalled
    <2>1. slots' \in Files
      <3>1. srcresult = "ok" => wi \in Slots
        BY <1>22 DEF SlotSignalled, Claims, Waiting
      <3> QED BY <1>22, <3>1, ClaimedSlots DEF SlotSignalled
    <2> QED BY <1>22, <2>1 DEF SlotSignalled
  <1>23. CASE PushBlock
    <2>1. block < Start(segment) => block + 1 \in 0..Last
      BY StartBounds
    <2> QED BY <1>23, <2>1 DEF PushBlock
  <1>24. CASE ReadError
    BY <1>24 DEF ReadError, Fault
  <1>25. CASE StoreBlock
    <2>1. block \in Blocks /\ block + 1 \in 0..Last
      <3>1. block < Start(segment) /\ Start(segment) \in Nat /\ Start(segment) <= Last /\ Last \in Nat
        BY <1>25, StartBounds DEF StoreBlock, Places
      <3> QED BY <3>1 DEF Blocks
    <2>2. slots' \in Files
      <3>1. \A i \in Slots : cache_write_buffer(slots[i].cache, block) \in Cache(Blocks)
        BY <2>1, WriteBuffer
      <3>2. CASE slots' = slots
        BY <3>2
      <3>3. CASE wi \in Slots /\ slots' = [slots EXCEPT ![wi].cache = cache_write_buffer(@, block)]
        BY SMTT(40), <3>1, <3>3
      <3> QED BY <1>25, <3>2, <3>3 DEF StoreBlock, NoFile
    <2>3. pc' \in {pc, "check"}
      BY <1>25 DEF StoreBlock, AddSignalled
    <2> QED BY SMTT(40), <1>25, <2>1, <2>2, <2>3 DEF StoreBlock
  <1>26. CASE Crash
    BY <1>26 DEF Crash, NoFile
  <1>27. CASE EndOfSegment
    BY <1>27 DEF EndOfSegment
  <1>28. CASE PushEos
    <2>1. isEos' \in BOOLEAN /\ pc' \in {pc, "check"}
      BY <1>28 DEF PushEos, AddSignalled
    <2> QED BY <1>28, <2>1 DEF PushEos
  <1>29. CASE SourceStore
    BY <1>29 DEF SourceStore
  <1>30. CASE SeekFlushDown
    <2>1. down' \in [flushing : BOOLEAN, segment : BOOLEAN, next : 0..Last, ended : BOOLEAN]
      BY <1>30 DEF SeekFlushDown
    <2> QED BY <1>30, <2>1 DEF SeekFlushDown
  <1>31. CASE SeekFlushData
    <2>1. slots' \in Files
      BY <1>31, FlushedSlots DEF SeekFlushData
    <2>2. pc' \in {pc, "check"} /\ spc' \in {spc, "woken", "missed"} /\ 0 \in Slots
      BY SMTT(40), <1>31 DEF SeekFlushData, FlushData, AddSignalled, DelSignalled, N
    <2> QED BY <1>31, <2>1, <2>2 DEF SeekFlushData, FlushData
  <1>32. CASE SeekPauseTask
    BY <1>32 DEF SeekPauseTask
  <1>33. CASE SeekLoopPaused
    BY <1>33 DEF SeekLoopPaused
  <1>34. CASE SeekFlushStop
    <2>1. segment' \in 0..Segments
      BY <1>34 DEF SeekFlushStop, SeekData, Fault
    <2>2. Start(segment') \in 0..Last
      <3>1. PICK n \in 0..Segments : n = segment'
        BY <2>1
      <3>2. Start(n) \in 0..Last
        BY StartBounds
      <3>3. Start(n) = Start(segment')
        BY <3>1
      <3> QED BY <3>2, <3>3
    <2>3. down' \in [flushing : BOOLEAN, segment : BOOLEAN, next : 0..Last, ended : BOOLEAN]
      BY <1>34, <2>2 DEF SeekFlushStop
    <2>4. faults' \in 0..MaxFaults /\ event' \in {"segment", "data", "eos"}
      BY <1>34 DEF SeekFlushStop, SeekData, Fault
    <2>7. astray' \in BOOLEAN
      BY <1>34, Zenon DEF SeekFlushStop, SeekData, Fault
    <2>5. target' \in 0..Segments-1 /\ task' \in {"started", "paused", "stopped"}
      BY <1>34 DEF SeekFlushStop
    <2>6. /\ srcresult' = "ok" /\ sres' = "ok" /\ spc' = "push" /\ user' = "idle"
          /\ sflush' = FALSE /\ sendNewSegment' = TRUE /\ isFlushing' = FALSE
          /\ UNCHANGED <<slots, wi, ri, isEos, pc, out, res, block, sgot, seeks>>
      BY <1>34 DEF SeekFlushStop
    <2> QED BY ZenonT(60), <2>1, <2>3, <2>4, <2>5, <2>6, <2>7
  <1>35. CASE DisposeFlushData
    <2>1. slots' \in Files
      BY <1>35, FlushedSlots DEF DisposeFlushData
    <2>2. pc' \in {pc, "check"} /\ spc' \in {spc, "woken", "missed"} /\ 0 \in Slots
      BY SMTT(40), <1>35 DEF DisposeFlushData, FlushData, AddSignalled, DelSignalled, N
    <2> QED BY <1>35, <2>1, <2>2 DEF DisposeFlushData, FlushData
  <1>36. CASE DisposeDeactivate
    BY <1>36 DEF DisposeDeactivate, AddSignalled, DelSignalled
  <1>37. CASE DisposeStopTask
    BY <1>37 DEF DisposeStopTask
  <1>38. CASE DisposeJoined
    BY <1>38 DEF DisposeJoined
  <1>39. CASE DisposeSource
    BY <1>39 DEF DisposeSource
  <1>40. CASE Disposed
    BY <1>40 DEF Disposed
  <1>41. CASE SeekFlushStart
    BY <1>41 DEF SeekFlushStart
  <1>42. CASE DisposeFlush
    <2>1. down' \in [flushing : BOOLEAN, segment : BOOLEAN, next : 0..Last, ended : BOOLEAN]
      BY <1>42 DEF DisposeFlush
    <2> QED BY <1>42, <2>1 DEF DisposeFlush
  <1>43. CASE UNCHANGED vars
    BY <1>43 DEF vars
  <1> QED
    BY <1>1, <1>2, <1>3, <1>4, <1>5, <1>6, <1>7, <1>8, <1>9, <1>10, <1>11, <1>12, <1>13, <1>14,
       <1>15, <1>16, <1>17, <1>18, <1>19, <1>20, <1>21, <1>22, <1>23, <1>24, <1>25, <1>26, <1>27,
       <1>28, <1>29, <1>30, <1>31, <1>32, <1>33, <1>34, <1>35, <1>36, <1>37, <1>38, <1>39, <1>40,
       <1>41, <1>42, <1>43 DEF Next, Loop, Source, PlayerStep

(* The source stays where it belongs in its segment.                       *)
LEMMA StepPlaces ==
  ASSUME TypeOK, Phases, Places, [Next]_vars
  PROVE  Places'
  <1> USE DEF Places, Preparing, InEvent, Waiting, TypeOK, elementVars, loopVars, sourceVars,
     userVars, faultVars
  <1>1. CASE LoopEnter
    BY <1>1 DEF LoopEnter
  <1>2. CASE LoopAgain
    BY <1>2 DEF LoopAgain
  <1>3. CASE LoopWait
    BY <1>3 DEF LoopWait
  <1>4. CASE LoopEos
    BY <1>4 DEF LoopEos
  <1>5. CASE LoopFlushed
    BY <1>5 DEF LoopFlushed
  <1>6. CASE LoopRead
    BY <1>6 DEF LoopRead, DelSignalled
  <1>7. CASE LoopPush
    BY <1>7 DEF LoopPush, Fault
  <1>8. CASE LoopStore
    BY <1>8 DEF LoopStore
  <1>9. CASE LoopEnd
    BY <1>9 DEF LoopEnd
  <1>10. CASE SourceFlushing
    BY <1>10 DEF SourceFlushing
  <1>11. CASE NoMoreSegments
    BY <1>11 DEF NoMoreSegments
  <1>12. CASE SegmentInVain
    BY <1>12 DEF SegmentInVain
  <1>13. CASE PushSegment
    <2>1. Start(segment) \in Nat /\ Start(segment + 1) \in Nat /\ Start(segment) <= Start(segment + 1)
      BY StartBounds
    <2>2. segment' > 0 /\ segment' = segment + 1 /\ segment' - 1 = segment
      BY <1>13 DEF PushSegment, SendSegment
    <2> QED BY <1>13, <2>1, <2>2 DEF PushSegment, SendSegment
  <1>14. CASE PushEmptySegment
    BY <1>14, StartBounds DEF PushEmptySegment, SendSegment, Fault
  <1>15. CASE ClearEos
    BY <1>15 DEF ClearEos
  <1>16. CASE RestartResult
    BY <1>16 DEF RestartResult
  <1>17. CASE RestartTask
    BY <1>17 DEF RestartTask
  <1>18. CASE RefuseEmpty
    BY <1>18 DEF RefuseEmpty
  <1>19. CASE AnnounceSegment
    BY <1>19 DEF AnnounceSegment
  <1>20. CASE ClaimSlot
    BY <1>20 DEF ClaimSlot
  <1>21. CASE WaitForSlot
    BY <1>21 DEF WaitForSlot
  <1>22. CASE SlotSignalled
    BY <1>22 DEF SlotSignalled
  <1>23. CASE PushBlock
    BY <1>23, StartBounds DEF PushBlock
  <1>24. CASE ReadError
    BY <1>24 DEF ReadError, Fault
  <1>25. CASE StoreBlock
    BY <1>25, StartBounds DEF StoreBlock, NoFile
  <1>26. CASE Crash
    BY <1>26 DEF Crash, NoFile
  <1>27. CASE EndOfSegment
    BY <1>27 DEF EndOfSegment
  <1>28. CASE PushEos
    BY <1>28 DEF PushEos
  <1>29. CASE SourceStore
    BY <1>29 DEF SourceStore
  <1>30. CASE SeekFlushDown
    BY <1>30 DEF SeekFlushDown
  <1>31. CASE SeekFlushData
    BY <1>31 DEF SeekFlushData, FlushData, DelSignalled
  <1>32. CASE SeekPauseTask
    BY <1>32 DEF SeekPauseTask
  <1>33. CASE SeekLoopPaused
    BY <1>33 DEF SeekLoopPaused, Phases
  <1>34. CASE SeekFlushStop
    BY <1>34 DEF SeekFlushStop, SeekData, Fault
  <1>35. CASE DisposeFlushData
    BY <1>35 DEF DisposeFlushData, FlushData, DelSignalled
  <1>36. CASE DisposeDeactivate
    BY <1>36 DEF DisposeDeactivate, DelSignalled
  <1>37. CASE DisposeStopTask
    BY <1>37 DEF DisposeStopTask
  <1>38. CASE DisposeJoined
    BY <1>38 DEF DisposeJoined
  <1>39. CASE DisposeSource
    BY <1>39 DEF DisposeSource, Phases
  <1>40. CASE Disposed
    BY <1>40 DEF Disposed
  <1>41. CASE SeekFlushStart
    BY <1>41 DEF SeekFlushStart
  <1>42. CASE DisposeFlush
    BY <1>42 DEF DisposeFlush
  <1>43. CASE UNCHANGED vars
    BY <1>43 DEF vars
  <1> QED
    BY <1>1, <1>2, <1>3, <1>4, <1>5, <1>6, <1>7, <1>8, <1>9, <1>10, <1>11, <1>12, <1>13, <1>14,
       <1>15, <1>16, <1>17, <1>18, <1>19, <1>20, <1>21, <1>22, <1>23, <1>24, <1>25, <1>26, <1>27,
       <1>28, <1>29, <1>30, <1>31, <1>32, <1>33, <1>34, <1>35, <1>36, <1>37, <1>38, <1>39, <1>40,
       <1>41, <1>42, <1>43 DEF Next, Loop, Source, PlayerStep

(* A file is claimed before anything is stored or read, but for failures.  *)
LEMMA StepClaims ==
  ASSUME TypeOK, Places, Phases, Claims, [Next]_vars
  PROVE  Claims'
  <1> USE DEF Claims, Preparing, InEvent, Waiting, None, TypeOK, Empty, elementVars, loopVars,
     sourceVars, userVars, faultVars
  <1>1. CASE LoopEnter
    BY <1>1 DEF LoopEnter
  <1>2. CASE LoopAgain
    BY <1>2 DEF LoopAgain
  <1>3. CASE LoopWait
    BY <1>3 DEF LoopWait
  <1>4. CASE LoopEos
    BY <1>4 DEF LoopEos
  <1>5. CASE LoopFlushed
    BY <1>5 DEF LoopFlushed
  <1>6. CASE LoopRead
    <2>1. slots[ri].cache.read \in 0..slots[ri].cache.write-1 /\ slots[ri].cache.write \in Nat
      BY <1>6, ReadSlots
    <2>2. ~Empty(slots[ri]) /\ ri \in Slots
      BY <2>1
    <2>3. wi = None => down.flushing
      BY <2>2
    <2> QED BY <1>6, <2>3 DEF LoopRead, DelSignalled
  <1>7. CASE LoopPush
    BY <1>7 DEF LoopPush, Fault
  <1>8. CASE LoopStore
    BY <1>8 DEF LoopStore
  <1>9. CASE LoopEnd
    BY <1>9 DEF LoopEnd
  <1>10. CASE SourceFlushing
    BY <1>10 DEF SourceFlushing
  <1>11. CASE NoMoreSegments
    BY <1>11 DEF NoMoreSegments
  <1>12. CASE SegmentInVain
    BY <1>12 DEF SegmentInVain
  <1>13. CASE PushSegment
    BY <1>13 DEF PushSegment, SendSegment
  <1>14. CASE PushEmptySegment
    BY <1>14 DEF PushEmptySegment, SendSegment, Fault
  <1>15. CASE ClearEos
    BY <1>15 DEF ClearEos
  <1>16. CASE RestartResult
    BY <1>16 DEF RestartResult
  <1>17. CASE RestartTask
    BY <1>17 DEF RestartTask
  <1>18. CASE RefuseEmpty
    BY <1>18 DEF RefuseEmpty
  <1>19. CASE AnnounceSegment
    BY <1>19 DEF AnnounceSegment
  <1>20. CASE ClaimSlot
    <2>1. wi' \in Slots
      BY <1>20, NextIndex DEF ClaimSlot
    <2>2. wi' # None
      BY <2>1 DEF Slots
    <2> QED BY <1>20, <2>2 DEF ClaimSlot
  <1>21. CASE WaitForSlot
    BY <1>21 DEF WaitForSlot
  <1>22. CASE SlotSignalled
    BY <1>22 DEF SlotSignalled
  <1>23. CASE PushBlock
    BY <1>23 DEF PushBlock, Phases, Places
  <1>24. CASE ReadError
    BY <1>24 DEF ReadError, Fault
  <1>25. CASE StoreBlock
    BY <1>25 DEF StoreBlock, NoFile, AddSignalled, Places
  <1>26. CASE Crash
    BY <1>26 DEF Crash, NoFile
  <1>27. CASE EndOfSegment
    BY <1>27 DEF EndOfSegment, Places
  <1>28. CASE PushEos
    BY <1>28 DEF PushEos, AddSignalled
  <1>29. CASE SourceStore
    BY <1>29 DEF SourceStore
  <1>30. CASE SeekFlushDown
    BY <1>30 DEF SeekFlushDown
  <1>31. CASE SeekFlushData
    BY <1>31 DEF SeekFlushData, FlushData, DelSignalled, Phases
  <1>32. CASE SeekPauseTask
    BY <1>32 DEF SeekPauseTask
  <1>33. CASE SeekLoopPaused
    BY <1>33 DEF SeekLoopPaused
  <1>34. CASE SeekFlushStop
    <2>1. pc \notin {"push", "store"} /\ \A i \in Slots : Empty(slots[i])
      BY <1>34 DEF SeekFlushStop, Phases, Emptied
    <2> QED BY <1>34, <2>1 DEF SeekFlushStop, SeekData, Fault
  <1>35. CASE DisposeFlushData
    BY <1>35 DEF DisposeFlushData, FlushData, DelSignalled, Phases
  <1>36. CASE DisposeDeactivate
    BY <1>36 DEF DisposeDeactivate, AddSignalled, DelSignalled, Phases
  <1>37. CASE DisposeStopTask
    BY <1>37 DEF DisposeStopTask
  <1>38. CASE DisposeJoined
    BY <1>38 DEF DisposeJoined
  <1>39. CASE DisposeSource
    BY <1>39 DEF DisposeSource
  <1>40. CASE Disposed
    BY <1>40 DEF Disposed
  <1>41. CASE SeekFlushStart
    BY <1>41 DEF SeekFlushStart
  <1>42. CASE DisposeFlush
    BY <1>42 DEF DisposeFlush
  <1>43. CASE UNCHANGED vars
    BY <1>43 DEF vars
  <1> QED
    BY <1>1, <1>2, <1>3, <1>4, <1>5, <1>6, <1>7, <1>8, <1>9, <1>10, <1>11, <1>12, <1>13, <1>14,
       <1>15, <1>16, <1>17, <1>18, <1>19, <1>20, <1>21, <1>22, <1>23, <1>24, <1>25, <1>26, <1>27,
       <1>28, <1>29, <1>30, <1>31, <1>32, <1>33, <1>34, <1>35, <1>36, <1>37, <1>38, <1>39, <1>40,
       <1>41, <1>42, <1>43 DEF Next, Loop, Source, PlayerStep

(* While downstream is not flushing the result is OK until EOS or a        *)
(* failure.                                                                *)
LEMMA StepCalm ==
  ASSUME TypeOK, Places, Phases, Calm, [Next]_vars
  PROVE  Calm'
  <1> USE DEF Phases, Calm, Ended, Waiting, Preparing, AddSignalled, DelSignalled, TypeOK,
     elementVars, loopVars, sourceVars, userVars, faultVars
  <1>1. CASE LoopEnter
    BY <1>1 DEF LoopEnter
  <1>2. CASE LoopAgain
    BY <1>2 DEF LoopAgain
  <1>3. CASE LoopWait
    BY <1>3 DEF LoopWait
  <1>4. CASE LoopEos
    BY <1>4 DEF LoopEos
  <1>5. CASE LoopFlushed
    BY <1>5 DEF LoopFlushed
  <1>6. CASE LoopRead
    BY <1>6 DEF LoopRead
  <1>7. CASE LoopPush
    BY <1>7 DEF LoopPush, Fault
  <1>8. CASE LoopStore
    BY <1>8 DEF LoopStore
  <1>9. CASE LoopEnd
    BY <1>9 DEF LoopEnd
  <1>10. CASE SourceFlushing
    BY <1>10 DEF SourceFlushing
  <1>11. CASE NoMoreSegments
    BY <1>11 DEF NoMoreSegments
  <1>12. CASE SegmentInVain
    BY <1>12 DEF SegmentInVain
  <1>13. CASE PushSegment
    BY <1>13 DEF PushSegment, SendSegment
  <1>14. CASE PushEmptySegment
    BY <1>14 DEF PushEmptySegment, SendSegment, Fault
  <1>15. CASE ClearEos
    BY <1>15 DEF ClearEos, Places
  <1>16. CASE RestartResult
    BY <1>16 DEF RestartResult, Places
  <1>17. CASE RestartTask
    BY <1>17 DEF RestartTask, Places
  <1>18. CASE RefuseEmpty
    BY <1>18 DEF RefuseEmpty
  <1>19. CASE AnnounceSegment
    BY <1>19 DEF AnnounceSegment
  <1>20. CASE ClaimSlot
    BY <1>20 DEF ClaimSlot
  <1>21. CASE WaitForSlot
    BY <1>21 DEF WaitForSlot
  <1>22. CASE SlotSignalled
    BY <1>22 DEF SlotSignalled
  <1>23. CASE PushBlock
    BY <1>23 DEF PushBlock
  <1>24. CASE ReadError
    BY <1>24 DEF ReadError, Fault
  <1>25. CASE StoreBlock
    BY <1>25 DEF StoreBlock, NoFile
  <1>26. CASE Crash
    BY <1>26 DEF Crash, NoFile
  <1>27. CASE EndOfSegment
    BY <1>27 DEF EndOfSegment
  <1>28. CASE PushEos
    BY <1>28 DEF PushEos
  <1>29. CASE SourceStore
    BY <1>29 DEF SourceStore
  <1>30. CASE SeekFlushDown
    BY <1>30 DEF SeekFlushDown
  <1>31. CASE SeekFlushData
    BY <1>31 DEF SeekFlushData, FlushData
  <1>32. CASE SeekPauseTask
    BY <1>32 DEF SeekPauseTask
  <1>33. CASE SeekLoopPaused
    BY <1>33 DEF SeekLoopPaused
  <1>34. CASE SeekFlushStop
    BY <1>34 DEF SeekFlushStop, SeekData, Fault
  <1>35. CASE DisposeFlushData
    BY <1>35 DEF DisposeFlushData, FlushData
  <1>36. CASE DisposeDeactivate
    BY <1>36 DEF DisposeDeactivate
  <1>37. CASE DisposeStopTask
    BY <1>37 DEF DisposeStopTask
  <1>38. CASE DisposeJoined
    BY <1>38 DEF DisposeJoined
  <1>39. CASE DisposeSource
    BY <1>39 DEF DisposeSource
  <1>40. CASE Disposed
    BY <1>40 DEF Disposed
  <1>41. CASE SeekFlushStart
    BY <1>41 DEF SeekFlushStart
  <1>42. CASE DisposeFlush
    BY <1>42 DEF DisposeFlush
  <1>43. CASE UNCHANGED vars
    BY SMTT(40), <1>43 DEF vars
  <1> QED
    BY <1>1, <1>2, <1>3, <1>4, <1>5, <1>6, <1>7, <1>8, <1>9, <1>10, <1>11, <1>12, <1>13, <1>14,
       <1>15, <1>16, <1>17, <1>18, <1>19, <1>20, <1>21, <1>22, <1>23, <1>24, <1>25, <1>26, <1>27,
       <1>28, <1>29, <1>30, <1>31, <1>32, <1>33, <1>34, <1>35, <1>36, <1>37, <1>38, <1>39, <1>40,
       <1>41, <1>42, <1>43 DEF Next, Loop, Source, PlayerStep

(* After a flush nothing is stored before the seek has ended.              *)
LEMMA StepPhases ==
  ASSUME TypeOK, Places, Claims, Phases, [Next]_vars
  PROVE  Phases'
  <1> USE DEF Phases, Preparing, Waiting, InPush, AddSignalled, DelSignalled, None, TypeOK, Slots,
     Emptied, elementVars, loopVars, sourceVars, userVars, faultVars
  <1>1. CASE LoopEnter
    BY <1>1 DEF LoopEnter
  <1>2. CASE LoopAgain
    BY <1>2 DEF LoopAgain
  <1>3. CASE LoopWait
    BY <1>3 DEF LoopWait
  <1>4. CASE LoopEos
    BY <1>4 DEF LoopEos
  <1>5. CASE LoopFlushed
    BY <1>5 DEF LoopFlushed
  <1>6. CASE LoopRead
    <2>1. slots[ri].cache.read < slots[ri].cache.write
      BY <1>6, ReadSlots DEF LoopRead, HasData, cache_has_enough_data
    <2>2. user \notin {"pauseTask", "awaitLoop", "awaitSource"}
      BY <2>1
    <2> QED BY <1>6, <2>2 DEF LoopRead
  <1>7. CASE LoopPush
    BY <1>7 DEF LoopPush, Fault
  <1>8. CASE LoopStore
    BY <1>8 DEF LoopStore
  <1>9. CASE LoopEnd
    BY <1>9 DEF LoopEnd
  <1>10. CASE SourceFlushing
    BY <1>10 DEF SourceFlushing
  <1>11. CASE NoMoreSegments
    BY <1>11 DEF NoMoreSegments
  <1>12. CASE SegmentInVain
    BY <1>12 DEF SegmentInVain
  <1>13. CASE PushSegment
    BY <1>13 DEF PushSegment, SendSegment
  <1>14. CASE PushEmptySegment
    BY <1>14 DEF PushEmptySegment, SendSegment, Fault
  <1>15. CASE ClearEos
    BY <1>15 DEF ClearEos
  <1>16. CASE RestartResult
    BY <1>16 DEF RestartResult
  <1>17. CASE RestartTask
    BY <1>17 DEF RestartTask, Places
  <1>18. CASE RefuseEmpty
    BY <1>18 DEF RefuseEmpty
  <1>19. CASE AnnounceSegment
    BY <1>19 DEF AnnounceSegment
  <1>20. CASE ClaimSlot
    <2>1. CASE user \notin {"pauseTask", "awaitLoop", "awaitSource"}
      BY <1>20, <2>1 DEF ClaimSlot
    <2>2. CASE user \in {"pauseTask", "awaitLoop", "awaitSource"}
      <3>1. wi = None /\ \A i \in Slots : slots[i].ready
        BY <1>20, <2>2 DEF ClaimSlot
      <3>2. 0 \in Slots /\ wi' = 0
        BY <1>20, <3>1, NextIndex DEF ClaimSlot, N
      <3>3. slots' = Claimed(0) /\ spc' = "store"
        BY <1>20, <3>1, <3>2 DEF ClaimSlot
      <3>4. Emptied'
        BY <1>20, <2>2, <3>2, <3>3, ClaimedSlots DEF ClaimSlot
      <3> QED BY <1>20, <3>4 DEF ClaimSlot
    <2> QED BY <2>1, <2>2
  <1>21. CASE WaitForSlot
    BY <1>21 DEF WaitForSlot
  <1>22. CASE SlotSignalled
    <2>1. CASE user \notin {"pauseTask", "awaitLoop", "awaitSource"}
      BY <1>22, <2>1 DEF SlotSignalled
    <2>2. CASE user \in {"pauseTask", "awaitLoop", "awaitSource"}
      <3>1. srcresult # "ok"
        BY <1>22, <2>2 DEF SlotSignalled, Claims
      <3> QED BY <1>22, <2>2, <3>1 DEF SlotSignalled
    <2> QED BY <2>1, <2>2
  <1>23. CASE PushBlock
    BY <1>23 DEF PushBlock
  <1>24. CASE ReadError
    BY <1>24 DEF ReadError, Fault
  <1>25. CASE StoreBlock
    <2>1. CASE user \notin {"pauseTask", "awaitLoop", "awaitSource"}
      BY <1>25, <2>1 DEF StoreBlock, NoFile
    <2>2. CASE user \in {"pauseTask", "awaitLoop", "awaitSource"}
      <3>1. wi = None
        BY <1>25, <2>2 DEF StoreBlock
      <3>2. slots' = slots /\ pc' = pc
        BY <1>25, <3>1 DEF StoreBlock, NoFile
      <3> QED BY <1>25, <2>2, <3>1, <3>2 DEF StoreBlock
    <2> QED BY <2>1, <2>2
  <1>26. CASE Crash
    <2>1. astray \/ down.flushing
      BY <1>26, StartBounds DEF Crash, NoFile, Claims, Places
    <2> QED BY <1>26, <2>1 DEF Crash
  <1>27. CASE EndOfSegment
    BY <1>27 DEF EndOfSegment
  <1>28. CASE PushEos
    BY <1>28 DEF PushEos
  <1>29. CASE SourceStore
    BY <1>29 DEF SourceStore
  <1>30. CASE SeekFlushDown
    BY <1>30 DEF SeekFlushDown
  <1>31. CASE SeekFlushData
    <2>1. Emptied'
      BY <1>31, FlushedSlots DEF SeekFlushData, FlushData
    <2> QED BY <1>31, <2>1 DEF SeekFlushData, FlushData
  <1>32. CASE SeekPauseTask
    BY <1>32 DEF SeekPauseTask
  <1>33. CASE SeekLoopPaused
    BY <1>33 DEF SeekLoopPaused, LoopStreams
  <1>34. CASE SeekFlushStop
    BY <1>34 DEF SeekFlushStop, SeekData, Fault
  <1>35. CASE DisposeFlushData
    BY <1>35 DEF DisposeFlushData, FlushData
  <1>36. CASE DisposeDeactivate
    BY <1>36 DEF DisposeDeactivate
  <1>37. CASE DisposeStopTask
    BY <1>37 DEF DisposeStopTask
  <1>38. CASE DisposeJoined
    BY <1>38 DEF DisposeJoined
  <1>39. CASE DisposeSource
    BY <1>39 DEF DisposeSource
  <1>40. CASE Disposed
    BY <1>40 DEF Disposed
  <1>41. CASE SeekFlushStart
    BY <1>41 DEF SeekFlushStart
  <1>42. CASE DisposeFlush
    BY <1>42 DEF DisposeFlush
  <1>43. CASE UNCHANGED vars
    BY <1>43 DEF vars
  <1> QED
    BY <1>1, <1>2, <1>3, <1>4, <1>5, <1>6, <1>7, <1>8, <1>9, <1>10, <1>11, <1>12, <1>13, <1>14,
       <1>15, <1>16, <1>17, <1>18, <1>19, <1>20, <1>21, <1>22, <1>23, <1>24, <1>25, <1>26, <1>27,
       <1>28, <1>29, <1>30, <1>31, <1>32, <1>33, <1>34, <1>35, <1>36, <1>37, <1>38, <1>39, <1>40,
       <1>41, <1>42, <1>43 DEF Next, Loop, Source, PlayerStep

(* The segment is announced before anything is stored.                     *)
LEMMA StepAnnouncing ==
  ASSUME TypeOK, Places, Claims, Phases, Calm, Announcing, [Next]_vars
  PROVE  Announcing'
  <1> USE DEF Phases, Calm, Ended, Preparing, Waiting, AddSignalled, DelSignalled, None, TypeOK,
     Slots, Announcing, Empty, elementVars, loopVars, sourceVars, userVars, faultVars
  <1>1. CASE LoopEnter
    BY <1>1 DEF LoopEnter
  <1>2. CASE LoopAgain
    BY <1>2 DEF LoopAgain
  <1>3. CASE LoopWait
    BY <1>3 DEF LoopWait
  <1>4. CASE LoopEos
    BY <1>4 DEF LoopEos
  <1>5. CASE LoopFlushed
    BY <1>5 DEF LoopFlushed
  <1>6. CASE LoopRead
    <2>1. slots[ri].cache.read < slots[ri].cache.write /\ ri \in Slots
      BY <1>6, ReadSlots
    <2>2. ~(slots[ri].cache.read >= slots[ri].cache.write)
      BY <1>6, <2>1, ReadSlots
    <2>3. down.flushing \/ down.segment \/ astray
      BY <2>1, <2>2
    <2> QED BY <1>6, <2>3 DEF LoopRead
  <1>7. CASE LoopPush
    BY <1>7 DEF LoopPush, Fault
  <1>8. CASE LoopStore
    BY <1>8 DEF LoopStore
  <1>9. CASE LoopEnd
    BY <1>9 DEF LoopEnd
  <1>10. CASE SourceFlushing
    BY <1>10 DEF SourceFlushing
  <1>11. CASE NoMoreSegments
    BY <1>11 DEF NoMoreSegments
  <1>12. CASE SegmentInVain
    BY <1>12 DEF SegmentInVain
  <1>13. CASE PushSegment
    BY <1>13 DEF PushSegment, SendSegment
  <1>14. CASE PushEmptySegment
    BY <1>14 DEF PushEmptySegment, SendSegment, Fault
  <1>15. CASE ClearEos
    BY <1>15 DEF ClearEos
  <1>16. CASE RestartResult
    BY <1>16 DEF RestartResult
  <1>17. CASE RestartTask
    BY <1>17 DEF RestartTask
  <1>18. CASE RefuseEmpty
    BY <1>18 DEF RefuseEmpty, Places
  <1>19. CASE AnnounceSegment
    BY <1>19 DEF AnnounceSegment, Places
  <1>20. CASE ClaimSlot
    BY <1>20 DEF ClaimSlot
  <1>21. CASE WaitForSlot
    BY <1>21 DEF WaitForSlot
  <1>22. CASE SlotSignalled
    BY <1>22 DEF SlotSignalled
  <1>23. CASE PushBlock
    BY <1>23 DEF PushBlock
  <1>24. CASE ReadError
    BY <1>24 DEF ReadError, Fault
  <1>25. CASE StoreBlock
    BY <1>25 DEF StoreBlock, NoFile
  <1>26. CASE Crash
    BY <1>26 DEF Crash, NoFile
  <1>27. CASE EndOfSegment
    BY <1>27 DEF EndOfSegment
  <1>28. CASE PushEos
    BY <1>28 DEF PushEos
  <1>29. CASE SourceStore
    BY <1>29 DEF SourceStore
  <1>30. CASE SeekFlushDown
    BY <1>30 DEF SeekFlushDown
  <1>31. CASE SeekFlushData
    BY <1>31 DEF SeekFlushData, FlushData
  <1>32. CASE SeekPauseTask
    BY <1>32 DEF SeekPauseTask
  <1>33. CASE SeekLoopPaused
    BY <1>33 DEF SeekLoopPaused
  <1>34. CASE SeekFlushStop
    BY <1>34 DEF SeekFlushStop, SeekData, Fault, Emptied
  <1>35. CASE DisposeFlushData
    BY <1>35 DEF DisposeFlushData, FlushData
  <1>36. CASE DisposeDeactivate
    BY <1>36 DEF DisposeDeactivate
  <1>37. CASE DisposeStopTask
    BY <1>37 DEF DisposeStopTask
  <1>38. CASE DisposeJoined
    BY <1>38 DEF DisposeJoined
  <1>39. CASE DisposeSource
    BY <1>39 DEF DisposeSource
  <1>40. CASE Disposed
    BY <1>40 DEF Disposed
  <1>41. CASE SeekFlushStart
    BY <1>41 DEF SeekFlushStart
  <1>42. CASE DisposeFlush
    BY <1>42 DEF DisposeFlush
  <1>43. CASE UNCHANGED vars
    BY <1>43 DEF vars
  <1> QED
    BY <1>1, <1>2, <1>3, <1>4, <1>5, <1>6, <1>7, <1>8, <1>9, <1>10, <1>11, <1>12, <1>13, <1>14,
       <1>15, <1>16, <1>17, <1>18, <1>19, <1>20, <1>21, <1>22, <1>23, <1>24, <1>25, <1>26, <1>27,
       <1>28, <1>29, <1>30, <1>31, <1>32, <1>33, <1>34, <1>35, <1>36, <1>37, <1>38, <1>39, <1>40,
       <1>41, <1>42, <1>43 DEF Next, Loop, Source, PlayerStep
-----------------------------------------------------------------------------
(* A step that leaves the files and the source's place in the stream alone *)
(* leaves the ring in order.                                               *)
LEMMA SameRing ==
  ASSUME Sound, UNCHANGED <<slots, wi, ri, segment, seeks>>, next' = next,
         InEvent' <=> InEvent, Waiting' <=> Waiting, Live' <=> Live, Storing' <=> Storing,
         Storing => block' = block, pc' = "push" => pc = "push",
         ~down'.flushing /\ ~astray' /\ ~Broken' => ~down.flushing /\ ~astray /\ ~Broken
  PROVE  Sound'
  <1>1. ASSUME Stuck PROVE Stuck'
    BY <1>1 DEF Stuck
  <1>2. ASSUME NEW b \in 0..Segments, NEW k \in 0..N, Ring(b, k) PROVE Ring(b, k)'
    BY <1>2 DEF Ring, Dist, After, NextSlot, Unread, Empty
  <1> QED BY <1>1, <1>2 DEF Sound

(* Where the place lies that is claimed next, and the one claimed last.    *)
LEMMA RingPlaces ==
  ASSUME TypeOK, NEW k \in 0..N
  PROVE  /\ \A i \in Slots : Dist(i) \in 0..N-1 /\ (Dist(i) = 0 <=> i = ri)
         /\ After(k) \in Slots /\ (k < N => Dist(After(k)) = k) /\ (k = N => After(k) = ri)
         /\ \A i \in Slots : k < N /\ i # After(k) => Dist(i) # k
         /\ wi \in Slots /\ (IF wi + 1 = N THEN 0 ELSE wi + 1) = After(k)
              => Dist(wi) = IF k > 0 THEN k - 1 ELSE N - 1
  BY DEF TypeOK, Dist, After, Slots, N

(* A free file is claimed: it is the one behind those that are in use.     *)
LEMMA ClaimRing ==
  ASSUME TypeOK, NEW b \in 0..Segments, NEW k \in 0..N, Ring(b, k), InEvent, spc # "chain",
         event = "data", segment > 0, block = Start(segment - 1),
         NextSlot \in Slots, slots[NextSlot].ready,
         slots' = Claimed(NextSlot), wi' = NextSlot, spc' = "store",
         UNCHANGED <<ri, segment, block, event, sflush, pc, out, down>>
  PROVE  k < N /\ Ring(b, k + 1)'
  <1> DEFINE w == NextSlot
  <1>1. w = After(k) /\ w \in Slots /\ Dist(w) >= k
    BY DEF Ring
  <1>2. k < N /\ Dist(w) = k
    <2>1. ri \in Slots /\ N \in Nat /\ N > 0
      BY DEF TypeOK, N
    <2>2. /\ Dist(ri) = 0 /\ (k = N => After(k) = ri)
          /\ k < N => Dist(After(k)) = k
      BY <2>1, RingPlaces
    <2>3. k # N
      BY <1>1, <2>1, <2>2
    <2> QED BY <2>1, <2>2, <2>3, <1>1
  <1>3. /\ \A j \in Slots : j # w => slots'[j] = slots[j]
        /\ ~slots'[w].ready /\ slots'[w].size = SegmentSize
        /\ slots'[w].cache.read = 0 /\ slots'[w].cache.write = 0
    BY <1>1, ClaimedSlots
  <1>4. \A i \in Slots : i # w => Dist(i) # k /\ Dist(i) \in 0..N-1
    BY <1>1, <1>2, RingPlaces
  <1>5. \A i \in Slots : Dist(i)' = Dist(i)
    BY DEF Dist
  <1>6. ~InEvent' /\ ~Waiting' /\ event' = "data" /\ (Live' <=> Live)
    BY DEF InEvent, Waiting, Preparing, Live
  <1>7. next' = next
    BY DEF next
  <1>14. Storing' /\ segment - 1 \in 0..Segments /\ segment \in Nat
    <2>1. segment - 1 \in 0..Segments /\ segment \in Nat /\ (segment - 1) + 1 = segment
      BY DEF TypeOK
    <2>2. PICK m \in 0..Segments : m = segment - 1
      BY <2>1
    <2>3. Start(m) < Start(m + 1) /\ Start(m) \in Nat /\ Start(m + 1) \in Nat
      BY StartBounds
    <2>4. Start(segment - 1) # Start(segment)
      BY <2>1, <2>2, <2>3
    <2> QED BY <1>6, <2>1, <2>4 DEF Storing, Start
  <1> HIDE DEF w
  <1>8. \A i \in Slots : slots'[i].ready <=> Dist(i)' >= k + 1
    <2> SUFFICES ASSUME NEW i \in Slots PROVE slots'[i].ready <=> Dist(i) >= k + 1
      BY <1>5
    <2>1. CASE i = w
      BY <1>2, <1>3, <2>1
    <2>2. CASE i # w
      <3>1. slots[i].ready <=> Dist(i) >= k
        BY DEF Ring
      <3>2. slots'[i] = slots[i] /\ (Dist(i) >= k <=> Dist(i) >= k + 1)
        BY <1>3, <1>4, <2>2
      <3> QED BY <3>1, <3>2
    <2> QED BY <2>1, <2>2
  <1>9. NextSlot' = After(k + 1)'
    BY <1>1, <1>2, <1>6 DEF NextSlot, After, TypeOK, Slots, w, N
  <1>10. next' = Start(b) + (IF k + 1 = 0 THEN 0 ELSE slots'[ri'].cache.read)
    BY <1>1, <1>2, <1>3, <1>7, RingPlaces DEF Ring, TypeOK
  <1>11. \A i \in Slots : IF Dist(i)' < k + 1 THEN Unread(slots'[i], i = ri', b + Dist(i)')
                                              ELSE Empty(slots'[i])
    BY <1>2, <1>3, <1>4, <1>5 DEF Ring, Unread
  <1>12. segment' = b + (k + 1) /\ block' = Start(segment' - 1) + slots'[wi'].cache.write
    <2>1. Start(segment - 1) \in Nat
      BY <1>14, StartFacts
    <2> QED BY <1>3, <2>1 DEF Ring, w, TypeOK
  <1>13. Live' => \A i \in Slots : Dist(i)' < k + 1 =>
           slots'[i].cache.write = SegmentSize \/ (i = wi' /\ Storing')
    <2> SUFFICES ASSUME Live, NEW i \in Slots, Dist(i) < k + 1, i # w
                 PROVE  slots'[i].cache.write = SegmentSize
      BY <1>5, <1>6, <1>14 DEF w
    <2>1. Dist(i) < k /\ slots'[i] = slots[i]
      BY <1>3, <1>4
    <2> QED BY <2>1 DEF Ring, Storing
  <1>15. wi' # None /\ k + 1 > 0
    BY DEF Slots, None
  <1> QED BY <1>2, <1>6, <1>8, <1>9, <1>10, <1>11, <1>12, <1>13, <1>15 DEF Ring

(* A block is stored behind those of its segment.                          *)
LEMMA StoreRing ==
  ASSUME TypeOK, NEW b \in 0..Segments, NEW k \in 0..N, Ring(b, k),
         spc = "chain", event = "data", block < Start(segment), block \in Blocks,
         slots' = [slots EXCEPT ![wi].cache = cache_write_buffer(@, block)], block' = block + 1,
         UNCHANGED <<wi, ri, segment, event, sflush, out, down>>,
         next' = next, spc' = "store"
  PROVE  Ring(b, k)'
  <1> DEFINE c == slots[wi].cache
  <1>0. ~InEvent /\ ~Waiting /\ Live /\ Storing /\ ~InEvent' /\ ~Waiting'
    <2>1. ~InEvent /\ ~Waiting /\ Live /\ ~InEvent' /\ ~Waiting'
      BY DEF InEvent, Waiting, Preparing, Live
    <2>2. block # Start(segment)
      BY StartBounds DEF TypeOK
    <2> QED BY <2>1, <2>2 DEF Storing
  <1>1. /\ wi \in Slots /\ k > 0 /\ block = Start(segment - 1) + c.write
        /\ segment = b + k /\ c \in Cache(Blocks)
    BY <1>0 DEF Ring, TypeOK
  <1>2. Dist(wi) = k - 1 /\ b + Dist(wi) = segment - 1 /\ segment - 1 \in Nat
    BY <1>0, <1>1, RingPlaces DEF Ring, NextSlot
  <1>3. /\ c.write \in Nat /\ c.read \in Nat /\ c.write < SegmentSize /\ Start(segment - 1) \in Nat
        /\ Start(segment) = Start(segment - 1) + SegmentSize
    <2>1. Start(segment - 1) \in Nat /\ Start(segment) = Start(segment - 1) + SegmentSize
      <3>1. segment = (segment - 1) + 1
        BY <1>2 DEF TypeOK
      <3> QED BY <1>2, <3>1, StartFacts
    <2>2. c.write \in Nat /\ c.read \in Nat
      BY <1>1, ReadBuffer
    <2> QED BY <1>1, <2>1, <2>2
  <1> DEFINE d == cache_write_buffer(c, block)
  <1>4. /\ d.write = c.write + 1 /\ d.read = c.read /\ d.file[c.write + 1] = block
        /\ \A q \in 0..c.write-1 : d.file[q + 1] = c.file[q + 1]
    BY <1>1, WriteBuffer, ReadPosition
  <1> HIDE DEF d
  <1>5. /\ slots'[wi].cache = d /\ slots'[wi].size = slots[wi].size
        /\ slots'[wi].ready = slots[wi].ready
        /\ \A i \in Slots : i # wi => slots'[i] = slots[i]
    BY <1>1 DEF TypeOK, d
  <1>6. \A i \in Slots : Dist(i)' = Dist(i)
    BY DEF Dist
  <1>7. Unread(slots[wi], wi = ri, segment - 1)
    BY <1>1, <1>2, RingPlaces DEF Ring
  <1>8. Unread(slots'[wi], wi = ri, segment - 1)
    <2>1. \A p \in 0..d.write-1 : d.file[p + 1] = Start(segment - 1) + p
      BY <1>1, <1>3, <1>4, <1>7 DEF Unread
    <2> QED BY <1>3, <1>4, <1>5, <1>7, <2>1 DEF Unread
  <1>9. \A i \in Slots : IF Dist(i)' < k THEN Unread(slots'[i], i = ri', b + Dist(i)')
                                          ELSE Empty(slots'[i])
    BY <1>1, <1>2, <1>5, <1>6, <1>8 DEF Ring
  <1>10. next' = Start(b) + (IF k = 0 THEN 0 ELSE slots'[ri'].cache.read)
    BY <1>1, <1>4, <1>5 DEF Ring, TypeOK
  <1>11. block' = Start(segment' - 1) + slots'[wi'].cache.write
    BY <1>1, <1>3, <1>4, <1>5
  <1>12. \A i \in Slots : slots'[i].ready <=> Dist(i)' >= k
    BY <1>5, <1>6 DEF Ring
  <1>13. NextSlot' = After(k)'
    BY <1>0 DEF Ring, NextSlot, After
  <1>14. \A i \in Slots : Dist(i)' < k => slots'[i].cache.write = SegmentSize \/ (i = wi' /\ Storing')
    <2> SUFFICES ASSUME NEW i \in Slots, Dist(i) < k
                 PROVE  slots'[i].cache.write = SegmentSize \/ (i = wi /\ Storing')
      BY <1>6
    <2>1. CASE i # wi
      BY <1>0, <1>5, <2>1 DEF Ring
    <2>2. CASE i = wi /\ block' # Start(segment)
      BY <1>0, <2>2 DEF Storing, Start
    <2>3. CASE i = wi /\ block' = Start(segment)
      BY <1>1, <1>3, <1>4, <1>5, <2>3
    <2> QED BY <2>1, <2>2, <2>3
  <1>15. wi' # None
    BY <1>1 DEF Slots, None
  <1> QED BY <1>0, <1>1, <1>9, <1>10, <1>11, <1>12, <1>13, <1>14, <1>15 DEF Ring

(* A block is read, and it is the next of the stream; with the last block  *)
(* of a file the loop goes on to the next.                                 *)
LEMMA ReadRing ==
  ASSUME TypeOK, NEW b \in 0..Segments, NEW k \in 0..N, Ring(b, k), LoopRead
  PROVE  /\ out' = down.next
         /\ \E bb \in 0..Segments, kk \in 0..N : Ring(bb, kk)'
  <1> DEFINE s == slots[ri]
             done == s.cache.read + 1 = s.size
  <1>1. /\ \A j \in Slots : j # ri => slots'[j] = slots[j]
        /\ slots'[ri].ready <=> s.ready \/ done
        /\ slots'[ri].size = s.size
        /\ slots'[ri].cache.read = s.cache.read + 1
        /\ slots'[ri].cache.write = s.cache.write /\ slots'[ri].cache.file = s.cache.file
        /\ s.cache.read \in 0..s.cache.write-1 /\ s.cache.write \in Nat
        /\ out' = s.cache.file[s.cache.read + 1] /\ out' \in Blocks
        /\ ri' = (IF ~done THEN ri ELSE IF ri + 1 = N THEN 0 ELSE ri + 1) /\ ri' \in Slots
    BY ReadSlots
  <1>2. ri \in Slots /\ Dist(ri) = 0 /\ N \in Nat /\ N > 0 /\ SegmentSize \in Nat
    BY RingPlaces DEF TypeOK, N
  <1>3. k > 0 /\ ~s.ready /\ Unread(s, TRUE, b)
    <2>1. ~Empty(s)
      BY <1>1 DEF Empty
    <2>2. b + Dist(ri) = b
      BY <1>2
    <2>3. IF Dist(ri) < k THEN Unread(s, ri = ri, b + Dist(ri)) ELSE Empty(s)
      BY <1>2 DEF Ring
    <2>4. k > 0 /\ Unread(s, ri = ri, b)
      BY <1>2, <2>1, <2>2, <2>3
    <2>5. ~s.ready
      BY <1>2, <2>4 DEF Ring
    <2> QED BY <2>4, <2>5
  <1>4. Start(b) \in Nat /\ Start(b + 1) = Start(b) + SegmentSize
    BY StartFacts
  <1>5. out' = Start(b) + s.cache.read /\ out' = down.next /\ next' = out' + 1
    <2>1. out' = Start(b) + s.cache.read
      BY <1>1, <1>3 DEF Unread
    <2>2. next = down.next /\ next' = out' + 1
      BY DEF LoopRead, next
    <2> QED BY <1>3, <2>1, <2>2 DEF Ring
  <1>6. /\ UNCHANGED <<wi, segment, block, event, sflush, down>>
        /\ InEvent' <=> InEvent
        /\ Waiting' <=> Waiting
        /\ Live' <=> Live
        /\ Storing' <=> Storing
    <2>1. /\ UNCHANGED <<wi, segment, block, event, sflush, down>>
          /\ spc' \in {spc, "woken", "missed"} /\ (spc' # spc => Waiting /\ Waiting')
      BY DEF LoopRead, DelSignalled, Waiting, userVars
    <2>2. /\ InEvent' <=> InEvent
          /\ Waiting' <=> Waiting
          /\ Live' <=> Live
      BY <2>1 DEF InEvent, Waiting, Preparing, Live, Start
    <2> QED BY <2>1, <2>2 DEF Storing, Start
  <1>7. CASE ~done
    <2>1. \A i \in Slots : Dist(i)' = Dist(i)
      BY <1>1, <1>7 DEF Dist
    <2>2. Unread(slots'[ri], TRUE, b)
      BY <1>1, <1>3, <1>7 DEF Unread
    <2>3. \A i \in Slots : IF Dist(i)' < k THEN Unread(slots'[i], i = ri', b + Dist(i)')
                                            ELSE Empty(slots'[i])
      <3> SUFFICES ASSUME NEW i \in Slots
                   PROVE  IF Dist(i) < k THEN Unread(slots'[i], i = ri, b + Dist(i))
                                         ELSE Empty(slots'[i])
        BY <1>1, <1>7, <2>1
      <3>1. CASE i = ri
        <4>1. b + Dist(i) = b /\ Dist(i) < k
          BY <1>2, <1>3, <3>1
        <4>2. Unread(slots'[i], i = ri, b)
          BY <2>2, <3>1
        <4> QED BY <4>1, <4>2
      <3>2. CASE i # ri
        BY <1>1, <3>2 DEF Ring
      <3> QED BY <3>1, <3>2
    <2>4. next' = Start(b) + (IF k = 0 THEN 0 ELSE slots'[ri'].cache.read)
      BY <1>1, <1>3, <1>4, <1>5, <1>7
    <2>5. \A i \in Slots : slots'[i].ready <=> Dist(i)' >= k
      BY <1>1, <1>3, <1>7, <2>1 DEF Ring
    <2>6. NextSlot' = After(k)'
      BY <1>1, <1>6, <1>7 DEF Ring, NextSlot, After
    <2>7. \A i \in Slots : slots'[i].cache.write = slots[i].cache.write
      BY <1>1
    <2>9. Storing' /\ Live' =>
             wi' # None /\ k > 0 /\ block' = Start(segment' - 1) + slots'[wi'].cache.write
      BY <1>6, <2>7 DEF Ring, TypeOK
    <2>10. Live' => \A i \in Slots : Dist(i)' < k =>
             slots'[i].cache.write = SegmentSize \/ (i = wi' /\ Storing')
      BY <1>6, <2>1, <2>7 DEF Ring
    <2>11. (InEvent' => segment' = b + k + 1) /\ (~InEvent' /\ Live' => segment' = b + k)
      BY <1>6 DEF Ring
    <2>8. Ring(b, k)'
      BY <2>3, <2>4, <2>5, <2>6, <2>9, <2>10, <2>11 DEF Ring
    <2> QED BY <1>5, <2>8
  <1>8. CASE done
    <2>1. /\ s.size = SegmentSize /\ s.cache.read + 1 = SegmentSize
          /\ s.cache.write = SegmentSize
      BY <1>1, <1>2, <1>3, <1>8 DEF Unread
    <2>2. b + 1 \in 0..Segments /\ k - 1 \in 0..N
      <3>1. Start(b) < Start(Segments) /\ Start(Segments) \in Nat
        <4>1. Last \in Nat /\ Start(Segments) = Last /\ out' \in 0..Last-1
          BY <1>1, StartFacts DEF Blocks
        <4> QED BY <1>1, <1>4, <1>5, <4>1
      <3>2. b # Segments
        BY <3>1, <1>4
      <3> QED BY <1>2, <1>3, <3>2
    <2>3. \A i \in Slots : Dist(i)' = IF i = ri THEN N - 1 ELSE Dist(i) - 1
      BY <1>1, <1>2, <1>8 DEF Dist, Slots
    <2>4. \A i \in Slots : Dist(i) \in 0..N-1 /\ (Dist(i) = 0 <=> i = ri)
      BY RingPlaces
    <2>5. \A i \in Slots : slots'[i].ready <=> Dist(i)' >= k - 1
      BY <1>1, <1>2, <1>3, <1>8, <2>3, <2>4 DEF Ring
    <2>6. NextSlot' = After(k - 1)'
      BY <1>1, <1>2, <1>3, <1>6, <1>8 DEF Ring, NextSlot, After, Slots
    <2>7. ri' # ri => Dist(ri') = 1
      BY <1>1, <1>2, <1>8 DEF Dist, Slots
    <2>8. next' = Start(b + 1) + (IF k - 1 = 0 THEN 0 ELSE slots'[ri'].cache.read)
      <3>1. next' = Start(b + 1)
        BY <1>1, <1>4, <1>5, <2>1
      <3>2. k - 1 # 0 => slots'[ri'].cache.read = 0
        <4> SUFFICES ASSUME k - 1 # 0 PROVE slots'[ri'].cache.read = 0
          OBVIOUS
        <4>1. N > 1 /\ ri' # ri
          BY <1>1, <1>2, <1>3, <1>8 DEF Slots
        <4>2. Dist(ri') < k /\ slots'[ri'] = slots[ri']
          BY <1>1, <1>3, <2>7, <4>1
        <4> QED BY <1>1, <4>1, <4>2 DEF Ring, Unread
      <3>3. Start(b + 1) + 0 = Start(b + 1)
        BY <1>2, <1>4
      <3> QED BY <3>1, <3>2, <3>3
    <2>9. \A i \in Slots : IF Dist(i)' < k - 1
                           THEN Unread(slots'[i], i = ri', b + 1 + Dist(i)')
                           ELSE Empty(slots'[i])
      <3> SUFFICES ASSUME NEW i \in Slots
                   PROVE  IF Dist(i)' < k - 1 THEN Unread(slots'[i], i = ri', b + 1 + Dist(i)')
                                              ELSE Empty(slots'[i])
        OBVIOUS
      <3>1. CASE i = ri
        <4>1. ~(Dist(i)' < k - 1)
          BY <1>2, <2>3, <3>1
        <4>2. Empty(slots'[i])
          BY <1>1, <2>1, <3>1 DEF Empty
        <4> QED BY <4>1, <4>2
      <3>2. CASE i # ri /\ Dist(i) < k
        <4>1. Dist(i)' < k - 1 /\ b + 1 + Dist(i)' = b + Dist(i) /\ slots'[i] = slots[i]
          BY <1>1, <1>2, <2>3, <2>4, <3>2
        <4>2. Unread(slots[i], FALSE, b + Dist(i))
          BY <3>2 DEF Ring
        <4>3. Unread(slots[i], i = ri', b + Dist(i))
          BY <1>2, <4>2 DEF Unread
        <4> QED BY <4>1, <4>3
      <3>3. CASE i # ri /\ ~(Dist(i) < k)
        <4>1. ~(Dist(i)' < k - 1) /\ slots'[i] = slots[i]
          BY <1>1, <1>2, <2>3, <2>4, <3>3
        <4>2. Empty(slots[i])
          BY <3>3 DEF Ring
        <4> QED BY <4>1, <4>2
      <3> QED BY <3>1, <3>2, <3>3
    <2>10. \A i \in Slots : slots'[i].cache.write = slots[i].cache.write
      BY <1>1
    <2>11. ASSUME Storing', Live'
           PROVE  /\ wi' # None /\ k - 1 > 0
                  /\ block' = Start(segment' - 1) + slots'[wi'].cache.write
      <3>1. /\ wi \in Slots /\ block = Start(segment - 1) + slots[wi].cache.write /\ segment = b + k
            /\ ~InEvent /\ block # Start(segment)
        BY <1>6, <2>11 DEF Ring, TypeOK, Storing
      <3>2. ASSUME k = 1 PROVE FALSE
        <4>1. Dist(wi) = 0
          BY <1>6, <2>11, <3>1, <3>2, RingPlaces DEF Ring, NextSlot, InEvent
        <4>2. wi = ri
          BY <2>4, <3>1, <4>1
        <4>3. segment - 1 = b /\ segment = b + 1
          BY <3>1, <3>2
        <4> QED BY <1>4, <2>1, <3>1, <4>2, <4>3
      <3> QED BY <1>3, <1>6, <2>10, <3>1, <3>2 DEF TypeOK, Slots, None
    <2>12. Live' => \A i \in Slots : Dist(i)' < k - 1 =>
             slots'[i].cache.write = SegmentSize \/ (i = wi' /\ Storing')
      BY <1>2, <1>6, <2>3, <2>4, <2>10 DEF Ring
    <2>13. (InEvent' => segment' = b + 1 + (k - 1) + 1)
           /\ (~InEvent' /\ Live' => segment' = b + 1 + (k - 1))
      BY <1>6 DEF Ring
    <2>14. Ring(b + 1, k - 1)'
      BY <2>5, <2>6, <2>8, <2>9, <2>11, <2>12, <2>13 DEF Ring
    <2> QED BY <1>5, <2>2, <2>14
  <1> QED BY <1>7, <1>8

(* The ring stays in order, or out of use, whoever moves.                  *)
LEMMA StepSound ==
  ASSUME TypeOK, TypeOK', Places, Claims, Phases, Phases', Calm, Sound, [Next]_vars
  PROVE  Sound'
  <1> USE DEF elementVars, loopVars, sourceVars, userVars, faultVars
  <1> SUFFICES ASSUME ~down'.flushing, ~astray', ~Broken' PROVE Sound'
    BY DEF Sound
  <1> DEFINE Same == /\ UNCHANGED <<slots, wi, ri, segment, seeks>>
                     /\ next' = next
                     /\ InEvent' <=> InEvent
                     /\ Waiting' <=> Waiting
                     /\ Live' <=> Live
                     /\ Storing' <=> Storing
                     /\ Storing => block' = block
                     /\ pc' = "push" => pc = "push"
             Firm == ~down.flushing /\ ~astray /\ ~Broken
             Sites == /\ InEvent' <=> InEvent
                      /\ Waiting' <=> Waiting
                      /\ Live' <=> Live
  <1>0. Same /\ Firm => Sound'
    BY SameRing
  <1>1. ASSUME NEW b \in 0..Segments, NEW k \in 0..N, Ring(b, k)' PROVE Sound'
    BY <1>1 DEF Sound
  <1>2. Firm /\ ~(Stuck /\ seeks > 0) => \E b \in 0..Segments, k \in 0..N : Ring(b, k)
    BY DEF Sound
  <1>3. Firm /\ ~Ended => srcresult = "ok"
    BY DEF Calm, TypeOK, Broken
  <1>4. Firm /\ ~sflush => ~isFlushing
    BY DEF Phases, TypeOK
  <1>5. CASE LoopEnter \/ LoopAgain \/ LoopWait \/ LoopEos \/ LoopFlushed \/ LoopStore \/ LoopEnd
    <2>1. /\ UNCHANGED <<slots, wi, ri, segment, seeks, block, event, spc, sflush, out, astray>>
          /\ pc # "push" /\ pc' # "push" /\ down'.next = down.next /\ down'.flushing = down.flushing
      BY <1>5 DEF LoopEnter, LoopAgain, LoopWait, LoopEos, LoopFlushed, LoopStore, LoopEnd, TypeOK
    <2>2. Same
      BY <2>1 DEF next, InEvent, Preparing, Waiting, Live, Storing, Start
    <2>3. Firm
      <3>1. ~down.flushing /\ ~astray
        BY <2>1
      <3>2. Broken => Broken'
        BY <1>5, <3>1 DEF LoopEnter, LoopAgain, LoopWait, LoopEos, LoopFlushed, LoopStore, LoopEnd,
           Broken, Calm
      <3> QED BY <3>1, <3>2
    <2> QED BY <1>0, <2>2, <2>3
  <1>6. CASE SourceFlushing \/ WaitForSlot \/ ReadError \/ PushEos \/ SourceStore \/ RefuseEmpty
    <2>1. /\ UNCHANGED <<slots, wi, ri, segment, seeks, block, event, sflush, out, down, astray,
                         srcresult, res>>
          /\ pc' = "push" <=> pc = "push"
          /\ pc' = "store" <=> pc = "store"
      BY <1>6 DEF SourceFlushing, WaitForSlot, ReadError, PushEos, SourceStore, RefuseEmpty,
         AddSignalled
    <2>2. Sites
      BY <1>6 DEF SourceFlushing, WaitForSlot, ReadError, PushEos, SourceStore, RefuseEmpty,
         InEvent, Preparing, Waiting, Live, Start
    <2>3. Same
      BY <2>1, <2>2 DEF next, Storing, Start
    <2>4. Firm
      BY <2>1 DEF Broken
    <2> QED BY <1>0, <2>3, <2>4
  <1>7. CASE ClearEos \/ RestartResult \/ RestartTask \/ AnnounceSegment
    <2>1. /\ UNCHANGED <<slots, wi, ri, segment, seeks, block, event, sflush, out, astray, res, pc>>
          /\ down'.next = down.next /\ down'.flushing = down.flushing
      BY <1>7 DEF ClearEos, RestartResult, RestartTask, AnnounceSegment, TypeOK
    <2>2. Sites
      BY <1>7 DEF ClearEos, RestartResult, RestartTask, AnnounceSegment, InEvent, Preparing, Waiting,
         Live, Start
    <2>3. Same
      BY <2>1, <2>2 DEF next, Storing, Start
    <2>4. Firm
      <3>1. ~down.flushing /\ ~astray
        BY <2>1
      <3>2. CASE RestartResult
        BY <3>1, <3>2 DEF RestartResult, Calm, Broken
      <3>3. CASE ~RestartResult
        BY <1>7, <2>1, <3>1, <3>3 DEF ClearEos, RestartTask, AnnounceSegment, Broken
      <3> QED BY <3>2, <3>3
    <2> QED BY <1>0, <2>3, <2>4
  <1>8. CASE \/ SeekFlushDown \/ SeekFlushData \/ SeekPauseTask \/ SeekLoopPaused
             \/ DisposeFlushData \/ DisposeDeactivate \/ DisposeStopTask \/ DisposeJoined
             \/ DisposeSource \/ Disposed \/ DisposeFlush \/ SegmentInVain
    <2>1. down'.flushing
      BY <1>8 DEF SeekFlushDown, SeekFlushData, SeekPauseTask, SeekLoopPaused, DisposeFlushData,
         DisposeDeactivate, DisposeStopTask, DisposeJoined, DisposeSource, Disposed, DisposeFlush,
         SegmentInVain, FlushData, Phases, Places, TypeOK
    <2> QED BY <2>1
  <1>9. CASE UNCHANGED vars
    <2>1. Same /\ Firm
      BY <1>9 DEF vars, next, InEvent, Preparing, Waiting, Live, Storing, Start, Broken
    <2> QED BY <1>0, <2>1
  <1>10. CASE LoopRead
    <2>1. Firm /\ ~Stuck
      BY <1>10, ReadSlots DEF LoopRead, Stuck, Broken
    <2>2. PICK b \in 0..Segments, k \in 0..N : Ring(b, k)
      BY <1>2, <2>1
    <2> QED BY <1>1, <1>10, <2>2, ReadRing
  <1>11. CASE LoopPush
    <2>1. /\ UNCHANGED <<slots, wi, ri, segment, seeks, block, event, spc, sflush, astray, srcresult>>
          /\ pc = "push" /\ pc' = "store" /\ res' # "failed"
      BY <1>11 DEF LoopPush, Broken
    <2>2. Firm /\ down'.next = out + 1
      BY <1>11, <2>1 DEF LoopPush, Broken, TypeOK
    <2>3. Same
      BY <2>1, <2>2 DEF next, InEvent, Preparing, Waiting, Live, Storing, Start
    <2> QED BY <1>0, <2>2, <2>3
  <1>12. CASE NoMoreSegments \/ EndOfSegment
    <2>1. /\ UNCHANGED <<slots, wi, ri, segment, seeks, block, spc, sflush, out, down, astray,
                         srcresult, res, pc>>
          /\ event' # "data" /\ (event = "data" => block = Start(segment))
      BY <1>12 DEF NoMoreSegments, EndOfSegment
    <2>2. Same /\ Firm
      BY <2>1 DEF next, InEvent, Preparing, Waiting, Live, Storing, Start, Broken
    <2> QED BY <1>0, <2>2
  <1>13. CASE PushSegment
    <2>1. /\ spc = "push" /\ event = "segment" /\ segment' = segment + 1 /\ event' = "data"
          /\ UNCHANGED <<slots, wi, ri, seeks, sflush, pc, out, down, astray, srcresult, res>>
          /\ block' = Start(segment) /\ spc' = IF ~sflush /\ srcresult = "ok" THEN "segment" ELSE "store"
      BY <1>13 DEF PushSegment, SendSegment
    <2>2. Firm /\ srcresult = "ok"
      BY <1>3, <2>1 DEF Broken, Ended
    <2>3. block' # Start(segment')
      <3>1. Start(segment) \in Nat /\ Start(segment + 1) \in Nat /\ Start(segment) < Start(segment + 1)
        BY StartBounds DEF TypeOK
      <3>2. block' # Start(segment + 1)
        BY <2>1, <3>1
      <3> QED BY <2>1, <3>2
    <2>4. /\ ~InEvent /\ ~Waiting /\ ~Waiting' /\ ~Storing /\ (Live <=> ~sflush) /\ next' = next
          /\ (Live' <=> ~sflush)
          /\ (sflush => ~InEvent')
          /\ (~sflush => InEvent')
      BY <2>1, <2>2, <2>3 DEF InEvent, Preparing, Waiting, Live, Storing, next, Start
    <2>5. Storing' => sflush
      BY <2>4 DEF Storing
    <2>6. CASE Stuck /\ seeks > 0
      <3>1. Stuck' /\ seeks' = seeks
        BY <2>1, <2>4, <2>5, <2>6 DEF Stuck
      <3> QED BY <2>6, <3>1 DEF Sound
    <2>7. CASE ~(Stuck /\ seeks > 0)
      <3>1. PICK b \in 0..Segments, k \in 0..N : Ring(b, k)
        BY <1>2, <2>2, <2>7
      <3>2. Ring(b, k)'
        BY <2>1, <2>4, <2>5, <3>1 DEF Ring, Dist, After, NextSlot, TypeOK
      <3> QED BY <1>1, <3>2
    <2> QED BY <2>6, <2>7
  <1>14. CASE PushEmptySegment
    <2>1. /\ spc = "push" /\ event = "segment" /\ spc' \in {"segment", "store"}
          /\ UNCHANGED <<slots, wi, ri, segment, seeks, sflush, pc, out, down, astray, srcresult, res>>
          /\ block' = Start(segment)
      BY <1>14 DEF PushEmptySegment, SendSegment
    <2>2. Same /\ Firm
      BY <2>1 DEF next, InEvent, Preparing, Waiting, Live, Storing, Start, Broken
    <2> QED BY <1>0, <2>2
  <1>15. CASE ClaimSlot \/ SlotSignalled
    <2>1. /\ spc \in {"claim", "woken"} /\ InEvent
          /\ UNCHANGED <<ri, segment, block, event, sflush, seeks, pc, out, down, astray, srcresult, res>>
      BY <1>15 DEF ClaimSlot, SlotSignalled, InEvent, Waiting
    <2>2. Firm /\ srcresult = "ok"
      BY <1>3, <2>1 DEF Broken, Ended
    <2>3. wi' = NextSlot /\ NextSlot \in Slots
      <3>1. CASE ClaimSlot
        BY <3>1, NextIndex DEF ClaimSlot, NextSlot, Waiting, TypeOK
      <3>2. CASE SlotSignalled
        BY <2>2, <3>2 DEF SlotSignalled, NextSlot, Waiting, Claims, TypeOK
      <3> QED BY <1>15, <3>1, <3>2
    <2>4. \/ ~slots[NextSlot].ready /\ slots' = slots /\ spc' = "full"
          \/ slots[NextSlot].ready /\ slots' = Claimed(NextSlot) /\ spc' = "store"
      BY <1>15, <2>2, <2>3 DEF ClaimSlot, SlotSignalled
    <2>5. CASE slots' = slots /\ spc' = "full"
      <3>1. /\ InEvent' /\ Waiting' /\ NextSlot' = NextSlot /\ next' = next /\ ~Storing' /\ ~Storing
            /\ (Live' <=> Live)
        BY <2>1, <2>3, <2>5 DEF InEvent, Waiting, NextSlot, next, Storing, Live
      <3>2. ASSUME Stuck PROVE Stuck'
        BY <2>1, <2>5, <3>1, <3>2 DEF Stuck
      <3>3. ASSUME NEW b \in 0..Segments, NEW k \in 0..N, Ring(b, k) PROVE Ring(b, k)'
        BY <2>1, <2>5, <3>1, <3>3 DEF Ring, Dist, After
      <3> QED BY <2>1, <2>2, <3>2, <3>3 DEF Sound
    <2>6. CASE slots[NextSlot].ready /\ slots' = Claimed(NextSlot) /\ spc' = "store"
      <3>1. CASE Stuck /\ seeks > 0
        <4>1. NextSlot # ri /\ ri \in Slots
          BY <2>6, <3>1 DEF Stuck, TypeOK
        <4>2. slots'[ri] = slots[ri]
          BY <2>3, <2>6, <4>1, ClaimedSlots
        <4>3. Stuck'
          BY <2>1, <2>3, <3>1, <4>1, <4>2 DEF Stuck
        <4> QED BY <2>1, <3>1, <4>3 DEF Sound
      <3>2. CASE ~(Stuck /\ seeks > 0)
        <4>1. PICK b \in 0..Segments, k \in 0..N : Ring(b, k)
          BY <1>2, <2>2, <3>2
        <4>2. event = "data" /\ block = Start(segment - 1) /\ segment > 0 /\ spc # "chain"
          BY <2>1 DEF Places
        <4>3. k < N /\ Ring(b, k + 1)'
          BY <2>1, <2>3, <2>6, <4>1, <4>2, ClaimRing
        <4>4. k + 1 \in 0..N
          BY <4>3 DEF N
        <4> QED BY <1>1, <4>3, <4>4
      <3> QED BY <3>1, <3>2
    <2> QED BY <2>4, <2>5, <2>6
  <1>16. CASE PushBlock
    <2>1. /\ spc = "push" /\ event = "data" /\ block < Start(segment) /\ spc' \in {"store", "chain"}
          /\ UNCHANGED <<slots, wi, ri, segment, event, sflush, seeks, pc, out, down, astray,
                         srcresult, res>>
      BY <1>16 DEF PushBlock
    <2>2. Firm
      BY <2>1 DEF Broken
    <2>3. ~InEvent /\ ~Waiting /\ ~InEvent' /\ ~Waiting' /\ next' = next
      BY <2>1 DEF InEvent, Preparing, Waiting, next
    <2>4. CASE sflush
      <3>1. ~Live'
        BY <1>16, <2>4 DEF PushBlock, Live
      <3>2. ASSUME Stuck PROVE Stuck'
        BY <2>1, <3>1, <3>2 DEF Stuck
      <3>3. ASSUME NEW b \in 0..Segments, NEW k \in 0..N, Ring(b, k) PROVE Ring(b, k)'
        BY <2>1, <2>3, <3>1, <3>3 DEF Ring, Dist, After, NextSlot
      <3> QED BY <2>1, <2>2, <3>2, <3>3 DEF Sound
    <2>5. CASE ~sflush
      <3>1. ~isEos /\ ~isFlushing
        BY <1>4, <2>1, <2>2, <2>5 DEF Calm
      <3>2. block' = block /\ spc' = "chain"
        BY <1>16, <2>5, <3>1 DEF PushBlock
      <3>3. Same
        BY <2>1, <2>3, <2>5, <3>2 DEF Live, Storing, Start
      <3> QED BY <1>0, <2>2, <3>3
    <2> QED BY <2>4, <2>5
  <1>17. CASE StoreBlock
    <2>1. /\ spc = "chain" /\ spc' = "store" /\ block' = block + 1
          /\ UNCHANGED <<wi, ri, segment, event, sflush, seeks, out, down, astray, srcresult, res>>
          /\ event = "data" /\ block < Start(segment)
      BY <1>17 DEF StoreBlock, Places
    <2>2. /\ pc' = "push" <=> pc = "push"
          /\ pc' = "store" <=> pc = "store"
      BY <1>17 DEF StoreBlock, AddSignalled
    <2>3. Firm /\ srcresult = "ok"
      BY <1>3, <2>1, <2>2 DEF Broken, Ended
    <2>4. slots' = [slots EXCEPT ![wi].cache = cache_write_buffer(@, block)] /\ next' = next
      BY <1>17, <2>1, <2>2, <2>3 DEF StoreBlock, next
    <2>5. CASE Stuck /\ seeks > 0
      <3>1. Storing /\ Live
        <4>1. block # Start(segment)
          BY <2>1, StartBounds DEF TypeOK
        <4> QED BY <2>1, <4>1 DEF Storing, Live, InEvent, Preparing, Waiting
      <3>2. wi # ri
        BY <2>5, <3>1 DEF Stuck
      <3>3. slots'[ri] = slots[ri]
        BY <2>4, <3>2 DEF TypeOK
      <3>4. Stuck'
        BY <2>1, <2>2, <2>5, <3>2, <3>3 DEF Stuck
      <3> QED BY <2>1, <2>5, <3>4 DEF Sound
    <2>6. CASE ~(Stuck /\ seeks > 0)
      <3>1. PICK b \in 0..Segments, k \in 0..N : Ring(b, k)
        BY <1>2, <2>3, <2>6
      <3>2. block \in Blocks
        <4>1. block < Start(segment) /\ Start(segment) \in Nat /\ Start(segment) <= Last /\ Last \in Nat
          BY <2>1, StartBounds DEF TypeOK
        <4> QED BY <4>1 DEF Blocks, TypeOK
      <3>3. Ring(b, k)'
        BY <2>1, <2>4, <3>1, <3>2, StoreRing
      <3> QED BY <1>1, <3>3
    <2> QED BY <2>5, <2>6
  <1>18. CASE Crash
    BY <1>18 DEF Crash, Phases
  <1>19. CASE SeekFlushStop
    <2>1. /\ Emptied /\ seeks > 0 /\ pc \notin {"push", "store"} /\ target \in 0..Segments-1
      BY <1>19 DEF SeekFlushStop, Phases, TypeOK
    <2>2. event' = "segment" /\ segment' = target
      BY <1>19 DEF SeekFlushStop, SeekData
    <2>3. /\ UNCHANGED <<slots, wi, ri, pc, seeks>> /\ spc' = "push"
          /\ ~sflush' /\ next' = Start(target)
      BY <1>19, <2>1, <2>2 DEF SeekFlushStop, next, Start
    <2>4. ~InEvent' /\ ~Waiting' /\ ~Storing'
      BY <2>2, <2>3 DEF InEvent, Preparing, Waiting, Storing
    <2>5. CASE wi = None /\ \A i \in Slots : slots[i].ready
      <3>1. PICK t \in 0..Segments : t = target
        BY <2>1
      <3>2. t \in Nat /\ 0 \in 0..N /\ N > 0 /\ N \in Nat
        BY DEF N
      <3>3. Start(t) \in Nat
        BY <3>2, StartFacts
      <3>4. \A i \in Slots : Dist(i)' >= 0 /\ ~(Dist(i)' < 0) /\ Empty(slots'[i])
        BY <2>1, <2>3, <3>2 DEF Dist, Emptied, Empty, Slots
      <3>5. NextSlot' = After(0)'
        BY <2>1, <2>3, <2>4, <2>5, <3>2 DEF NextSlot, After, Emptied, None
      <3>6. Ring(t, 0)'
        BY <2>1, <2>2, <2>3, <2>4, <2>5, <3>1, <3>2, <3>3, <3>4, <3>5 DEF Ring
      <3> QED BY <1>1, <3>2, <3>6
    <2>6. CASE wi = 0 /\ \A i \in Slots : slots[i].ready <=> i # 0
      <3>1. 0 \in Slots /\ ri = 0
        BY <2>1 DEF Slots, N, Emptied
      <3>2. Stuck'
        BY <2>1, <2>3, <2>4, <2>6, <3>1 DEF Stuck, Emptied
      <3> QED BY <2>1, <2>3, <3>2 DEF Sound
    <2> QED BY <2>1, <2>5, <2>6 DEF Emptied
  <1>20. CASE SeekFlushStart
    <2>1. /\ UNCHANGED <<slots, wi, ri, segment, block, event, spc, pc, out, down, astray, srcresult, res>>
          /\ sflush' = TRUE /\ seeks' = seeks + 1 /\ seeks \in Nat
      BY <1>20 DEF SeekFlushStart, TypeOK
    <2>2. Firm
      BY <2>1 DEF Broken
    <2>3. /\ InEvent' <=> InEvent
          /\ Waiting' <=> Waiting
          /\ Live' => Live
          /\ next' = next
      BY <2>1 DEF InEvent, Preparing, Waiting, Live, next, Start
    <2>4. Storing' <=> Storing
      BY <2>1, <2>3 DEF Storing, Start
    <2>5. ASSUME Stuck PROVE Stuck'
      BY <2>1, <2>3, <2>4, <2>5 DEF Stuck
    <2>6. ASSUME NEW b \in 0..Segments, NEW k \in 0..N, Ring(b, k) PROVE Ring(b, k)'
      BY <2>1, <2>3, <2>4, <2>6 DEF Ring, Dist, After, NextSlot
    <2> QED BY <2>1, <2>2, <2>5, <2>6 DEF Sound
  <1> QED
    BY <1>5, <1>6, <1>7, <1>8, <1>9, <1>10, <1>11, <1>12, <1>13, <1>14, <1>15, <1>16, <1>17, <1>18,
       <1>19, <1>20 DEF Next, Loop, Source, PlayerStep

(* What is read is what downstream expects.                                *)
LEMMA StepOrder ==
  ASSUME TypeOK, Phases, Sound, Order, [Next]_vars
  PROVE  Order'
  <1> USE DEF Order, Phases, TypeOK, AddSignalled, elementVars, loopVars, sourceVars, userVars,
     faultVars
  <1>1. CASE LoopEnter
    BY <1>1 DEF LoopEnter
  <1>2. CASE LoopAgain
    BY <1>2 DEF LoopAgain
  <1>3. CASE LoopWait
    BY <1>3 DEF LoopWait
  <1>4. CASE LoopEos
    BY <1>4 DEF LoopEos
  <1>5. CASE LoopFlushed
    BY <1>5 DEF LoopFlushed
  <1>6. CASE LoopRead
    <2> SUFFICES ASSUME ~down.flushing, ~astray PROVE out' = down.next
      BY <1>6 DEF LoopRead
    <2>1. ~Stuck /\ ~Broken
      BY <1>6, ReadSlots DEF LoopRead, Stuck, Broken
    <2>2. PICK b \in 0..Segments, k \in 0..N : Ring(b, k)
      BY <2>1 DEF Sound
    <2> QED BY <1>6, <2>2, ReadRing
  <1>7. CASE LoopPush
    BY <1>7 DEF LoopPush, Fault
  <1>8. CASE LoopStore
    BY <1>8 DEF LoopStore
  <1>9. CASE LoopEnd
    BY <1>9 DEF LoopEnd
  <1>10. CASE SourceFlushing
    BY <1>10 DEF SourceFlushing
  <1>11. CASE NoMoreSegments
    BY <1>11 DEF NoMoreSegments
  <1>12. CASE SegmentInVain
    BY <1>12 DEF SegmentInVain
  <1>13. CASE PushSegment
    BY <1>13 DEF PushSegment, SendSegment
  <1>14. CASE PushEmptySegment
    BY <1>14 DEF PushEmptySegment, SendSegment, Fault
  <1>15. CASE ClearEos
    BY <1>15 DEF ClearEos
  <1>16. CASE RestartResult
    BY <1>16 DEF RestartResult
  <1>17. CASE RestartTask
    BY <1>17 DEF RestartTask
  <1>18. CASE RefuseEmpty
    BY <1>18 DEF RefuseEmpty
  <1>19. CASE AnnounceSegment
    BY <1>19 DEF AnnounceSegment
  <1>20. CASE ClaimSlot
    BY <1>20 DEF ClaimSlot
  <1>21. CASE WaitForSlot
    BY <1>21 DEF WaitForSlot
  <1>22. CASE SlotSignalled
    BY <1>22 DEF SlotSignalled
  <1>23. CASE PushBlock
    BY <1>23 DEF PushBlock
  <1>24. CASE ReadError
    BY <1>24 DEF ReadError, Fault
  <1>25. CASE StoreBlock
    BY <1>25 DEF StoreBlock, NoFile
  <1>26. CASE Crash
    BY <1>26 DEF Crash, NoFile
  <1>27. CASE EndOfSegment
    BY <1>27 DEF EndOfSegment
  <1>28. CASE PushEos
    BY <1>28 DEF PushEos
  <1>29. CASE SourceStore
    BY <1>29 DEF SourceStore
  <1>30. CASE SeekFlushDown
    BY <1>30 DEF SeekFlushDown
  <1>31. CASE SeekFlushData
    BY <1>31 DEF SeekFlushData, FlushData
  <1>32. CASE SeekPauseTask
    BY <1>32 DEF SeekPauseTask
  <1>33. CASE SeekLoopPaused
    BY <1>33 DEF SeekLoopPaused
  <1>34. CASE SeekFlushStop
    BY <1>34 DEF SeekFlushStop, SeekData, Fault
  <1>35. CASE DisposeFlushData
    BY <1>35 DEF DisposeFlushData, FlushData
  <1>36. CASE DisposeDeactivate
    BY <1>36 DEF DisposeDeactivate
  <1>37. CASE DisposeStopTask
    BY <1>37 DEF DisposeStopTask
  <1>38. CASE DisposeJoined
    BY <1>38 DEF DisposeJoined
  <1>39. CASE DisposeSource
    BY <1>39 DEF DisposeSource
  <1>40. CASE Disposed
    BY <1>40 DEF Disposed
  <1>41. CASE SeekFlushStart
    BY <1>41 DEF SeekFlushStart
  <1>42. CASE DisposeFlush
    BY <1>42 DEF DisposeFlush
  <1>43. CASE UNCHANGED vars
    BY <1>43 DEF vars
  <1> QED
    BY <1>1, <1>2, <1>3, <1>4, <1>5, <1>6, <1>7, <1>8, <1>9, <1>10, <1>11, <1>12, <1>13, <1>14,
       <1>15, <1>16, <1>17, <1>18, <1>19, <1>20, <1>21, <1>22, <1>23, <1>24, <1>25, <1>26, <1>27,
       <1>28, <1>29, <1>30, <1>31, <1>32, <1>33, <1>34, <1>35, <1>36, <1>37, <1>38, <1>39, <1>40,
       <1>41, <1>42, <1>43 DEF Next, Loop, Source, PlayerStep

(* When the loop finds nothing to read after the end of the stream, every  *)
(* file has been read.                                                     *)
LEMMA AllRead ==
  ASSUME TypeOK, NEW b \in 0..Segments, NEW k \in 0..N, Ring(b, k), ~sflush, event = "eos",
         ~(slots[ri].cache.read < slots[ri].cache.write)
  PROVE  k = 0 /\ \A i \in Slots : slots[i].ready
  <1>1. ri \in Slots /\ Dist(ri) = 0 /\ SegmentSize \in Nat
    BY RingPlaces DEF TypeOK
  <1>2. k = 0
    <2> SUFFICES ASSUME k # 0 PROVE FALSE
      OBVIOUS
    <2>1. Dist(ri) < k /\ Live /\ ~Storing
      BY <1>1 DEF Live, Storing
    <2>2. slots[ri].cache.read < SegmentSize /\ slots[ri].cache.write = SegmentSize
      BY <1>1, <2>1 DEF Ring, Unread
    <2> QED BY <2>2
  <1>3. \A i \in Slots : Dist(i) >= k
    BY <1>2, RingPlaces
  <1> QED BY <1>2, <1>3 DEF Ring

(* Undisturbed, EOS is pushed after everything else.                       *)
LEMMA StepFinal ==
  ASSUME TypeOK, Places, Phases, Sound, Final, [Next]_vars
  PROVE  Final'
  <1> USE DEF Final, Undisturbed, Ended, Phases, TypeOK, AddSignalled, DelSignalled, elementVars,
     loopVars, sourceVars, userVars, faultVars
  <1>1. CASE LoopEnter
    BY <1>1 DEF LoopEnter
  <1>2. CASE LoopAgain
    BY <1>2 DEF LoopAgain
  <1>3. CASE LoopWait
    BY <1>3 DEF LoopWait, HasData
  <1>4. CASE LoopEos
    <2> SUFFICES ASSUME Undisturbed PROVE Final'
      BY <1>4 DEF LoopEos
    <2>1. ~sflush /\ ~down.flushing /\ ~astray /\ event = "eos" /\ spc \in {"parked", "store"}
      BY <1>4 DEF LoopEos
    <2>2. PICK b \in 0..Segments, k \in 0..N : Ring(b, k)
      BY <1>4, <2>1 DEF LoopEos, Sound, Broken
    <2>3. \A i \in Slots : slots[i].ready
      BY <1>4, <2>1, <2>2, AllRead DEF LoopEos, HasData, cache_has_enough_data
    <2> QED BY <1>4, <2>3 DEF LoopEos
  <1>5. CASE LoopFlushed
    BY <1>5 DEF LoopFlushed
  <1>6. CASE LoopRead
    BY <1>6 DEF LoopRead
  <1>7. CASE LoopPush
    BY <1>7 DEF LoopPush, Fault
  <1>8. CASE LoopStore
    BY <1>8 DEF LoopStore
  <1>9. CASE LoopEnd
    BY <1>9 DEF LoopEnd
  <1>10. CASE SourceFlushing
    BY <1>10 DEF SourceFlushing
  <1>11. CASE NoMoreSegments
    BY <1>11 DEF NoMoreSegments
  <1>12. CASE SegmentInVain
    BY <1>12 DEF SegmentInVain
  <1>13. CASE PushSegment
    BY <1>13 DEF PushSegment, SendSegment
  <1>14. CASE PushEmptySegment
    BY <1>14 DEF PushEmptySegment, SendSegment, Fault
  <1>15. CASE ClearEos
    BY <1>15 DEF ClearEos
  <1>16. CASE RestartResult
    BY <1>16 DEF RestartResult
  <1>17. CASE RestartTask
    BY <1>17 DEF RestartTask
  <1>18. CASE RefuseEmpty
    BY <1>18 DEF RefuseEmpty
  <1>19. CASE AnnounceSegment
    BY <1>19 DEF AnnounceSegment
  <1>20. CASE ClaimSlot
    BY <1>20 DEF ClaimSlot
  <1>21. CASE WaitForSlot
    BY <1>21 DEF WaitForSlot
  <1>22. CASE SlotSignalled
    BY <1>22 DEF SlotSignalled
  <1>23. CASE PushBlock
    BY <1>23 DEF PushBlock
  <1>24. CASE ReadError
    BY <1>24 DEF ReadError, Fault
  <1>25. CASE StoreBlock
    <2>1. Undisturbed => ~down.ended /\ ~isEos
      BY <1>25 DEF StoreBlock
    <2> QED BY <1>25, <2>1 DEF StoreBlock, NoFile
  <1>26. CASE Crash
    BY <1>26 DEF Crash, NoFile
  <1>27. CASE EndOfSegment
    BY <1>27 DEF EndOfSegment
  <1>28. CASE PushEos
    BY <1>28 DEF PushEos
  <1>29. CASE SourceStore
    BY <1>29 DEF SourceStore
  <1>30. CASE SeekFlushDown
    BY <1>30 DEF SeekFlushDown
  <1>31. CASE SeekFlushData
    BY <1>31 DEF SeekFlushData, FlushData
  <1>32. CASE SeekPauseTask
    BY <1>32 DEF SeekPauseTask
  <1>33. CASE SeekLoopPaused
    BY <1>33 DEF SeekLoopPaused
  <1>34. CASE SeekFlushStop
    BY <1>34 DEF SeekFlushStop, SeekData, Fault
  <1>35. CASE DisposeFlushData
    BY <1>35 DEF DisposeFlushData, FlushData
  <1>36. CASE DisposeDeactivate
    BY <1>36 DEF DisposeDeactivate
  <1>37. CASE DisposeStopTask
    BY <1>37 DEF DisposeStopTask
  <1>38. CASE DisposeJoined
    BY <1>38 DEF DisposeJoined
  <1>39. CASE DisposeSource
    BY <1>39 DEF DisposeSource
  <1>40. CASE Disposed
    BY <1>40 DEF Disposed
  <1>41. CASE SeekFlushStart
    BY <1>41 DEF SeekFlushStart
  <1>42. CASE DisposeFlush
    BY <1>42 DEF DisposeFlush
  <1>43. CASE UNCHANGED vars
    BY <1>43 DEF vars
  <1> QED
    BY <1>1, <1>2, <1>3, <1>4, <1>5, <1>6, <1>7, <1>8, <1>9, <1>10, <1>11, <1>12, <1>13, <1>14,
       <1>15, <1>16, <1>17, <1>18, <1>19, <1>20, <1>21, <1>22, <1>23, <1>24, <1>25, <1>26, <1>27,
       <1>28, <1>29, <1>30, <1>31, <1>32, <1>33, <1>34, <1>35, <1>36, <1>37, <1>38, <1>39, <1>40,
       <1>41, <1>42, <1>43 DEF Next, Loop, Source, PlayerStep

(* The invariant holds initially.                                          *)
LEMMA InitInv == Init => IInv
  <1> SUFFICES ASSUME Init PROVE IInv
    OBVIOUS
  <1>1. create_cache \in Cache(Blocks) /\ create_cache.write = 0 /\ create_cache.read = 0
    BY DEF Cache, create_cache
  <1>2. /\ N \in Nat /\ N > 0 /\ 0 \in Slots /\ Last \in Nat /\ 0 \in 0..Segments-1
        /\ Start(0) = 0
    BY StartFacts DEF N, Slots
  <1>3. slots = [i \in Slots |-> [cache |-> create_cache, size |-> 0, ready |-> TRUE]]
    BY DEF Init, EmptySlot
  <1>4. TypeOK
    <2> HIDE DEF Cache
    <2>1. slots \in Files
      BY <1>1, <1>3
    <2>2. down \in [flushing : BOOLEAN, segment : BOOLEAN, next : 0..Last, ended : BOOLEAN]
      BY <1>2 DEF Init
    <2>3. /\ isFlushing \in BOOLEAN /\ isEos \in BOOLEAN /\ sendNewSegment \in BOOLEAN
          /\ sflush \in BOOLEAN /\ astray \in BOOLEAN
      BY Zenon DEF Init
    <2>4. /\ wi \in Slots \cup {None} /\ ri \in Slots /\ out \in Blocks \cup {None}
          /\ segment \in 0..Segments /\ block \in 0..Last
          /\ target \in 0..Segments-1 /\ seeks \in 0..MaxSeeks /\ faults \in 0..MaxFaults
      BY <1>2 DEF Init
    <2> QED BY <2>1, <2>2, <2>3, <2>4 DEF Init, TypeOK
  <1>6. \A i \in Slots : slots[i].ready /\ Empty(slots[i])
    BY <1>1, <1>3 DEF Empty
  <1>5. Places /\ Claims /\ Phases /\ Calm /\ Order /\ Final
    BY <1>6 DEF Init, Places, Claims, Phases, Calm, Order, Final, InEvent, Preparing, Waiting, Ended,
       Undisturbed
  <1>7. Announcing
    BY <1>6 DEF Init, Announcing, Waiting
  <1>8. Ring(0, 0)
    <2>1. \A i \in Slots : Dist(i) >= 0 /\ ~(Dist(i) < 0)
      BY <1>4, RingPlaces DEF N
    <2>2. NextSlot = After(0) /\ next = 0
      BY <1>2 DEF Init, NextSlot, After, Waiting, None, next
    <2>3. ~InEvent /\ ~Storing /\ segment = 0
      BY DEF Init, InEvent, Preparing, Waiting, Storing
    <2> QED BY <1>2, <1>6, <2>1, <2>2, <2>3 DEF Ring
  <1>9. Sound
    BY <1>2, <1>8 DEF Sound
  <1> QED BY <1>4, <1>5, <1>7, <1>9 DEF IInv

(* Every step preserves it.                                                *)
LEMMA StepInv ==
  ASSUME IInv, [Next]_vars
  PROVE  IInv'
  <1>1. TypeOK' /\ Places' /\ Claims' /\ Phases' /\ Calm'
    BY StepTypes, StepPlaces, StepClaims, StepPhases, StepCalm DEF IInv
  <1>2. Announcing' /\ Sound' /\ Order' /\ Final'
    BY <1>1, StepAnnouncing, StepSound, StepOrder, StepFinal DEF IInv
  <1> QED BY <1>1, <1>2 DEF IInv
-----------------------------------------------------------------------------
(* The types of the buffer and its source, for every ring, stream, number  *)
(* of seeks and of failures: no index leaves the ring and no block the     *)
(* stream (hlsprogressbuffer.c, javasource.c).                             *)
THEOREM TypesHold == Spec => []TypeOK
  <1>1. Init => IInv
    BY InitInv
  <1>2. IInv /\ [Next]_vars => IInv'
    BY StepInv
  <1>3. IInv => TypeOK
    BY DEF IInv
  <1> QED BY <1>1, <1>2, <1>3, PTL DEF Spec

(* What is pushed downstream is the stream from its start, or from where   *)
(* the last seek went, block after block and under a segment, whatever the *)
(* loop, the source, seeks and disposal do (hls_progress_buffer_loop,      *)
(* hls_progress_buffer_sink_event, hls_progress_buffer_flush_data): a file *)
(* is never rewound before it is read, read before it is written, or read  *)
(* twice.  Pushes and reads may fail, and segments be empty; only a seek   *)
(* that the playlist refuses ends the guarantee, until the next one.       *)
THEOREM BlocksInOrder == Spec => []InOrder
  <1>1. Init => IInv
    BY InitInv
  <1>2. IInv /\ [Next]_vars => IInv'
    BY StepInv
  <1>3. IInv => InOrder
    BY DEF IInv, Announcing, Order, InOrder
  <1> QED BY <1>1, <1>2, <1>3, PTL DEF Spec

(* There are just two ways in which hls_progress_buffer_chain comes to     *)
(* store into the file of index -1: a failed push has overwritten the      *)
(* FLUSHING of a flush or a disposal, or a seek has failed in the middle   *)
(* of a segment.  However else the segment event, the flush, the end of    *)
(* the stream and empty segments meet, a file has been claimed since the   *)
(* last flush when a block is stored (hls_progress_buffer_sink_event,      *)
(* hls_progress_buffer_flush_data, java_source_perform_seek).              *)
THEOREM FileIsClaimed == Spec => []FileClaimed
  <1>1. Init => IInv
    BY InitInv
  <1>2. IInv /\ [Next]_vars => IInv'
    BY StepInv
  <1>3. IInv => FileClaimed
    <2> SUFFICES ASSUME IInv, NoFile, ~astray PROVE srcresult = "failed" /\ down.flushing
      BY DEF FileClaimed
    <2>1. spc = "chain" /\ srcresult # "flushing" /\ wi = None /\ event = "data"
      BY DEF NoFile, IInv, Places
    <2>2. block # Start(segment)
      BY <2>1, StartBounds DEF IInv, Places, TypeOK
    <2> QED BY <2>1, <2>2 DEF IInv, Claims, Preparing, Waiting
  <1> QED BY <1>1, <1>2, <1>3, PTL DEF Spec

(* As long as nobody seeks or disposes, EOS is pushed after the last block *)
(* of the stream, however the loop, the end of the stream, a full ring and *)
(* failures meet (the EOS branch of hls_progress_buffer_loop).             *)
THEOREM EosComesAfterData == Spec => []EosAfterData
  <1>1. Init => IInv
    BY InitInv
  <1>2. IInv /\ [Next]_vars => IInv'
    BY StepInv
  <1>3. IInv => EosAfterData
    <2> SUFFICES ASSUME IInv, Undisturbed, down.ended PROVE down.next = Last
      BY DEF EosAfterData
    <2>1. /\ ~down.flushing /\ ~sflush /\ segment = Segments /\ pc \notin {"push", "store"} /\ ~InEvent
          /\ srcresult = "flushing" /\ \A i \in Slots : slots[i].ready
      BY DEF IInv, Phases, Final, Ended, InEvent, Preparing, Waiting, Undisturbed
    <2>2. ~astray /\ seeks = 0 /\ ~Broken
      BY <2>1 DEF IInv, Phases, Undisturbed, Broken
    <2>3. PICK b \in 0..Segments, k \in 0..N : Ring(b, k)
      BY <2>1, <2>2 DEF IInv, Sound
    <2>4. k = 0
      <3>1. ri \in Slots /\ Dist(ri) = 0
        BY RingPlaces DEF IInv, TypeOK
      <3>2. Dist(ri) >= k
        BY <2>1, <2>3, <3>1 DEF Ring
      <3> QED BY <3>1, <3>2
    <2>5. next = Start(b) + 0 /\ b = Segments
      BY <2>1, <2>3, <2>4 DEF Ring, Live
    <2>6. Start(b) = Last /\ Last \in Nat
      BY <2>5, StartFacts
    <2> QED BY <2>1, <2>5, <2>6 DEF next
  <1> QED BY <1>1, <1>2, <1>3, PTL DEF Spec
=============================================================================
