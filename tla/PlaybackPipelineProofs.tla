----------------------- MODULE PlaybackPipelineProofs -----------------------
(***************************************************************************)
(* The player for every number of calls, messages and troubles.  Nothing   *)
(* works on a player that is being taken apart, and the data that Dispose  *)
(* shares with the bus callback is freed once and last, unless the two     *)
(* threads decrement its reference count, which is not atomic, at the same *)
(* time.  What it shows to the application follows the documented         *)
(* transitions and, at rest, is the state of the pipeline, until a change  *)
(* of the pipeline fails or a message is misread.                          *)
(***************************************************************************)
EXTENDS PlaybackPipeline, TLAPS

(* The labels of the threads outside Dispose, and where calls return to.   *)
CallLabels   == {"idle", "Play", "PlaySet", "InternalPause", "PauseSet", "Unpend", "Pause", "PauseLock",
                 "Stop", "StopLock", "Seek", "SeekFlush", "SeekResume", "SeekSet", "RateZero",
                 "RateZeroResume", "RateZeroStay", "RateOne"}
JavaReturns  == {"idle", "Seek", "RateZeroResume", "RateZeroStay"}
PulseLabels  == {"idle", "Finish", "InternalPause", "PauseSet"}
Handling     == {"OnState", "UpdateBufferPosition", "Update", "OnEos", "OnError", "Error", "OnBuffering",
                 "OnUnderrun", "Stall", "Play", "PlaySet", "InternalPause", "PauseSet"}
Dispatching  == {"Enter", "Notify", "Free"} \cup Unreffing
BusNested    == {"Play", "PlaySet", "InternalPause", "PauseSet"}

Control ==
  /\ pc \in [Threads -> CallLabels \cup Disposing \cup PulseLabels \cup Handling \cup Dispatching \cup {"Over"}]
  /\ ret \in [Threads -> JavaReturns \cup {"Update", "Unref"}]
  /\ pc["java"] \in CallLabels \cup Disposing
  /\ ret["java"] \in JavaReturns
  /\ pc["pulse"] \in PulseLabels /\ ret["pulse"] = "idle"
  /\ pc["bus"] \in {"idle", "Over"} \cup Handling \cup Dispatching
  /\ pc["bus"] \in BusNested => ret["bus"] \in {"Update", "Unref"}
  /\ pc["java"] \in Disposing => pc["pulse"] = "idle" /\ pc["bus"] \notin Handling

(* From the moment the source is destroyed; between reading the count and  *)
(* testing it; and who refers to the callback data.                        *)
Destroyed == {"DisposeEnd", "DisposeFree", "Delete", "Gone"} \cup Unreffing
Midway    == {"UnrefWrite", "UnrefTest"}
JavaRefs  == IF pc["java"] \in Destroyed \ {"Unref", "UnrefWrite"} THEN 0 ELSE 1
BusRefs   == IF pc["bus"] \in Handling \cup {"Enter", "Unref", "UnrefWrite"} THEN 1 ELSE 0

(* The reference count never falls short of the references, and is exact   *)
(* while the two decrements have not overlapped.                           *)
Counting ==
  /\ refs \in 0..2 /\ seen \in [{"java", "bus"} -> 0..2] /\ overlapped \in BOOLEAN
  /\ refs >= JavaRefs + BusRefs
  /\ \A t \in {"java", "bus"} : pc[t] = "UnrefWrite" => seen[t] >= JavaRefs + BusRefs
  /\ overlapped => pc["java"] \in Destroyed \ {"Unref"}
  /\ ~overlapped =>
       /\ refs = JavaRefs + BusRefs
       /\ \A t \in {"java", "bus"} : /\ pc[t] = "UnrefWrite" => seen[t] = refs
                                     /\ pc[t] = "UnrefTest" => seen[t] = refs + 1
       /\ pc["java"] \notin Midway \/ pc["bus"] \notin Midway

(* How often sBusCallbackContent is freed: at most once by each thread.    *)
Freeing ==
  /\ content \in [inProgress : BOOLEAN, disposed : BOOLEAN, freeMe : BOOLEAN, freed : 0..2]
  /\ content.inProgress <=> pc["java"] \in Disposing
  /\ content.disposed <=> pc["java"] \in {"DisposeFree", "Delete", "Gone"}
  /\ attached <=> pc["java"] \notin Destroyed
  /\ content.freed <= (IF pc["java"] \in {"Delete", "Gone"} THEN 1 ELSE 0) + (IF pc["bus"] = "Over" THEN 1 ELSE 0)
  /\ attached => ~content.freeMe /\ pc["bus"] \notin {"Notify", "Free", "Over"}

(* Who frees it while the decrements have not overlapped: Dispose if no    *)
(* dispatch was under way when the source was destroyed, or else that      *)
(* dispatch.                                                               *)
Ownership ==
  ~overlapped =>
    /\ pc["java"] \in Unreffing => ~content.freeMe /\ pc["bus"] \notin {"Notify", "Free", "Over"}
    /\ pc["java"] = "DisposeEnd" =>
         IF content.freeMe THEN pc["bus"] = "idle" ELSE pc["bus"] \in Dispatching \ {"Free"}
    /\ pc["java"] = "DisposeFree" => content.freeMe /\ pc["bus"] = "idle"
    /\ pc["java"] \in {"Delete", "Gone"} =>
         \/ content.freeMe /\ content.freed = 1 /\ pc["bus"] = "idle"
         \/ ~content.freeMe /\ content.freed = 0 /\ pc["bus"] \in Dispatching
         \/ ~content.freeMe /\ content.freed = 1 /\ pc["bus"] = "Over"

(* From the moment Dispose has halted the pipeline it stays halted.        *)
HaltedForGood ==
  pc["java"] \in Disposing \ {"DisposeNull"} =>
    gst.state = "NULL" /\ gst.pending = Void /\ ~gst.cont /\ queue = <<>>

(* The state of the pipeline; a change under way has a next state.         *)
GstOK(e) == e \in Elements /\ (e.pending # Void => e.next # Void)

IInv == Control /\ Counting /\ Freeing /\ Ownership /\ HaltedForGood /\ GstOK(gst)

(* The messages: what is on the bus and what BusCallback has in hand.      *)
Says(x)  == x.kind = "state"
Plays(x) == Says(x) /\ x.new = "PLAYING"

Bus ==
  /\ queue \in Seq(Messages) /\ msg \in Messages \cup {NoMessage}
  /\ pc["bus"] = "OnBuffering" => msg.kind = "buffering"
  /\ pc["bus"] \in {"OnState", "UpdateBufferPosition", "Update"} => Says(msg)
  /\ pc["bus"] = "UpdateBufferPosition" => ~Plays(msg)
  /\ pc["bus"] \in BusNested /\ ret["bus"] = "Update" => Says(msg) /\ ~Plays(msg)
  /\ pc["bus"] = "OnEos" => msg.kind = "eos"
  /\ \A i \in 1..Len(queue) : Plays(queue[i]) => queue[i].old = "PAUSED"
  /\ Plays(msg) => msg.old = "PAUSED"

(* A pipeline in NULL is at rest and its bus is empty.                     *)
AtNull(e) ==
  /\ e.next \in {"PAUSED", "PLAYING", Void}
  /\ e.state = "NULL" => e.pending = Void /\ ~e.cont

Resting == AtNull(gst) /\ (gst.state = "NULL" => queue = <<>>)

(* Before it was told Ready, nobody has asked for anything.                *)
Early ==
  m.state = "Unknown" =>
    /\ pc["java"] \in {"idle"} \cup Disposing /\ pc["pulse"] \in {"idle", "Finish"}
    /\ pc["bus"] \notin BusNested \cup {"Stall"}
    /\ ~gst.cont /\ gst.state # "PLAYING"
    /\ gst.pending # Void => gst.next = "PAUSED" /\ gst.target = "PAUSED"
    /\ ~Plays(msg) /\ \A i \in 1..Len(queue) : ~Plays(queue[i])

(* Whether the player shows Playing, or Finished, when the first n         *)
(* messages of q are handled, if b says that it did before; and whether x  *)
(* is the last message of q that matters after a PLAYING, or was before.   *)
Live(q, b, n) == \/ \E i \in 1..n : Plays(q[i]) /\ \A j \in (i + 1)..n : ~Says(q[j])
                 \/ b /\ \A j \in 1..n : ~Says(q[j])
LastOf(q, b, x) == \/ \E i \in 1..Len(q) : q[i] = x /\ \A j \in (i + 1)..Len(q) : ~Plays(q[j])
                   \/ b /\ \A j \in 1..Len(q) : ~Plays(q[j])

(* A message in hand that the player's state does not show yet.            *)
Unshown == /\ \/ pc["bus"] \in {"Enter", "OnState", "UpdateBufferPosition", "Update"}
              \/ pc["bus"] \in BusNested /\ ret["bus"] = "Update"
           /\ Says(msg)
Begun   == IF Unshown THEN Plays(msg) ELSE m.state \in {"Playing", "Finished"}

(* While the pipeline plays the player will show it, and the end of the    *)
(* stream comes to a player that shows it.                                 *)
Ending ==
  ~upset /\ pc["java"] \notin Disposing =>
    /\ gst.state = "PLAYING" => Live(queue, Begun, Len(queue))
    /\ \A k \in 1..Len(queue) : queue[k].kind = "eos" => Live(queue, Begun, k - 1)
    /\ pc["bus"] \in {"Enter", "OnEos"} /\ msg.kind = "eos" => m.state \in {"Playing", "Finished"}
    /\ m.state = "Error" \/ pc["bus"] = "Error" => gst.state = "NULL"

(* The player will not show Playing when all messages are handled, because *)
(* the last one that matters says that the pipeline has gone to PAUSED; or *)
(* one that repeats PAUSED is the last, or will be, which matters while    *)
(* something is pending.                                                   *)
Went      == Changed("PLAYING", "PAUSED")
Repeat    == Changed("PAUSED", "PAUSED")
Leaves    == IF Unshown THEN msg = Went \/ (~Plays(msg) /\ m.state # "Playing") ELSE m.state # "Playing"
Repeating == Unshown /\ msg = Repeat
Still     == LastOf(queue, Leaves, Went)
Armed     == m.pending # "Unknown" \/ m.stallOnPause
Repeats   == gst.pending # Void \/ LastOf(queue, Repeating, Repeat)
Calm      == gst.target = "PAUSED" /\ gst.state # "PLAYING" => Still \/ (Armed /\ Repeats)

(* Where the pipeline is and where it is going.                            *)
Aligned(e) ==
  /\ e.pending = Void => e.state = e.target
  /\ e.pending # Void => e.target \in {"PAUSED", "PLAYING"}
  /\ e.pending # Void /\ e.next = "PLAYING" => e.target = "PLAYING" /\ e.pending = "PLAYING" /\ e.state # "PLAYING"
  /\ e.cont => e.target = "PLAYING"

(* Who pauses the pipeline has announced it.                               *)
Announced ==
  /\ pc["java"] \in {"InternalPause", "PauseSet"} => m.pending # "Unknown"
  /\ pc["bus"] \in {"InternalPause", "PauseSet"} => m.stallOnPause
  /\ pc["java"] # "Unpend"

(* Below PAUSED the pipeline is either halted or not yet prerolled.        *)
Below ==
  /\ gst.state = "NULL" => m.state = "Error" \/ pc["bus"] = "Error"
  /\ gst.state = "READY" => m.state = "Unknown" /\ ~Says(msg) /\ \A i \in 1..Len(queue) : ~Says(queue[i])

(* While the pipeline is paused, or pausing, the player will not show      *)
(* Playing.                                                                *)
Stilling == ~upset /\ pc["java"] \notin Disposing => Calm /\ Aligned(gst) /\ Announced /\ Below

USE PlayerAssumption
-----------------------------------------------------------------------------
(* The operations on the state of the pipeline keep its type.              *)
LEMMA AtOK ==
  ASSUME NEW e \in Elements, NEW s \in States
  PROVE  /\ GstOK(At(e, s)) /\ At(e, s).target = e.target
         /\ At(e, s).state = s /\ At(e, s).pending = Void /\ ~At(e, s).cont
  <1>1. At(e, s) \in Elements
    BY DEF At, Elements
  <1>2. /\ At(e, s).target = e.target
        /\ At(e, s).state = s /\ At(e, s).pending = Void /\ ~At(e, s).cont
    BY DEF At, Elements
  <1> QED BY <1>1, <1>2 DEF GstOK

(* A change towards s, and a new target.                                   *)
LEMMA TowardsOK ==
  ASSUME NEW e \in Elements, NEW s \in States
  PROVE  GstOK(Towards(e, s))
  <1>1. Towards(e, s) \in Elements /\ Towards(e, s).next = s
    BY DEF Towards, Elements
  <1> QED BY <1>1 DEF GstOK, States, Void

LEMMA AimOK ==
  ASSUME NEW e \in Elements, NEW s \in States
  PROVE  Aim(e, s) \in Elements /\ Aim(e, s).next = e.next /\ Aim(e, s).pending = s
  BY DEF Aim, Elements

(* gst_element_set_state: whatever its outcome.                            *)
LEMMA SetStateOK ==
  ASSUME NEW e, GstOK(e), NEW s \in {"PAUSED", "PLAYING"}, NEW b, NEW r \in SetState(e, s, b)
  PROVE  GstOK(r.gst)
  <1> DEFINE a    == Aim(e, s)
             base == IF e.pending # Void /\ Rank[e.next] > Rank[s] THEN e.next ELSE e.state
  <1>1. e \in Elements /\ s \in States /\ (e.pending # Void => e.next # Void)
    BY DEF GstOK, States
  <1>2. a \in Elements /\ a.next = e.next /\ a.pending = s
    BY <1>1, AimOK
  <1>3. base \in States
    BY <1>1 DEF Elements
  <1>4. /\ GstOK([a EXCEPT !.ret = "async"]) \/ ~WasBusy(e, s)
        /\ [a EXCEPT !.state = "READY"] \in Elements
    BY <1>1, <1>2 DEF WasBusy, GstOK, Elements, States
  <1>5. GstOK([At(a, e.state) EXCEPT !.ret = "fail"])
    BY <1>1, <1>2, AtOK DEF GstOK, Elements
  <1>6. GstOK(At(a, s)) /\ GstOK(Towards(a, "PAUSED")) /\ GstOK(Towards([a EXCEPT !.state = "READY"], "PAUSED"))
    BY <1>1, <1>2, <1>4, AtOK, TowardsOK DEF States
  <1>7. \/ r = Result([a EXCEPT !.ret = "async"], <<>>) /\ WasBusy(e, s)
        \/ r = Result([At(a, e.state) EXCEPT !.ret = "fail"], <<>>)
        \/ r = Result(Towards([a EXCEPT !.state = "READY"], "PAUSED"), <<>>)
        \/ r = Result(At(a, s), <<>>)
        \/ r = Result(At(a, s), <<Changed("PAUSED", "PLAYING")>>)
        \/ r = Result(At(a, s), <<Changed(e.state, "PAUSED")>>)
        \/ r = Result(Towards(a, "PAUSED"), <<>>)
    <2> HIDE DEF a
    <2>1. base = s \/ (base = "PAUSED" /\ s = "PLAYING") \/ (base = "PLAYING" /\ s = "PAUSED") \/ Rank[base] < Rank["PAUSED"]
      BY <1>3 DEF States, Rank
    <2> HIDE DEF base
    <2> QED BY <2>1 DEF SetState, a, base
  <1> HIDE DEF a
  <1> QED BY <1>4, <1>5, <1>6, <1>7 DEF Result

(* A flushing seek, the end of prerolling and the continuation.            *)
LEMMA LoseStateOK ==
  ASSUME NEW e, GstOK(e)
  PROVE  GstOK(LoseState(e))
  <1>1. GstOK([e EXCEPT !.cont = FALSE])
    BY DEF GstOK, Elements
  <1>2. ASSUME NEW s \in States PROVE GstOK(Towards([e EXCEPT !.state = s, !.pending = s], s))
    <2>1. [e EXCEPT !.state = s, !.pending = s] \in Elements
      BY DEF GstOK, Elements
    <2> QED BY <2>1, TowardsOK
  <1>3. (IF e.state = "PLAYING" THEN "PAUSED" ELSE e.state) \in States
    BY DEF GstOK, Elements, States
  <1> QED BY <1>1, <1>2, <1>3 DEF LoseState

LEMMA AsyncDoneOK ==
  ASSUME NEW e, GstOK(e), e.pending # Void
  PROVE  GstOK(AsyncDone(e).gst)
  <1> DEFINE s == IF e.next = "PLAYING" THEN e.state ELSE e.next
  <1>1. e \in Elements /\ s \in States
    BY DEF GstOK, Elements
  <1>2. GstOK(At(e, s))
    BY <1>1, AtOK
  <1>3. GstOK([e EXCEPT !.state = s, !.next = "PLAYING", !.pending = e.target, !.cont = TRUE])
    <2> DEFINE c == [e EXCEPT !.state = s, !.next = "PLAYING", !.pending = e.target, !.cont = TRUE]
    <2> HIDE DEF s
    <2>1. c \in Elements /\ c.next = "PLAYING"
      BY <1>1 DEF Elements, States
    <2> QED BY <2>1 DEF GstOK, Void
  <1> QED BY <1>2, <1>3 DEF AsyncDone, Result

LEMMA ContinueOK ==
  ASSUME NEW e, GstOK(e)
  PROVE  GstOK(Continue(e).gst)
  BY AtOK DEF GstOK, Continue, Result, States

LEMMA HaltedOK ==
  ASSUME NEW e, GstOK(e)
  PROVE  /\ GstOK(Halted(e)) /\ Halted(e).state = "NULL"
         /\ Halted(e).pending = Void /\ ~Halted(e).cont
  <1>1. [e EXCEPT !.target = "NULL"] \in Elements /\ "NULL" \in States
    BY DEF GstOK, Elements, States
  <1> QED BY <1>1, AtOK DEF Halted
-----------------------------------------------------------------------------
(* A step that destroys, drops and frees nothing.                          *)
LEMMA KeepsOwners ==
  ASSUME IInv, UNCHANGED disposeVars,
         \/ pc'["java"] = pc["java"]
         \/ /\ pc["java"] \notin Destroyed /\ pc'["java"] \notin Destroyed
            /\ pc["java"] \in Disposing <=> pc'["java"] \in Disposing,
         \/ pc'["bus"] = pc["bus"]
         \/ /\ pc["bus"] \in Handling \cup {"Enter"} /\ pc'["bus"] \in Handling \cup {"Unref"}
            /\ pc["java"] \in Disposing => pc'["bus"] = "Unref"
  PROVE  Counting' /\ Freeing' /\ Ownership'
  <1>1. UNCHANGED <<content, attached, refs, seen, overlapped>>
    BY DEF disposeVars, refVars
  <1>2. /\ "UnrefWrite" \in Destroyed /\ "UnrefTest" \in Destroyed /\ Destroyed \subseteq Disposing
        /\ \A l \in Handling \cup {"Unref"} : l \notin {"UnrefWrite", "UnrefTest", "Notify", "Free", "Over"}
    BY DEF Destroyed, Disposing, Unreffing, Handling
  <1>3. JavaRefs' = JavaRefs /\ BusRefs' = BusRefs
    BY <1>2 DEF JavaRefs, BusRefs
  <1>4. \A t \in {"java", "bus"} : pc'[t] \in Midway => pc'[t] = pc[t]
    BY <1>2 DEF Midway
  <1>5. Counting'
    BY <1>1, <1>2, <1>3, <1>4 DEF IInv, Counting, Midway
  <1>6. Freeing'
    BY <1>1, <1>2 DEF IInv, Freeing, Destroyed
  <1>7. pc'["bus"] # pc["bus"] => pc'["bus"] \in Dispatching \/ pc["java"] \notin Disposing
    BY DEF Dispatching, Unreffing
  <1>8. pc["bus"] \in Handling \cup {"Enter"} => pc["bus"] # "idle"
    BY DEF Handling
  <1>9. Ownership'
    BY <1>1, <1>2, <1>7, <1>8 DEF IInv, Control, Ownership, Destroyed, Dispatching, Unreffing
  <1> QED BY <1>5, <1>6, <1>9

(* A thread that stays within its calls or within BusCallback, while the   *)
(* player is not disposed of, preserves the invariant.                     *)
LEMMA MoveJava ==
  ASSUME IInv, pc["java"] \in CallLabels, UNCHANGED disposeVars, GstOK(gst'),
         \E l \in CallLabels : pc' = [pc EXCEPT !["java"] = l],
         ret' = ret \/ \E l \in JavaReturns : ret' = [ret EXCEPT !["java"] = l]
  PROVE  IInv'
  <1>1. PICK l \in CallLabels : pc' = [pc EXCEPT !["java"] = l]
    OBVIOUS
  <1>2. /\ pc'["java"] = l /\ pc'["pulse"] = pc["pulse"] /\ pc'["bus"] = pc["bus"]
        /\ l \notin Disposing /\ pc["java"] \notin Disposing
    BY <1>1 DEF IInv, Control, Threads, CallLabels, Disposing, Unreffing
  <1>3. Control'
    BY <1>1, <1>2 DEF IInv, Control, Threads
  <1>4. Counting' /\ Freeing' /\ Ownership'
    BY <1>2, KeepsOwners DEF Destroyed, Disposing
  <1>5. HaltedForGood'
    BY <1>2 DEF HaltedForGood
  <1> QED BY <1>3, <1>4, <1>5 DEF IInv

LEMMA MovePulse ==
  ASSUME IInv, pc["java"] \notin Disposing, UNCHANGED disposeVars, GstOK(gst'),
         \E l \in PulseLabels : pc' = [pc EXCEPT !["pulse"] = l],
         ret' = ret \/ ret' = [ret EXCEPT !["pulse"] = "idle"]
  PROVE  IInv'
  <1>1. PICK l \in PulseLabels : pc' = [pc EXCEPT !["pulse"] = l]
    OBVIOUS
  <1>2. pc'["pulse"] = l /\ pc'["java"] = pc["java"] /\ pc'["bus"] = pc["bus"]
    BY <1>1 DEF IInv, Control, Threads
  <1>3. Control'
    BY <1>1, <1>2 DEF IInv, Control, Threads, JavaReturns
  <1>4. Counting' /\ Freeing' /\ Ownership'
    BY <1>2, KeepsOwners
  <1>5. HaltedForGood'
    BY <1>2 DEF HaltedForGood
  <1> QED BY <1>3, <1>4, <1>5 DEF IInv

LEMMA MoveBus ==
  ASSUME IInv, pc["bus"] \in Handling, UNCHANGED disposeVars, GstOK(gst'),
         \E l \in Handling \cup {"Unref"} : pc' = [pc EXCEPT !["bus"] = l],
         ret' = ret \/ \E l \in {"idle", "Update", "Unref"} : ret' = [ret EXCEPT !["bus"] = l],
         pc'["bus"] \in BusNested => ret'["bus"] \in {"Update", "Unref"}
  PROVE  IInv'
  <1>1. PICK l \in Handling \cup {"Unref"} : pc' = [pc EXCEPT !["bus"] = l]
    OBVIOUS
  <1>2. /\ pc'["bus"] = l /\ pc'["java"] = pc["java"] /\ pc'["pulse"] = pc["pulse"]
        /\ pc["java"] \notin Disposing
    BY <1>1 DEF IInv, Control, Threads
  <1>3. Control'
    BY <1>1, <1>2 DEF IInv, Control, Threads, JavaReturns, Dispatching, Unreffing
  <1>4. Counting' /\ Freeing' /\ Ownership'
    BY <1>2, KeepsOwners
  <1>5. HaltedForGood'
    BY <1>2 DEF HaltedForGood
  <1> QED BY <1>3, <1>4, <1>5 DEF IInv

(* Something happens in the pipeline: once halted, nothing does.           *)
LEMMA MoveGst ==
  ASSUME IInv, UNCHANGED <<pc, ret, disposeVars>>, GstOK(gst'),
         pc["java"] \in Disposing \ {"DisposeNull"} => gst' = gst /\ queue' = queue
  PROVE  IInv'
  <1>1. Control' /\ HaltedForGood'
    BY DEF IInv, Control, HaltedForGood
  <1>2. Counting' /\ Freeing' /\ Ownership'
    BY KeepsOwners
  <1> QED BY <1>1, <1>2 DEF IInv
-----------------------------------------------------------------------------
(* The invariant holds initially.                                          *)
LEMMA InitInv == Init => IInv
  <1> SUFFICES ASSUME Init PROVE IInv
    OBVIOUS
  <1>1. Control
    BY DEF Init, Control, Threads, CallLabels, JavaReturns, PulseLabels, Handling, BusNested,
       Disposing, Unreffing
  <1>2. pc["java"] \notin Disposing /\ pc["java"] \notin Destroyed /\ pc["bus"] \notin Handling
    BY DEF Init, Threads, Disposing, Destroyed, Unreffing, Handling
  <1>3. Counting
    <2>1. JavaRefs = 1 /\ BusRefs = 0 /\ pc["java"] = "idle" /\ pc["bus"] = "idle"
      BY <1>2 DEF Init, Threads, JavaRefs, BusRefs
    <2>2. refs = 1 /\ seen \in [{"java", "bus"} -> 0..2] /\ overlapped = FALSE
      BY DEF Init
    <2>3. \A t \in {"java", "bus"} : pc[t] \notin {"UnrefWrite", "UnrefTest"}
      BY <2>1
    <2>4. refs \in 0..2 /\ refs >= JavaRefs + BusRefs /\ refs = JavaRefs + BusRefs
      BY <2>1, <2>2
    <2> QED BY <2>1, <2>2, <2>3, <2>4 DEF Counting, Midway
  <1>5. Freeing /\ Ownership
    BY <1>2 DEF Init, Freeing, Ownership, Threads, Destroyed
  <1>6. HaltedForGood
    BY <1>2 DEF HaltedForGood
  <1>4. GstOK(gst)
    BY DEF Init, GstOK, Elements, States, Void
  <1> QED BY <1>1, <1>3, <1>4, <1>5, <1>6 DEF IInv

(* A seek may lose the state of the pipeline, to a valid one.              *)
LEMMA SeekPipelineOK ==
  ASSUME IInv, NEW l, SeekPipeline(l)
  PROVE  GstOK(gst')
  BY LoseStateOK DEF IInv, SeekPipeline

(* The decrement of the reference count, by either thread.                 *)
LEMMA UnrefReadInv ==
  ASSUME IInv, NEW t \in {"java", "bus"}, UnrefRead(t)
  PROVE  IInv'
  <1>1. GstOK(gst') /\ ret' = ret /\ UNCHANGED <<gst, queue, content, attached, refs>>
    BY DEF UnrefRead, IInv, NoGst, playerVars, refVars
  <1>2. /\ pc[t] = "Unref" /\ pc'[t] = "UnrefWrite"
        /\ \A u \in Threads \ {t} : pc'[u] = pc[u]
    BY DEF UnrefRead, IInv, Control, Threads, Goto
  <1>3. Control'
    BY <1>1, <1>2 DEF UnrefRead, IInv, Control, Threads, Goto, BusNested, CallLabels, PulseLabels,
       Handling,
       Dispatching, Disposing, Unreffing
  <1>4. Counting'
    <2>1. JavaRefs' = JavaRefs /\ BusRefs' = BusRefs
      BY <1>2 DEF JavaRefs, BusRefs, Threads, Unreffing, Destroyed
    <2>2. /\ refs' = refs /\ seen' \in [{"java", "bus"} -> 0..2] /\ overlapped' \in BOOLEAN
          /\ seen'[t] = refs /\ \A u \in {"java", "bus"} \ {t} : seen'[u] = seen[u]
      BY DEF UnrefRead, IInv, Counting
    <2>3. overlapped' <=> overlapped \/ \E u \in {"java", "bus"} \ {t} : pc[u] \in Midway
      BY <1>2 DEF UnrefRead, Midway
    <2>4. overlapped' => pc'["java"] \in Destroyed \ {"Unref"}
      <3>1. CASE t = "java"
        BY <1>2, <3>1 DEF Destroyed, Unreffing
      <3>2. CASE t = "bus"
        BY <1>2, <2>3, <3>2 DEF IInv, Counting, Midway, Destroyed, Unreffing, Threads
      <3> QED BY <3>1, <3>2
    <2>5. JavaRefs \in {0, 1} /\ BusRefs \in {0, 1} /\ refs \in 0..2
      BY DEF JavaRefs, BusRefs, IInv, Counting
    <2>6. \A u \in {"java", "bus"} : pc'[u] = "UnrefWrite" => seen'[u] >= JavaRefs + BusRefs
      BY <1>2, <2>2 DEF IInv, Counting, Threads
    <2>7. ~overlapped' => \A u \in {"java", "bus"} : /\ pc'[u] = "UnrefWrite" => seen'[u] = refs
                                                     /\ pc'[u] = "UnrefTest" => seen'[u] = refs + 1
      BY <1>2, <2>2, <2>3 DEF IInv, Counting, Threads, Midway
    <2>8. ~overlapped' => pc'["java"] \notin Midway \/ pc'["bus"] \notin Midway
      BY <1>2, <2>3 DEF Threads
    <2> QED BY <2>1, <2>2, <2>3, <2>4, <2>6, <2>7, <2>8 DEF IInv, Counting
  <1>5. Freeing'
    BY <1>1, <1>2 DEF UnrefRead, IInv, Control, Freeing, Threads, CallLabels, Disposing, Unreffing,
       Destroyed
  <1>6. Ownership'
    BY <1>1, <1>2 DEF UnrefRead, IInv, Control, Counting, Freeing, Ownership, Threads, CallLabels,
       Handling, Dispatching,
       Disposing, Unreffing, Destroyed
  <1>7. HaltedForGood'
    BY <1>1, <1>2 DEF IInv, HaltedForGood, Threads, Disposing, Unreffing
  <1> QED BY <1>1, <1>3, <1>4, <1>5, <1>6, <1>7 DEF IInv

LEMMA UnrefWriteInv ==
  ASSUME IInv, NEW t \in {"java", "bus"}, UnrefWrite(t)
  PROVE  IInv'
  <1>1. GstOK(gst') /\ ret' = ret /\ UNCHANGED <<gst, queue, content, attached, seen, overlapped>>
    BY DEF UnrefWrite, IInv, NoGst, playerVars, refVars
  <1>2. /\ pc[t] = "UnrefWrite" /\ pc'[t] = "UnrefTest"
        /\ \A u \in Threads \ {t} : pc'[u] = pc[u]
    BY DEF UnrefWrite, IInv, Control, Threads, Goto
  <1>3. Control'
    BY <1>1, <1>2 DEF UnrefWrite, IInv, Control, Threads, Goto, BusNested, CallLabels, PulseLabels,
       Handling,
       Dispatching, Disposing, Unreffing
  <1>4. Counting'
    <2>1. /\ t = "java" => JavaRefs = 1 /\ JavaRefs' = 0 /\ BusRefs' = BusRefs
          /\ t = "bus" => BusRefs = 1 /\ BusRefs' = 0 /\ JavaRefs' = JavaRefs
      BY <1>2 DEF JavaRefs, BusRefs, Threads, Unreffing, Destroyed, Handling
    <2>2. /\ JavaRefs \in {0, 1} /\ BusRefs \in {0, 1} /\ refs \in 0..2 /\ seen \in [{"java", "bus"} -> 0..2]
          /\ seen[t] \in 0..2 /\ refs' = seen[t] - 1 /\ seen' = seen /\ (overlapped' <=> overlapped)
          /\ overlapped \in BOOLEAN /\ overlapped' = overlapped
      BY <1>1 DEF JavaRefs, BusRefs, IInv, Counting, UnrefWrite
    <2>3. seen[t] >= JavaRefs + BusRefs /\ (~overlapped => seen[t] = refs /\ refs = JavaRefs + BusRefs)
      <3>1. seen[t] >= JavaRefs + BusRefs
        BY <1>2 DEF IInv, Counting
      <3>2. ~overlapped => seen[t] = refs
        BY <1>2 DEF IInv, Counting
      <3>3. ~overlapped => refs = JavaRefs + BusRefs
        BY DEF IInv, Counting
      <3> QED BY <3>1, <3>2, <3>3
    <2>4. /\ refs' \in 0..2 /\ refs' >= JavaRefs' + BusRefs'
          /\ ~overlapped => refs' = JavaRefs' + BusRefs' /\ refs' = refs - 1
      BY <2>1, <2>2, <2>3
    <2>5. overlapped' => pc'["java"] \in Destroyed \ {"Unref"}
      BY <1>2, <2>2 DEF IInv, Counting, Threads, Destroyed, Unreffing
    <2>6. \A u \in {"java", "bus"} : pc'[u] = "UnrefWrite" => seen'[u] >= JavaRefs' + BusRefs'
      <3>1. ASSUME NEW u \in {"java", "bus"}, pc'[u] = "UnrefWrite" PROVE seen[u] >= JavaRefs' + BusRefs'
        <4>1. u # t /\ pc[u] = "UnrefWrite"
          BY <1>2, <3>1 DEF Threads
        <4>2. seen[u] >= JavaRefs + BusRefs /\ seen[u] \in 0..2
          BY <2>2, <4>1 DEF IInv, Counting
        <4> QED BY <2>1, <2>2, <4>2
      <3> QED BY <2>2, <3>1
    <2>7. ~overlapped => \A u \in {"java", "bus"} : u # t => pc'[u] = pc[u] /\ pc[u] \notin Midway
      BY <1>2 DEF IInv, Counting, Threads, Midway
    <2>8. ~overlapped => \A u \in {"java", "bus"} : /\ pc'[u] = "UnrefWrite" => seen'[u] = refs'
                                                    /\ pc'[u] = "UnrefTest" => seen'[u] = refs' + 1
      BY <1>2, <2>2, <2>7 DEF Midway
    <2>9. ~overlapped => pc'["java"] \notin Midway \/ pc'["bus"] \notin Midway
      BY <2>7
    <2> QED BY <2>2, <2>4, <2>5, <2>6, <2>8, <2>9 DEF Counting
  <1>5. Freeing'
    BY <1>1, <1>2 DEF UnrefWrite, IInv, Control, Freeing, Threads, CallLabels, Disposing, Unreffing,
       Destroyed
  <1>6. Ownership'
    BY <1>1, <1>2 DEF UnrefWrite, IInv, Control, Counting, Freeing, Ownership, Threads, CallLabels,
       Handling, Dispatching,
       Disposing, Unreffing, Destroyed
  <1>7. HaltedForGood'
    BY <1>1, <1>2 DEF IInv, HaltedForGood, Threads, Disposing, Unreffing
  <1> QED BY <1>1, <1>3, <1>4, <1>5, <1>6, <1>7 DEF IInv

LEMMA UnrefTestInv ==
  ASSUME IInv, NEW t \in {"java", "bus"}, UnrefTest(t)
  PROVE  IInv'
  <1>1. GstOK(gst') /\ ret' = ret /\ UNCHANGED <<gst, queue, attached, refs, seen, overlapped>>
    BY DEF UnrefTest, IInv, playerVars, refVars
  <1>2. PICK zero \in {seen[t] = 1, refs = 0} :
          /\ content' = [content EXCEPT !.freeMe = @ \/ (t = "java" /\ zero)]
          /\ Goto(t, IF t = "java" THEN "DisposeEnd" ELSE IF zero THEN "Notify" ELSE "idle")
    BY DEF UnrefTest
  <1>3. zero \in BOOLEAN /\ (~overlapped => (zero <=> refs = 0))
    <2>1. ~overlapped => seen[t] = refs + 1
      BY DEF UnrefTest, IInv, Counting
    <2>2. refs \in 0..2
      BY DEF IInv, Counting
    <2>3. ~overlapped => (seen[t] = 1 <=> refs = 0)
      BY <2>1, <2>2
    <2>4. zero = (seen[t] = 1) \/ zero = (refs = 0)
      OBVIOUS
    <2> QED BY <2>3, <2>4
  <1>4. /\ pc[t] = "UnrefTest"
        /\ t = "java" => pc'["java"] = "DisposeEnd" /\ pc'["bus"] = pc["bus"]
        /\ t = "bus" => pc'["bus"] = (IF zero THEN "Notify" ELSE "idle") /\ pc'["java"] = pc["java"]
        /\ pc'["pulse"] = pc["pulse"]
    <2>1. pc[t] = "UnrefTest" /\ t \in Threads /\ DOMAIN pc = Threads
      BY DEF UnrefTest, IInv, Control, Threads
    <2>2. CASE t = "java"
      <3>1. Goto("java", "DisposeEnd")
        BY <1>2, <2>2
      <3> QED BY <2>1, <2>2, <3>1 DEF Goto, Threads
    <2>3. CASE t = "bus"
      BY <1>2, <1>3, <2>1, <2>3 DEF Goto, Threads
    <2> QED BY <2>1, <2>2, <2>3
  <1>5. Control'
    BY <1>1, <1>2, <1>3, <1>4 DEF IInv, Control, Threads, Goto, BusNested, CallLabels, PulseLabels,
       Handling,
       Dispatching, Disposing, Unreffing
  <1>6. JavaRefs' = JavaRefs /\ BusRefs' = BusRefs
    BY <1>4 DEF JavaRefs, BusRefs, Unreffing, Destroyed, Handling
  <1>7. Counting'
    BY <1>1, <1>4, <1>6 DEF IInv, Counting, Midway, Destroyed, Unreffing
  <1>8. /\ content'.inProgress = content.inProgress /\ content'.disposed = content.disposed
        /\ content'.freed = content.freed /\ content'.freeMe = (content.freeMe \/ (t = "java" /\ zero))
        /\ content' \in [inProgress : BOOLEAN, disposed : BOOLEAN, freeMe : BOOLEAN, freed : 0..2]
    BY <1>2, <1>3 DEF IInv, Freeing
  <1>9. Freeing'
    <2>1. CASE t = "java"
      BY <1>1, <1>4, <1>8, <2>1 DEF IInv, Freeing, Destroyed, Disposing, Unreffing
    <2>2. CASE t = "bus"
      <3>1. attached => ~zero
        BY <1>3, <1>4, <2>2 DEF IInv, Freeing, Counting, JavaRefs, BusRefs
      <3> QED BY <1>1, <1>4, <1>8, <2>2, <3>1 DEF IInv, Freeing
    <2> QED BY <2>1, <2>2
  <1>10. Ownership'
    <2> SUFFICES ASSUME ~overlapped PROVE Ownership'
      BY <1>1 DEF Ownership
    <2>1. zero <=> JavaRefs + BusRefs = 0
      BY <1>3 DEF IInv, Counting
    <2>2. CASE t = "java"
      <3>1. /\ JavaRefs = 0 /\ pc["bus"] \notin Midway /\ pc["bus"] \notin Handling
            /\ ~content.freeMe /\ pc["bus"] \notin {"Notify", "Free", "Over"}
        BY <1>4, <2>2 DEF JavaRefs, IInv, Control, Counting, Ownership, Midway, Destroyed, Disposing,
           Unreffing
      <3>2. zero <=> pc["bus"] = "idle"
        BY <2>1, <3>1 DEF BusRefs, IInv, Control, Dispatching, Unreffing, Midway, Handling
      <3> QED BY <1>3, <1>4, <1>8, <2>2, <3>1, <3>2
              DEF Ownership, IInv, Control, Dispatching, Unreffing, Midway, Handling
    <2>3. CASE t = "bus"
      <3>1. BusRefs = 0 /\ content'.freeMe = content.freeMe /\ content'.freed = content.freed
        <4>1. content.freeMe \in BOOLEAN /\ t # "java"
          BY <2>3 DEF IInv, Freeing
        <4>2. BusRefs = 0
          BY <1>4, <2>3 DEF BusRefs, Handling
        <4> QED BY <1>8, <4>1, <4>2
      <3>2. pc["java"] \in Destroyed \ Unreffing => zero
        BY <2>1, <3>1 DEF JavaRefs, Unreffing
      <3>3. pc["java"] \in Unreffing => ~zero
        BY <1>4, <2>1, <2>3, <3>1 DEF JavaRefs, Unreffing, IInv, Counting, Midway
      <3>4. content.freeMe \in BOOLEAN /\ content.freed \in 0..2
        BY DEF IInv, Freeing
      <3>5. pc["java"] \in {"DisposeEnd", "DisposeFree", "Delete", "Gone"} => pc'["bus"] = "Notify" /\ ~content.freeMe
        BY <1>4, <2>3, <3>2 DEF IInv, Ownership, Destroyed, Unreffing
      <3> QED BY <1>4, <2>3, <3>1, <3>3, <3>4, <3>5 DEF IInv, Ownership, Dispatching, Unreffing
    <2> QED BY <2>2, <2>3
  <1>11. HaltedForGood'
    BY <1>1, <1>4 DEF IInv, HaltedForGood, Disposing, Unreffing
  <1> QED BY <1>1, <1>5, <1>7, <1>9, <1>10, <1>11 DEF IInv

(* What a step of a decrement leaves alone.                                *)
LEMMA UnrefFacts ==
  ASSUME IInv, Unref
  PROVE  /\ UNCHANGED <<gst, queue, ended, upset, bound, m, ret, deleted, attached>>
         /\ \/ /\ pc["java"] \in Unreffing /\ pc'["java"] \in Unreffing \cup {"DisposeEnd"}
               /\ pc'["bus"] = pc["bus"] /\ msg' = msg
            \/ /\ pc["bus"] \in Unreffing /\ pc'["bus"] \in Unreffing \cup {"Notify", "idle"}
               /\ pc'["java"] = pc["java"] /\ msg' \in {msg, NoMessage}
         /\ pc'["pulse"] = pc["pulse"]
  <1>1. pc["java"] \in CallLabels \cup Disposing /\ DOMAIN pc = Threads
    BY DEF IInv, Control
  <1>2. PICK t \in {"java", "bus"} : UnrefRead(t) \/ UnrefWrite(t) \/ UnrefTest(t)
    BY DEF Unref
  <1>3. CASE UnrefRead(t)
    BY <1>1, <1>3 DEF UnrefRead, Goto, NoGst, Threads, Unreffing
  <1>4. CASE UnrefWrite(t)
    BY <1>1, <1>4 DEF UnrefWrite, Goto, playerVars, Threads, Unreffing
  <1>5. CASE UnrefTest(t)
    BY <1>1, <1>5 DEF UnrefTest, Goto, playerVars, Threads, Unreffing
  <1> QED BY <1>2, <1>3, <1>4, <1>5

(* Every step preserves it, one action at a time.                          *)
LEMMA StepInv == IInv /\ [Next]_vars => IInv'
  <1> SUFFICES ASSUME IInv, [Next]_vars PROVE IInv'
    OBVIOUS
  <1>1. CASE Unpend
    <2>1. GstOK(gst')
      BY <1>1 DEF Unpend, IInv, NoGst
    <2>2. /\ pc["java"] \in CallLabels /\ UNCHANGED disposeVars
          /\ \E l \in CallLabels : pc' = [pc EXCEPT !["java"] = l]
          /\ ret' = ret \/ \E l \in JavaReturns : ret' = [ret EXCEPT !["java"] = l]
      BY <1>1 DEF Unpend, IInv, Control, Goto, Call, Return, Unchanged, CallLabels, JavaReturns
    <2> QED BY <2>1, <2>2, MoveJava
  <1>2. CASE PauseCall
    <2>1. GstOK(gst')
      BY <1>2 DEF PauseCall, IInv, NoGst
    <2>2. /\ pc["java"] \in CallLabels /\ UNCHANGED disposeVars
          /\ \E l \in CallLabels : pc' = [pc EXCEPT !["java"] = l]
          /\ ret' = ret \/ \E l \in JavaReturns : ret' = [ret EXCEPT !["java"] = l]
      BY <1>2 DEF PauseCall, IInv, Control, Goto, Call, Return, Unchanged, CallLabels, JavaReturns
    <2> QED BY <2>1, <2>2, MoveJava
  <1>3. CASE PauseLock
    <2>1. GstOK(gst')
      BY <1>3 DEF PauseLock, IInv, NoGst
    <2>2. /\ pc["java"] \in CallLabels /\ UNCHANGED disposeVars
          /\ \E l \in CallLabels : pc' = [pc EXCEPT !["java"] = l]
          /\ ret' = ret \/ \E l \in JavaReturns : ret' = [ret EXCEPT !["java"] = l]
      BY <1>3 DEF PauseLock, IInv, Control, Goto, Call, Return, Unchanged, CallLabels, JavaReturns
    <2> QED BY <2>1, <2>2, MoveJava
  <1>4. CASE StopCall
    <2>1. GstOK(gst')
      BY <1>4 DEF StopCall, IInv, NoGst
    <2>2. /\ pc["java"] \in CallLabels /\ UNCHANGED disposeVars
          /\ \E l \in CallLabels : pc' = [pc EXCEPT !["java"] = l]
          /\ ret' = ret \/ \E l \in JavaReturns : ret' = [ret EXCEPT !["java"] = l]
      BY <1>4 DEF StopCall, IInv, Control, Goto, Call, Return, Unchanged, CallLabels, JavaReturns
    <2> QED BY <2>1, <2>2, MoveJava
  <1>5. CASE StopLock
    <2>1. GstOK(gst')
      BY <1>5 DEF StopLock, IInv, NoGst
    <2>2. /\ pc["java"] \in CallLabels /\ UNCHANGED disposeVars
          /\ \E l \in CallLabels : pc' = [pc EXCEPT !["java"] = l]
          /\ ret' = ret \/ \E l \in JavaReturns : ret' = [ret EXCEPT !["java"] = l]
      BY <1>5 DEF StopLock, IInv, Control, Goto, Call, Return, Unchanged, CallLabels, JavaReturns
    <2> QED BY <2>1, <2>2, MoveJava
  <1>6. CASE SeekCall
    <2>1. GstOK(gst')
      BY <1>6 DEF SeekCall, IInv, NoGst
    <2>2. /\ pc["java"] \in CallLabels /\ UNCHANGED disposeVars
          /\ \E l \in CallLabels : pc' = [pc EXCEPT !["java"] = l]
          /\ ret' = ret \/ \E l \in JavaReturns : ret' = [ret EXCEPT !["java"] = l]
      BY <1>6 DEF SeekCall, IInv, Control, Goto, Call, Return, Unchanged, CallLabels, JavaReturns
    <2> QED BY <2>1, <2>2, MoveJava
  <1>7. CASE SeekResume
    <2>1. GstOK(gst')
      BY <1>7 DEF SeekResume, IInv, NoGst
    <2>2. /\ pc["java"] \in CallLabels /\ UNCHANGED disposeVars
          /\ \E l \in CallLabels : pc' = [pc EXCEPT !["java"] = l]
          /\ ret' = ret \/ \E l \in JavaReturns : ret' = [ret EXCEPT !["java"] = l]
      BY <1>7 DEF SeekResume, IInv, Control, Goto, Call, Return, Unchanged, CallLabels, JavaReturns
    <2> QED BY <2>1, <2>2, MoveJava
  <1>8. CASE RateZeroCall
    <2>1. GstOK(gst')
      BY <1>8 DEF RateZeroCall, IInv, NoGst
    <2>2. /\ pc["java"] \in CallLabels /\ UNCHANGED disposeVars
          /\ \E l \in CallLabels : pc' = [pc EXCEPT !["java"] = l]
          /\ ret' = ret \/ \E l \in JavaReturns : ret' = [ret EXCEPT !["java"] = l]
      BY <1>8 DEF RateZeroCall, IInv, Control, Goto, Call, Return, Unchanged, CallLabels,
         JavaReturns
    <2> QED BY <2>1, <2>2, MoveJava
  <1>9. CASE RateZeroSet
    <2>1. GstOK(gst')
      BY <1>9 DEF RateZeroSet, IInv, NoGst
    <2>2. /\ pc["java"] \in CallLabels /\ UNCHANGED disposeVars
          /\ \E l \in CallLabels : pc' = [pc EXCEPT !["java"] = l]
          /\ ret' = ret \/ \E l \in JavaReturns : ret' = [ret EXCEPT !["java"] = l]
      BY <1>9 DEF RateZeroSet, IInv, Control, Goto, Call, Return, Unchanged, CallLabels, JavaReturns
    <2> QED BY <2>1, <2>2, MoveJava
  <1>10. CASE SeekFlush
    <2>1. GstOK(gst')
      BY <1>10, SeekPipelineOK DEF SeekFlush, IInv, NoGst, SeekPipeline
    <2>2. /\ pc["java"] \in CallLabels /\ UNCHANGED disposeVars
          /\ \E l \in CallLabels : pc' = [pc EXCEPT !["java"] = l]
          /\ ret' = ret \/ \E l \in JavaReturns : ret' = [ret EXCEPT !["java"] = l]
      BY <1>10 DEF SeekFlush, IInv, Control, Goto, Call, Return, Unchanged, CallLabels,
         JavaReturns, SeekPipeline
    <2> QED BY <2>1, <2>2, MoveJava
  <1>11. CASE SeekSet
    <2>1. GstOK(gst')
      BY <1>11, SetStateOK DEF SeekSet, IInv, NoGst, Change, Happens
    <2>2. /\ pc["java"] \in CallLabels /\ UNCHANGED disposeVars
          /\ \E l \in CallLabels : pc' = [pc EXCEPT !["java"] = l]
          /\ ret' = ret \/ \E l \in JavaReturns : ret' = [ret EXCEPT !["java"] = l]
      BY <1>11 DEF SeekSet, IInv, Control, Goto, Call, Return, Unchanged, CallLabels, JavaReturns,
         Change, Happens
    <2> QED BY <2>1, <2>2, MoveJava
  <1>12. CASE RateOneCall
    <2>1. GstOK(gst')
      BY <1>12, SeekPipelineOK DEF RateOneCall, IInv, NoGst, SeekPipeline
    <2>2. /\ pc["java"] \in CallLabels /\ UNCHANGED disposeVars
          /\ \E l \in CallLabels : pc' = [pc EXCEPT !["java"] = l]
          /\ ret' = ret \/ \E l \in JavaReturns : ret' = [ret EXCEPT !["java"] = l]
      BY <1>12 DEF RateOneCall, IInv, Control, Goto, Call, Return, Unchanged, CallLabels,
         JavaReturns, SeekPipeline
    <2> QED BY <2>1, <2>2, MoveJava
  <1>13. CASE \E c \in Calls : JavaCall(c)
    <2>1. PICK c \in Calls : JavaCall(c)
      BY <1>13
    <2>2. c \in CallLabels
      BY DEF CallLabels
    <2>3. /\ pc["java"] \in CallLabels /\ UNCHANGED disposeVars /\ gst' = gst
          /\ \E l \in CallLabels : pc' = [pc EXCEPT !["java"] = l]
          /\ \E l \in JavaReturns : ret' = [ret EXCEPT !["java"] = l]
      BY <2>1, <2>2 DEF JavaCall, Call, Goto, CallLabels, JavaReturns, disposeVars
    <2> QED BY <2>3, MoveJava DEF IInv
  <1>14. CASE OnState
    <2>1. GstOK(gst')
      BY <1>14 DEF OnState, IInv, NoGst
    <2>2. /\ pc["bus"] \in Handling /\ UNCHANGED disposeVars
          /\ \E l \in Handling \cup {"Unref"} : pc' = [pc EXCEPT !["bus"] = l]
          /\ ret' = ret \/ \E l \in {"idle", "Update", "Unref"} : ret' = [ret EXCEPT !["bus"] = l]
          /\ pc'["bus"] \in BusNested => ret'["bus"] \in {"Update", "Unref"}
      BY <1>14 DEF OnState, IInv, Control, Threads, Goto, Call, Return, Unchanged, Handling,
         BusNested
    <2> QED BY <2>1, <2>2, MoveBus
  <1>15. CASE UpdateBufferPosition
    <2>1. GstOK(gst')
      BY <1>15 DEF UpdateBufferPosition, IInv, NoGst
    <2>2. /\ pc["bus"] \in Handling /\ UNCHANGED disposeVars
          /\ \E l \in Handling \cup {"Unref"} : pc' = [pc EXCEPT !["bus"] = l]
          /\ ret' = ret \/ \E l \in {"idle", "Update", "Unref"} : ret' = [ret EXCEPT !["bus"] = l]
          /\ pc'["bus"] \in BusNested => ret'["bus"] \in {"Update", "Unref"}
      BY <1>15 DEF UpdateBufferPosition, IInv, Control, Threads, Goto, Call, Return, Unchanged,
         Handling, BusNested
    <2> QED BY <2>1, <2>2, MoveBus
  <1>16. CASE OnBuffering
    <2>1. GstOK(gst')
      BY <1>16 DEF OnBuffering, IInv, NoGst
    <2>2. /\ pc["bus"] \in Handling /\ UNCHANGED disposeVars
          /\ \E l \in Handling \cup {"Unref"} : pc' = [pc EXCEPT !["bus"] = l]
          /\ ret' = ret \/ \E l \in {"idle", "Update", "Unref"} : ret' = [ret EXCEPT !["bus"] = l]
          /\ pc'["bus"] \in BusNested => ret'["bus"] \in {"Update", "Unref"}
      BY <1>16 DEF OnBuffering, IInv, Control, Threads, Goto, Call, Return, Unchanged, Handling,
         BusNested
    <2> QED BY <2>1, <2>2, MoveBus
  <1>17. CASE OnEos
    <2>1. GstOK(gst')
      BY <1>17 DEF OnEos, IInv, NoGst
    <2>2. /\ pc["bus"] \in Handling /\ UNCHANGED disposeVars
          /\ \E l \in Handling \cup {"Unref"} : pc' = [pc EXCEPT !["bus"] = l]
          /\ ret' = ret \/ \E l \in {"idle", "Update", "Unref"} : ret' = [ret EXCEPT !["bus"] = l]
          /\ pc'["bus"] \in BusNested => ret'["bus"] \in {"Update", "Unref"}
      BY <1>17 DEF OnEos, IInv, Control, Threads, Goto, Call, Return, Unchanged, Handling, BusNested
    <2> QED BY <2>1, <2>2, MoveBus
  <1>18. CASE SetError
    <2>1. GstOK(gst')
      BY <1>18 DEF SetError, IInv, NoGst
    <2>2. /\ pc["bus"] \in Handling /\ UNCHANGED disposeVars
          /\ \E l \in Handling \cup {"Unref"} : pc' = [pc EXCEPT !["bus"] = l]
          /\ ret' = ret \/ \E l \in {"idle", "Update", "Unref"} : ret' = [ret EXCEPT !["bus"] = l]
          /\ pc'["bus"] \in BusNested => ret'["bus"] \in {"Update", "Unref"}
      BY <1>18 DEF SetError, IInv, Control, Threads, Goto, Call, Return, Unchanged, Handling,
         BusNested
    <2> QED BY <2>1, <2>2, MoveBus
  <1>19. CASE OnUnderrun
    <2>1. GstOK(gst')
      BY <1>19 DEF OnUnderrun, IInv, NoGst
    <2>2. /\ pc["bus"] \in Handling /\ UNCHANGED disposeVars
          /\ \E l \in Handling \cup {"Unref"} : pc' = [pc EXCEPT !["bus"] = l]
          /\ ret' = ret \/ \E l \in {"idle", "Update", "Unref"} : ret' = [ret EXCEPT !["bus"] = l]
          /\ pc'["bus"] \in BusNested => ret'["bus"] \in {"Update", "Unref"}
      BY <1>19 DEF OnUnderrun, IInv, Control, Threads, Goto, Call, Return, Unchanged, Handling,
         BusNested
    <2> QED BY <2>1, <2>2, MoveBus
  <1>20. CASE Stall
    <2>1. GstOK(gst')
      BY <1>20 DEF Stall, IInv, NoGst
    <2>2. /\ pc["bus"] \in Handling /\ UNCHANGED disposeVars
          /\ \E l \in Handling \cup {"Unref"} : pc' = [pc EXCEPT !["bus"] = l]
          /\ ret' = ret \/ \E l \in {"idle", "Update", "Unref"} : ret' = [ret EXCEPT !["bus"] = l]
          /\ pc'["bus"] \in BusNested => ret'["bus"] \in {"Update", "Unref"}
      BY <1>20 DEF Stall, IInv, Control, Threads, Goto, Call, Return, Unchanged, Handling, BusNested
    <2> QED BY <2>1, <2>2, MoveBus
  <1>21. CASE OnError
    <2>1. GstOK(gst')
      BY <1>21, HaltedOK DEF OnError, IInv, NoGst, Happens, Result
    <2>2. /\ pc["bus"] \in Handling /\ UNCHANGED disposeVars
          /\ \E l \in Handling \cup {"Unref"} : pc' = [pc EXCEPT !["bus"] = l]
          /\ ret' = ret \/ \E l \in {"idle", "Update", "Unref"} : ret' = [ret EXCEPT !["bus"] = l]
          /\ pc'["bus"] \in BusNested => ret'["bus"] \in {"Update", "Unref"}
      BY <1>21 DEF OnError, IInv, Control, Threads, Goto, Call, Return, Unchanged, Handling,
         BusNested, Happens, Result
    <2> QED BY <2>1, <2>2, MoveBus
  <1>22. CASE UpdatePlayerState
    <2>1. GstOK(gst')
      BY <1>22, SetStateOK DEF UpdatePlayerState, IInv, NoGst, DoPlay, Change, Happens
    <2>2. /\ pc["bus"] \in Handling /\ UNCHANGED disposeVars
          /\ \E l \in Handling \cup {"Unref"} : pc' = [pc EXCEPT !["bus"] = l]
          /\ ret' = ret \/ \E l \in {"idle", "Update", "Unref"} : ret' = [ret EXCEPT !["bus"] = l]
          /\ pc'["bus"] \in BusNested => ret'["bus"] \in {"Update", "Unref"}
      BY <1>22 DEF UpdatePlayerState, IInv, Control, Threads, Goto, Call, Return, Unchanged,
         Handling, BusNested, DoPlay, Change, Happens
    <2> QED BY <2>1, <2>2, MoveBus
  <1>23. CASE \E t \in Threads : PlayTest(t)
    <2>1. PICK t \in Threads : PlayTest(t)
      BY <1>23
    <2>2. GstOK(gst') /\ UNCHANGED disposeVars
      BY <2>1 DEF PlayTest, IInv, NoGst, Unchanged
    <2>3. CASE t = "java"
      <3>1. /\ pc["java"] \in CallLabels
            /\ \E l \in CallLabels : pc' = [pc EXCEPT !["java"] = l]
            /\ ret' = ret \/ \E l \in JavaReturns : ret' = [ret EXCEPT !["java"] = l]
        BY <2>1, <2>3 DEF PlayTest, IInv, Control, Goto, Return, CallLabels, JavaReturns
      <3> QED BY <2>2, <3>1, MoveJava
    <2>4. CASE t = "pulse"
      <3>1. pc["java"] \notin Disposing
        BY <2>1, <2>4 DEF PlayTest, IInv, Control
      <3>2. /\ \E l \in PulseLabels : pc' = [pc EXCEPT !["pulse"] = l]
            /\ ret' = ret \/ ret' = [ret EXCEPT !["pulse"] = "idle"]
        BY <2>1, <2>4 DEF PlayTest, IInv, Control, Goto, Return, PulseLabels
      <3> QED BY <2>2, <3>1, <3>2, MovePulse
    <2>5. CASE t = "bus"
      <3>1. /\ pc["bus"] \in Handling
            /\ \E l \in Handling \cup {"Unref"} : pc' = [pc EXCEPT !["bus"] = l]
            /\ ret' = ret \/ \E l \in {"idle", "Update", "Unref"} : ret' = [ret EXCEPT !["bus"] = l]
            /\ pc'["bus"] \in BusNested => ret'["bus"] \in {"Update", "Unref"}
        BY <2>1, <2>5 DEF PlayTest, IInv, Control, Threads, Goto, Return, Handling, BusNested
      <3> QED BY <2>2, <3>1, MoveBus
    <2> QED BY <2>3, <2>4, <2>5 DEF Threads
  <1>24. CASE \E t \in Threads : PlaySet(t)
    <2>1. PICK t \in Threads : PlaySet(t)
      BY <1>24
    <2>2. GstOK(gst') /\ UNCHANGED disposeVars
      BY <2>1, SetStateOK DEF PlaySet, IInv, NoGst, Unchanged, DoPlay, Change, Happens
    <2>3. CASE t = "java"
      <3>1. /\ pc["java"] \in CallLabels
            /\ \E l \in CallLabels : pc' = [pc EXCEPT !["java"] = l]
            /\ ret' = ret \/ \E l \in JavaReturns : ret' = [ret EXCEPT !["java"] = l]
        BY <2>1, <2>3 DEF PlaySet, IInv, Control, Goto, Return, CallLabels, JavaReturns
      <3> QED BY <2>2, <3>1, MoveJava
    <2>4. CASE t = "pulse"
      <3>1. pc["java"] \notin Disposing
        BY <2>1, <2>4 DEF PlaySet, IInv, Control
      <3>2. /\ \E l \in PulseLabels : pc' = [pc EXCEPT !["pulse"] = l]
            /\ ret' = ret \/ ret' = [ret EXCEPT !["pulse"] = "idle"]
        BY <2>1, <2>4 DEF PlaySet, IInv, Control, Goto, Return, PulseLabels
      <3> QED BY <2>2, <3>1, <3>2, MovePulse
    <2>5. CASE t = "bus"
      <3>1. /\ pc["bus"] \in Handling
            /\ \E l \in Handling \cup {"Unref"} : pc' = [pc EXCEPT !["bus"] = l]
            /\ ret' = ret \/ \E l \in {"idle", "Update", "Unref"} : ret' = [ret EXCEPT !["bus"] = l]
            /\ pc'["bus"] \in BusNested => ret'["bus"] \in {"Update", "Unref"}
        BY <2>1, <2>5 DEF PlaySet, IInv, Control, Threads, Goto, Return, Handling, BusNested
      <3> QED BY <2>2, <3>1, MoveBus
    <2> QED BY <2>3, <2>4, <2>5 DEF Threads
  <1>25. CASE \E t \in Threads : PauseTest(t)
    <2>1. PICK t \in Threads : PauseTest(t)
      BY <1>25
    <2>2. GstOK(gst') /\ UNCHANGED disposeVars
      BY <2>1 DEF PauseTest, IInv, NoGst, Unchanged
    <2>3. CASE t = "java"
      <3>1. /\ pc["java"] \in CallLabels
            /\ \E l \in CallLabels : pc' = [pc EXCEPT !["java"] = l]
            /\ ret' = ret \/ \E l \in JavaReturns : ret' = [ret EXCEPT !["java"] = l]
        BY <2>1, <2>3 DEF PauseTest, IInv, Control, Goto, Return, CallLabels, JavaReturns
      <3> QED BY <2>2, <3>1, MoveJava
    <2>4. CASE t = "pulse"
      <3>1. pc["java"] \notin Disposing
        BY <2>1, <2>4 DEF PauseTest, IInv, Control
      <3>2. /\ \E l \in PulseLabels : pc' = [pc EXCEPT !["pulse"] = l]
            /\ ret' = ret \/ ret' = [ret EXCEPT !["pulse"] = "idle"]
        BY <2>1, <2>4 DEF PauseTest, IInv, Control, Goto, Return, PulseLabels
      <3> QED BY <2>2, <3>1, <3>2, MovePulse
    <2>5. CASE t = "bus"
      <3>1. /\ pc["bus"] \in Handling
            /\ \E l \in Handling \cup {"Unref"} : pc' = [pc EXCEPT !["bus"] = l]
            /\ ret' = ret \/ \E l \in {"idle", "Update", "Unref"} : ret' = [ret EXCEPT !["bus"] = l]
            /\ pc'["bus"] \in BusNested => ret'["bus"] \in {"Update", "Unref"}
        BY <2>1, <2>5 DEF PauseTest, IInv, Control, Threads, Goto, Return, Handling, BusNested
      <3> QED BY <2>2, <3>1, MoveBus
    <2> QED BY <2>3, <2>4, <2>5 DEF Threads
  <1>26. CASE \E t \in Threads : PauseSet(t)
    <2>1. PICK t \in Threads : PauseSet(t)
      BY <1>26
    <2>2. GstOK(gst') /\ UNCHANGED disposeVars
      BY <2>1, SetStateOK DEF PauseSet, IInv, NoGst, Unchanged, Change, Happens
    <2>3. CASE t = "java"
      <3>1. /\ pc["java"] \in CallLabels
            /\ \E l \in CallLabels : pc' = [pc EXCEPT !["java"] = l]
            /\ ret' = ret \/ \E l \in JavaReturns : ret' = [ret EXCEPT !["java"] = l]
        BY <2>1, <2>3 DEF PauseSet, IInv, Control, Goto, Return, CallLabels, JavaReturns
      <3> QED BY <2>2, <3>1, MoveJava
    <2>4. CASE t = "pulse"
      <3>1. pc["java"] \notin Disposing
        BY <2>1, <2>4 DEF PauseSet, IInv, Control
      <3>2. /\ \E l \in PulseLabels : pc' = [pc EXCEPT !["pulse"] = l]
            /\ ret' = ret \/ ret' = [ret EXCEPT !["pulse"] = "idle"]
        BY <2>1, <2>4 DEF PauseSet, IInv, Control, Goto, Return, PulseLabels
      <3> QED BY <2>2, <3>1, <3>2, MovePulse
    <2>5. CASE t = "bus"
      <3>1. /\ pc["bus"] \in Handling
            /\ \E l \in Handling \cup {"Unref"} : pc' = [pc EXCEPT !["bus"] = l]
            /\ ret' = ret \/ \E l \in {"idle", "Update", "Unref"} : ret' = [ret EXCEPT !["bus"] = l]
            /\ pc'["bus"] \in BusNested => ret'["bus"] \in {"Update", "Unref"}
        BY <2>1, <2>5 DEF PauseSet, IInv, Control, Threads, Goto, Return, Handling, BusNested
      <3> QED BY <2>2, <3>1, MoveBus
    <2> QED BY <2>3, <2>4, <2>5 DEF Threads
  <1>27. CASE FinishCall
    <2>1. /\ pc["java"] \notin Disposing /\ GstOK(gst') /\ UNCHANGED disposeVars
          /\ \E l \in PulseLabels : pc' = [pc EXCEPT !["pulse"] = l]
          /\ ret' = ret \/ ret' = [ret EXCEPT !["pulse"] = "idle"]
      BY <1>27 DEF FinishCall, IInv, Control, Goto, Call, PulseLabels, NoGst, Unchanged
    <2> QED BY <2>1, MovePulse
  <1>28. CASE PulseCall
    <2>1. /\ pc["java"] \notin Disposing /\ GstOK(gst') /\ UNCHANGED disposeVars /\ ret' = ret
          /\ \E l \in PulseLabels : pc' = [pc EXCEPT !["pulse"] = l]
      BY <1>28 DEF PulseCall, IInv, Goto, PulseLabels, disposeVars
    <2> QED BY <2>1, MovePulse
  <1>29. CASE Preroll
    <2>1. GstOK(gst') /\ UNCHANGED <<pc, ret, disposeVars>>
      BY <1>29, AsyncDoneOK DEF Preroll, IInv, Unchanged, Happens
    <2>2. pc["java"] \notin Disposing \ {"DisposeNull"}
      BY <1>29 DEF Preroll, IInv, HaltedForGood
    <2> QED BY <2>1, <2>2, MoveGst
  <1>30. CASE ContinueState
    <2>1. GstOK(gst') /\ UNCHANGED <<pc, ret, disposeVars>>
      BY <1>30, ContinueOK DEF ContinueState, IInv, Unchanged, Happens
    <2>2. pc["java"] \notin Disposing \ {"DisposeNull"}
      BY <1>30 DEF ContinueState, IInv, HaltedForGood
    <2> QED BY <2>1, <2>2, MoveGst
  <1>31. CASE StreamEnds
    <2>1. GstOK(gst') /\ UNCHANGED <<pc, ret, disposeVars>>
      BY <1>31 DEF StreamEnds, IInv, Unchanged, Post
    <2>2. pc["java"] \notin Disposing \ {"DisposeNull"}
      BY <1>31 DEF StreamEnds, IInv, HaltedForGood, Post
    <2> QED BY <2>1, <2>2, MoveGst
  <1>32. CASE StreamFails
    <2>1. GstOK(gst') /\ UNCHANGED <<pc, ret, disposeVars>>
      BY <1>32 DEF StreamFails, IInv, Unchanged, Post
    <2>2. pc["java"] \notin Disposing \ {"DisposeNull"}
      BY <1>32 DEF StreamFails, IInv, HaltedForGood, Post
    <2> QED BY <2>1, <2>2, MoveGst
  <1>33. CASE Download
    <2>1. GstOK(gst') /\ UNCHANGED <<pc, ret, disposeVars>>
      BY <1>33 DEF Download, IInv, Unchanged, Post
    <2>2. pc["java"] \notin Disposing \ {"DisposeNull"}
      BY <1>33 DEF Download, IInv, HaltedForGood, Post
    <2> QED BY <2>1, <2>2, MoveGst
  <1>34. CASE Underrun
    <2>1. GstOK(gst') /\ UNCHANGED <<pc, ret, disposeVars>>
      BY <1>34 DEF Underrun, IInv, Unchanged, Post
    <2>2. pc["java"] \notin Disposing \ {"DisposeNull"}
      BY <1>34 DEF Underrun, IInv, HaltedForGood, Post
    <2> QED BY <2>1, <2>2, MoveGst
  <1>35. CASE UNCHANGED vars
    BY <1>35, MoveGst DEF vars, playerVars, IInv
  <1>36. CASE Dispatch
    <2>1. GstOK(gst') /\ ret' = ret
      BY <1>36 DEF Dispatch, IInv, playerVars, NoGst, Happens, Result
    <2>2. /\ pc["bus"] = "idle" /\ pc'["bus"] = "Enter"
          /\ pc'["java"] = pc["java"] /\ pc'["pulse"] = pc["pulse"]
      BY <1>36 DEF Dispatch, IInv, Control, Threads, Goto
    <2>3. Control'
      BY <1>36, <2>1, <2>2 DEF Dispatch, IInv, Control, Threads, Goto, BusNested, BusHolds, Handling,
         Dispatching, Disposing, Unreffing
    <2>4. Counting'
      <3>1. pc["java"] \notin Destroyed /\ ~overlapped /\ refs = 1 /\ refs' = 2 /\ UNCHANGED <<seen, overlapped>>
        BY <1>36, <2>2 DEF Dispatch, IInv, Counting, Freeing, JavaRefs, BusRefs, Handling
      <3>2. JavaRefs' = 1 /\ BusRefs' = 1
        BY <2>2, <3>1 DEF JavaRefs, BusRefs
      <3>3. \A t \in {"java", "bus"} : pc'[t] \notin Midway
        BY <2>2, <3>1 DEF Midway, Destroyed, Unreffing
      <3> QED BY <3>1, <3>2, <3>3 DEF IInv, Counting, Midway
    <2>5. Freeing'
      BY <1>36, <2>2 DEF Dispatch, IInv, Freeing, refVars, Disposing, Unreffing, Destroyed
    <2>6. Ownership'
      BY <1>36, <2>2 DEF Dispatch, IInv, Control, Counting, Freeing, Ownership, refVars, Handling,
         Dispatching, Disposing, Unreffing, Destroyed
    <2>7. HaltedForGood'
      BY <1>36, <2>2 DEF Dispatch, IInv, HaltedForGood, NoGst, playerVars, Happens, Result, Disposing,
         Unreffing
    <2> QED BY <2>1, <2>3, <2>4, <2>5, <2>6, <2>7 DEF IInv
  <1>37. CASE BusCallback
    <2>1. GstOK(gst') /\ ret' = ret
      BY <1>37 DEF BusCallback, IInv, playerVars, NoGst, Happens, Result
    <2>2. /\ pc["bus"] = "Enter" /\ pc'["bus"] \in Handling \cup {"Unref"}
          /\ pc["java"] \in Disposing => pc'["bus"] = "Unref"
          /\ pc'["java"] = pc["java"] /\ pc'["pulse"] = pc["pulse"]
      <3>1. Handler \in Handling
        BY DEF Handler, Handling
      <3>2. pc["java"] \in Disposing => Ignores
        BY DEF IInv, Freeing, Ignores
      <3> QED BY <1>37, <3>1, <3>2 DEF BusCallback, IInv, Control, Threads, Goto
    <2>3. Control'
      <3>1. PICK l \in Handling \cup {"Unref"} : pc' = [pc EXCEPT !["bus"] = l]
        BY <1>37, <2>2 DEF BusCallback, Goto, IInv, Control, Threads
      <3>2. l \notin BusNested
        BY <1>37, <3>1 DEF BusCallback, Goto, IInv, Control, Threads, Handler, BusNested
      <3> QED BY <2>1, <2>2, <3>1, <3>2 DEF IInv, Control, Threads, Handling, Dispatching, Unreffing
    <2>4. Counting' /\ Freeing' /\ Ownership'
      BY <1>37, <2>2, KeepsOwners DEF BusCallback, Unchanged, Disposing, Unreffing, Destroyed
    <2>7. HaltedForGood'
      BY <1>37, <2>2 DEF BusCallback, IInv, HaltedForGood, NoGst, playerVars, Happens, Result,
         Disposing, Unreffing
    <2> QED BY <2>1, <2>3, <2>4, <2>7 DEF IInv
  <1>38. CASE Unref
    BY <1>38, UnrefReadInv, UnrefWriteInv, UnrefTestInv DEF Unref
  <1>39. CASE DestroyNotify
    <2>1. GstOK(gst') /\ ret' = ret
      BY <1>39 DEF DestroyNotify, IInv, playerVars, NoGst, Happens, Result
    <2>2. /\ pc["bus"] = "Notify" /\ pc'["bus"] \in {"Free", "Over"}
          /\ pc'["java"] = pc["java"] /\ pc'["pulse"] = pc["pulse"]
      BY <1>39 DEF DestroyNotify, IInv, Control, Threads, Goto
    <2>3. Control'
      BY <1>39, <2>1, <2>2 DEF DestroyNotify, IInv, Control, Threads, Goto, BusNested, BusHolds,
         Handling, Dispatching, Disposing, Unreffing
    <2>4. /\ content.freeMe \in BOOLEAN /\ content.disposed \in BOOLEAN /\ content.freed \in 0..2
          /\ content'.inProgress = content.inProgress /\ content'.disposed = content.disposed
          /\ content'.freed = content.freed /\ content'.freeMe = (content.freeMe \/ ~content.disposed)
          /\ content' \in [inProgress : BOOLEAN, disposed : BOOLEAN, freeMe : BOOLEAN, freed : 0..2]
          /\ UNCHANGED <<attached, refs, seen, overlapped>>
      BY <1>39 DEF DestroyNotify, IInv, Freeing, refVars
    <2>5. Counting' /\ Freeing'
      <3>1. JavaRefs' = JavaRefs /\ BusRefs' = BusRefs
        BY <2>2 DEF JavaRefs, BusRefs, Handling
      <3>2. Counting'
        BY <2>2, <2>4, <3>1 DEF IInv, Counting, Midway
      <3>3. Freeing'
        BY <2>2, <2>4 DEF IInv, Freeing
      <3> QED BY <3>2, <3>3
    <2>6. Ownership'
      <3>1. pc["java"] \notin Unreffing \cup {"DisposeEnd"} /\ pc'["bus"] = (IF content.disposed THEN "Free" ELSE "Over")
        BY <1>39 DEF DestroyNotify, DisposeHolds, IInv, Control, Goto, Threads
      <3>2. pc["java"] \in {"DisposeFree", "Delete", "Gone"} =>
              content.disposed /\ pc'["bus"] = "Free" /\ content'.freeMe = content.freeMe
        BY <2>4, <3>1 DEF IInv, Freeing
      <3> QED BY <2>2, <2>4, <3>1, <3>2 DEF IInv, Ownership, Dispatching
    <2>7. HaltedForGood'
      BY <1>39, <2>2 DEF DestroyNotify, IInv, HaltedForGood, NoGst, playerVars, Happens, Result,
         Disposing, Unreffing
    <2> QED BY <2>1, <2>3, <2>4, <2>5, <2>6, <2>7 DEF IInv
  <1>40. CASE NotifyFree
    <2>1. GstOK(gst') /\ ret' = ret
      BY <1>40 DEF NotifyFree, IInv, playerVars, NoGst, Happens, Result
    <2>2. /\ pc["bus"] = "Free" /\ pc'["bus"] = "Over"
          /\ pc'["java"] = pc["java"] /\ pc'["pulse"] = pc["pulse"]
      BY <1>40 DEF NotifyFree, IInv, Control, Threads, Goto
    <2>3. Control'
      BY <1>40, <2>1, <2>2 DEF NotifyFree, IInv, Control, Threads, Goto, BusNested, BusHolds,
         Handling, Dispatching, Disposing, Unreffing
    <2>4. Counting'
      BY <1>40, <2>2 DEF NotifyFree, IInv, Counting, JavaRefs, BusRefs, Midway, refVars, Handling,
         Unreffing, Destroyed
    <2>5. Freeing'
      BY <1>40, <2>2 DEF NotifyFree, IInv, Freeing, refVars, Disposing, Unreffing, Destroyed
    <2>6. Ownership'
      BY <1>40, <2>2 DEF NotifyFree, IInv, Control, Counting, Freeing, Ownership, refVars, Handling,
         Dispatching, Disposing, Unreffing, Destroyed
    <2>7. HaltedForGood'
      BY <1>40, <2>2 DEF NotifyFree, IInv, HaltedForGood, NoGst, playerVars, Happens, Result,
         Disposing, Unreffing
    <2> QED BY <2>1, <2>3, <2>4, <2>5, <2>6, <2>7 DEF IInv
  <1>41. CASE Dispose
    <2>1. GstOK(gst') /\ ret' = ret
      BY <1>41 DEF Dispose, IInv, playerVars, NoGst, Happens, Result
    <2>2. /\ pc["java"] = "idle" /\ pc'["java"] = "DisposeNull"
          /\ pc'["bus"] = pc["bus"] /\ pc'["pulse"] = pc["pulse"]
      BY <1>41 DEF Dispose, IInv, Control, Threads, Goto
    <2>3. Control'
      BY <1>41, <2>1, <2>2 DEF Dispose, IInv, Control, Threads, Goto, BusNested, BusHolds, Handling,
         Dispatching, Disposing, Unreffing
    <2>4. Counting'
      BY <1>41, <2>2 DEF Dispose, IInv, Counting, JavaRefs, BusRefs, Midway, refVars, Handling,
         Unreffing, Destroyed
    <2>5. Freeing'
      BY <1>41, <2>2 DEF Dispose, IInv, Freeing, refVars, Disposing, Unreffing, Destroyed
    <2>6. Ownership'
      BY <1>41, <2>2 DEF Dispose, IInv, Control, Counting, Freeing, Ownership, refVars, Handling,
         Dispatching, Disposing, Unreffing, Destroyed
    <2>7. HaltedForGood'
      BY <1>41, <2>2 DEF Dispose, IInv, HaltedForGood, NoGst, playerVars, Happens, Result, Disposing,
         Unreffing
    <2> QED BY <2>1, <2>3, <2>4, <2>5, <2>6, <2>7 DEF IInv
  <1>42. CASE DisposeNull
    <2>1. GstOK(gst') /\ ret' = ret
      BY <1>42, HaltedOK DEF DisposeNull, IInv, playerVars, NoGst, Happens, Result
    <2>2. /\ pc["java"] = "DisposeNull" /\ pc'["java"] = "DisposeLock"
          /\ pc'["bus"] = pc["bus"] /\ pc'["pulse"] = pc["pulse"]
      BY <1>42 DEF DisposeNull, IInv, Control, Threads, Goto
    <2>3. Control'
      BY <1>42, <2>1, <2>2 DEF DisposeNull, IInv, Control, Threads, Goto, BusNested, BusHolds,
         Handling, Dispatching, Disposing, Unreffing
    <2>4. Counting' /\ Freeing' /\ Ownership'
      BY <1>42, <2>2, KeepsOwners DEF DisposeNull, Unchanged, Disposing, Unreffing, Destroyed
    <2>7. HaltedForGood'
      BY <1>42, <2>2, HaltedOK DEF DisposeNull, IInv, HaltedForGood, NoGst, playerVars, Happens,
         Result, Disposing, Unreffing
    <2> QED BY <2>1, <2>3, <2>4, <2>7 DEF IInv
  <1>43. CASE DisposeLock
    <2>1. GstOK(gst') /\ ret' = ret
      BY <1>43 DEF DisposeLock, IInv, playerVars, NoGst, Happens, Result
    <2>2. /\ pc["java"] = "DisposeLock" /\ pc'["java"] = "DisposeDestroy"
          /\ pc'["bus"] = pc["bus"] /\ pc'["pulse"] = pc["pulse"]
      BY <1>43 DEF DisposeLock, IInv, Control, Threads, Goto
    <2>3. Control'
      BY <1>43, <2>1, <2>2 DEF DisposeLock, IInv, Control, Threads, Goto, BusNested, BusHolds,
         Handling, Dispatching, Disposing, Unreffing
    <2>4. Counting' /\ Freeing' /\ Ownership'
      BY <1>43, <2>2, KeepsOwners DEF DisposeLock, Unchanged, Disposing, Unreffing, Destroyed
    <2>7. HaltedForGood'
      BY <1>43, <2>2 DEF DisposeLock, IInv, HaltedForGood, NoGst, playerVars, Happens, Result,
         Disposing, Unreffing
    <2> QED BY <2>1, <2>3, <2>4, <2>7 DEF IInv
  <1>44. CASE DisposeDestroy
    <2>1. GstOK(gst') /\ ret' = ret
      BY <1>44 DEF DisposeDestroy, IInv, playerVars, NoGst, Happens, Result
    <2>2. /\ pc["java"] = "DisposeDestroy" /\ pc'["java"] = "Unref"
          /\ pc'["bus"] = pc["bus"] /\ pc'["pulse"] = pc["pulse"]
      BY <1>44 DEF DisposeDestroy, IInv, Control, Threads, Goto
    <2>3. Control'
      BY <1>44, <2>1, <2>2 DEF DisposeDestroy, IInv, Control, Threads, Goto, BusNested, BusHolds,
         Handling, Dispatching, Disposing, Unreffing
    <2>4. Counting'
      BY <1>44, <2>2 DEF DisposeDestroy, IInv, Counting, JavaRefs, BusRefs, Midway, refVars, Handling,
         Unreffing, Destroyed
    <2>5. Freeing'
      BY <1>44, <2>2 DEF DisposeDestroy, IInv, Freeing, refVars, Disposing, Unreffing, Destroyed
    <2>6. Ownership'
      BY <1>44, <2>2 DEF DisposeDestroy, IInv, Control, Counting, Freeing, Ownership, refVars,
         Handling, Dispatching, Disposing, Unreffing, Destroyed
    <2>7. HaltedForGood'
      BY <1>44, <2>2 DEF DisposeDestroy, IInv, HaltedForGood, NoGst, playerVars, Happens, Result,
         Disposing, Unreffing
    <2> QED BY <2>1, <2>3, <2>4, <2>5, <2>6, <2>7 DEF IInv
  <1>45. CASE DisposeEnd
    <2>1. GstOK(gst') /\ ret' = ret
      BY <1>45 DEF DisposeEnd, IInv, playerVars, NoGst, Happens, Result
    <2>2. /\ pc["java"] = "DisposeEnd" /\ pc'["java"] \in {"DisposeFree", "Delete"}
          /\ pc'["bus"] = pc["bus"] /\ pc'["pulse"] = pc["pulse"]
      BY <1>45 DEF DisposeEnd, IInv, Control, Threads, Goto
    <2>3. Control'
      BY <1>45, <2>1, <2>2 DEF DisposeEnd, IInv, Control, Threads, Goto, BusNested, BusHolds,
         Handling, Dispatching, Disposing, Unreffing
    <2>4. Counting'
      BY <1>45, <2>2 DEF DisposeEnd, IInv, Counting, JavaRefs, BusRefs, Midway, refVars, Handling,
         Unreffing, Destroyed
    <2>5. /\ content'.inProgress = content.inProgress /\ content'.disposed
          /\ content'.freed = content.freed /\ content'.freeMe = content.freeMe /\ content.freeMe \in BOOLEAN
          /\ content' \in [inProgress : BOOLEAN, disposed : BOOLEAN, freeMe : BOOLEAN, freed : 0..2]
          /\ UNCHANGED <<attached, overlapped>>
          /\ pc'["java"] = IF content.freeMe THEN "DisposeFree" ELSE "Delete"
      BY <1>45 DEF DisposeEnd, IInv, Control, Freeing, refVars, Goto, Threads
    <2>6. Freeing' /\ Ownership'
      <3>1. content.freed \in 0..2 /\ (pc["bus"] # "Over" => content.freed = 0)
        BY <2>2 DEF IInv, Freeing
      <3>2. Freeing'
        BY <2>2, <2>5, <3>1 DEF IInv, Freeing, Destroyed, Disposing
      <3>3. Ownership'
        BY <2>2, <2>5, <3>1 DEF IInv, Ownership, Dispatching, Unreffing
      <3> QED BY <3>2, <3>3
    <2>7. HaltedForGood'
      BY <1>45, <2>2 DEF DisposeEnd, IInv, HaltedForGood, NoGst, playerVars, Happens, Result,
         Disposing, Unreffing
    <2> QED BY <2>1, <2>3, <2>4, <2>5, <2>6, <2>7 DEF IInv
  <1>46. CASE DisposeFree
    <2>1. GstOK(gst') /\ ret' = ret
      BY <1>46 DEF DisposeFree, IInv, playerVars, NoGst, Happens, Result
    <2>2. /\ pc["java"] = "DisposeFree" /\ pc'["java"] = "Delete"
          /\ pc'["bus"] = pc["bus"] /\ pc'["pulse"] = pc["pulse"]
      BY <1>46 DEF DisposeFree, IInv, Control, Threads, Goto
    <2>3. Control'
      BY <1>46, <2>1, <2>2 DEF DisposeFree, IInv, Control, Threads, Goto, BusNested, BusHolds,
         Handling, Dispatching, Disposing, Unreffing
    <2>4. Counting'
      BY <1>46, <2>2 DEF DisposeFree, IInv, Counting, JavaRefs, BusRefs, Midway, refVars, Handling,
         Unreffing, Destroyed
    <2>5. Freeing'
      BY <1>46, <2>2 DEF DisposeFree, IInv, Freeing, refVars, Disposing, Unreffing, Destroyed
    <2>6. Ownership'
      BY <1>46, <2>2 DEF DisposeFree, IInv, Control, Counting, Freeing, Ownership, refVars, Handling,
         Dispatching, Disposing, Unreffing, Destroyed
    <2>7. HaltedForGood'
      BY <1>46, <2>2 DEF DisposeFree, IInv, HaltedForGood, NoGst, playerVars, Happens, Result,
         Disposing, Unreffing
    <2> QED BY <2>1, <2>3, <2>4, <2>5, <2>6, <2>7 DEF IInv
  <1>47. CASE Delete
    <2>1. GstOK(gst') /\ ret' = ret
      BY <1>47 DEF Delete, IInv, playerVars, NoGst, Happens, Result
    <2>2. /\ pc["java"] = "Delete" /\ pc'["java"] = "Gone"
          /\ pc'["bus"] = pc["bus"] /\ pc'["pulse"] = pc["pulse"]
      BY <1>47 DEF Delete, IInv, Control, Threads, Goto
    <2>3. Control'
      BY <1>47, <2>1, <2>2 DEF Delete, IInv, Control, Threads, Goto, BusNested, BusHolds, Handling,
         Dispatching, Disposing, Unreffing
    <2>4. Counting'
      BY <1>47, <2>2 DEF Delete, IInv, Counting, JavaRefs, BusRefs, Midway, refVars, Handling,
         Unreffing, Destroyed
    <2>5. Freeing'
      BY <1>47, <2>2 DEF Delete, IInv, Freeing, refVars, Disposing, Unreffing, Destroyed
    <2>6. Ownership'
      BY <1>47, <2>2 DEF Delete, IInv, Control, Counting, Freeing, Ownership, refVars, Handling,
         Dispatching, Disposing, Unreffing, Destroyed
    <2>7. HaltedForGood'
      BY <1>47, <2>2 DEF Delete, IInv, HaltedForGood, NoGst, playerVars, Happens, Result, Disposing,
         Unreffing
    <2> QED BY <2>1, <2>3, <2>4, <2>5, <2>6, <2>7 DEF IInv
  <1> QED
    BY <1>1, <1>2, <1>3, <1>4, <1>5, <1>6, <1>7, <1>8, <1>9, <1>10, <1>11, <1>12, <1>13, <1>14,
       <1>15, <1>16, <1>17, <1>18, <1>19, <1>20, <1>21, <1>22, <1>23, <1>24, <1>25, <1>26, <1>27,
       <1>28, <1>29, <1>30, <1>31, <1>32, <1>33, <1>34, <1>35, <1>36, <1>37, <1>38, <1>39, <1>40,
       <1>41, <1>42, <1>43, <1>44, <1>45, <1>46, <1>47
       DEF Next, Code, Pausing, JavaStep, BusStep, Pipeline
-----------------------------------------------------------------------------
(* The members of the player, the history and the bounds.                  *)
Typed ==
  /\ m \in Members /\ ended \in BOOLEAN /\ upset \in BOOLEAN /\ deleted \in BOOLEAN
  /\ attached \in BOOLEAN
  /\ bound \in [calls : 0..MaxCalls, progress : 0..MaxProgress, troubles : 0..MaxTroubles]

(* What a message carries.                                                 *)
LEMMA MessageFacts ==
  ASSUME NEW x \in Messages \cup {NoMessage}
  PROVE  /\ x.kind \in {"state", "eos", "error", "underrun", "buffering", "none"}
         /\ x.kind = "state" => x.old \in States /\ x.new \in States
         /\ x.kind = "buffering" => x.eos \in BOOLEAN
  BY DEF Messages, NoMessage

LEMMA ChangedFacts ==
  ASSUME NEW old \in States, NEW new \in States
  PROVE  /\ Changed(old, new) \in Messages /\ Says(Changed(old, new))
         /\ Changed(old, new).old = old /\ Changed(old, new).new = new
         /\ Plays(Changed(old, new)) <=> new = "PLAYING"
  BY DEF Changed, Messages, Says, Plays

(* The table of UpdatePlayerState yields members.                          *)
LEMMA UpdatedOK ==
  ASSUME NEW p \in Members, NEW old, NEW new
  PROVE  Updated(p, old, new) \in Members
  <1>1. ASSUME NEW s \in PlayerStates PROVE Becomes(p, s) \in Members /\ Settles(p, s) \in Members
    BY DEF Becomes, Settles, Members
  <1>2. ASSUME NEW q \in Members
        PROVE  [q EXCEPT !.stallOnPause = FALSE] \in Members /\ [q EXCEPT !.seekInvoked = FALSE] \in Members
    BY DEF Members
  <1>3. ASSUME NEW s \in PlayerStates PROVE PausedPlaying(p, s) \in Members
    BY <1>1, <1>2 DEF PausedPlaying, PlayerStates
  <1>4. p.pending \in PlayerStates
    BY DEF Members, PlayerStates
  <1> HIDE DEF Members, Becomes, Settles, PausedPlaying
  <1> QED BY <1>1, <1>2, <1>3, <1>4 DEF Updated, PlayerStates

(* What a change of the pipeline's state does to bounds and history.       *)
Bounds == [calls : 0..MaxCalls, progress : 0..MaxProgress, troubles : 0..MaxTroubles]

LEMMA TroubleOK ==
  ASSUME Typed, Trouble
  PROVE  bound' \in Bounds
  BY DEF Typed, Trouble, Bounds

LEMMA ChangeOK ==
  ASSUME Typed, NEW r, NEW holds, Change(r, holds)
  PROVE  ended' \in BOOLEAN /\ upset' \in BOOLEAN /\ bound' \in Bounds
  <1>1. bound' \in Bounds
    BY TroubleOK DEF Change, Typed, Bounds
  <1> QED BY <1>1 DEF Change, Happens

LEMMA DoPlayOK ==
  ASSUME Typed, NEW p \in Members, NEW holds, DoPlay(p, holds)
  PROVE  m' \in Members /\ ended' \in BOOLEAN /\ upset' \in BOOLEAN /\ bound' \in Bounds
  <1>1. m' \in Members
    BY ZenonT(60) DEF DoPlay, Members
  <1>2. ended' \in BOOLEAN /\ upset' \in BOOLEAN /\ bound' \in Bounds
    BY ChangeOK DEF DoPlay, Typed, Bounds
  <1> QED BY <1>1, <1>2

LEMMA SeekPipelineTyped ==
  ASSUME Typed, NEW l, SeekPipeline(l)
  PROVE  ended' \in BOOLEAN /\ upset' \in BOOLEAN /\ bound' \in Bounds
  <1>1. bound' \in Bounds
    BY TroubleOK DEF SeekPipeline, Typed, Bounds
  <1> QED BY <1>1 DEF SeekPipeline, Typed

(* Every step keeps them.                                                  *)
LEMMA TypedStep == IInv /\ Typed /\ Bus /\ [Next]_vars => Typed'
  <1> SUFFICES ASSUME IInv, Typed, Bus, [Next]_vars PROVE Typed'
    OBVIOUS
  <1>1. CASE Unpend
    BY <1>1 DEF Unpend, Typed, Members, NoGst, Unchanged, disposeVars, playerVars, Trouble
  <1>2. CASE PauseCall
    BY <1>2 DEF PauseCall, Typed, Members, NoGst, Unchanged, disposeVars, playerVars, Trouble
  <1>3. CASE PauseLock
    BY <1>3 DEF PauseLock, PlayerStates, Typed, Members, NoGst, Unchanged, disposeVars,
       playerVars, Trouble
  <1>4. CASE StopCall
    BY ZenonT(60), <1>4 DEF StopCall, Typed, Members, NoGst, Unchanged, disposeVars, playerVars, Trouble
  <1>5. CASE StopLock
    BY <1>5 DEF StopLock, Typed, Members, NoGst, Unchanged, disposeVars, playerVars, Trouble
  <1>6. CASE SeekCall
    BY <1>6 DEF SeekCall, Typed, Members, NoGst, Unchanged, disposeVars, playerVars, Trouble
  <1>7. CASE SeekFlush
    BY <1>7, SeekPipelineTyped DEF SeekFlush, Typed, Bounds, Unchanged, disposeVars
  <1>8. CASE SeekResume
    BY <1>8 DEF SeekResume, Typed, Members, NoGst, Unchanged, disposeVars, playerVars, Trouble
  <1>9. CASE SeekSet
    BY <1>9, ChangeOK DEF SeekSet, Typed, Bounds, Unchanged, disposeVars
  <1>10. CASE RateZeroCall
    BY <1>10 DEF RateZeroCall, Typed, Members, NoGst, Unchanged, disposeVars, playerVars,
       Trouble
  <1>11. CASE RateZeroSet
    BY <1>11 DEF RateZeroSet, Typed, Members, NoGst, Unchanged, disposeVars, playerVars, Trouble
  <1>12. CASE RateOneCall
    BY <1>12, SeekPipelineTyped DEF RateOneCall, Typed, Members, Bounds, NoGst, Unchanged,
       disposeVars
  <1>13. CASE \E c \in Calls : JavaCall(c)
    BY <1>13 DEF JavaCall, Typed, Members, NoGst, Unchanged, disposeVars, playerVars, Trouble
  <1>14. CASE PulseCall
    BY <1>14 DEF PulseCall, Typed, Members, NoGst, Unchanged, disposeVars, playerVars, Trouble
  <1>15. CASE FinishCall
    BY <1>15 DEF FinishCall, Typed, Members, NoGst, Unchanged, disposeVars, playerVars, Trouble
  <1>16. CASE \E t \in Threads : PlayTest(t)
    BY <1>16 DEF PlayTest, Typed, Members, NoGst, Unchanged, disposeVars, playerVars, Trouble
  <1>17. CASE \E t \in Threads : PlaySet(t)
    BY <1>17, DoPlayOK DEF PlaySet, Typed, Bounds, Unchanged, disposeVars
  <1>18. CASE \E t \in Threads : PauseTest(t)
    BY ZenonT(60), <1>18 DEF PauseTest, Typed, Members, NoGst, Unchanged, disposeVars, playerVars, Trouble
  <1>19. CASE \E t \in Threads : PauseSet(t)
    BY ZenonT(60), <1>19, ChangeOK DEF PauseSet, Typed, Members, Bounds, NoGst, Unchanged, disposeVars
  <1>20. CASE Preroll
    BY <1>20 DEF Preroll, Happens, Typed, Members, NoGst, Unchanged, disposeVars, playerVars,
       Trouble
  <1>21. CASE ContinueState
    BY <1>21 DEF ContinueState, Happens, Typed, Members, NoGst, Unchanged, disposeVars,
       playerVars, Trouble
  <1>22. CASE StreamEnds
    BY <1>22 DEF StreamEnds, Post, Typed, Members, NoGst, Unchanged, disposeVars, playerVars,
       Trouble
  <1>23. CASE StreamFails
    BY <1>23 DEF StreamFails, Post, Typed, Members, NoGst, Unchanged, disposeVars, playerVars,
       Trouble
  <1>24. CASE Download
    BY <1>24 DEF Download, Post, Typed, Members, NoGst, Unchanged, disposeVars, playerVars,
       Trouble
  <1>25. CASE Underrun
    BY <1>25 DEF Underrun, Post, Typed, Members, NoGst, Unchanged, disposeVars, playerVars,
       Trouble
  <1>26. CASE Dispatch
    BY <1>26 DEF Dispatch, Typed, Members, NoGst, Unchanged, disposeVars, playerVars, Trouble
  <1>27. CASE BusCallback
    BY <1>27 DEF BusCallback, Typed, Members, NoGst, Unchanged, disposeVars, playerVars, Trouble
  <1>28. CASE Unref
    BY <1>28, UnrefFacts DEF Typed
  <1>29. CASE OnState
    BY <1>29 DEF OnState, Typed, Members, NoGst, Unchanged, disposeVars, playerVars, Trouble
  <1>30. CASE UpdateBufferPosition
    BY <1>30 DEF UpdateBufferPosition, Typed, Members, NoGst, Unchanged, disposeVars,
       playerVars, Trouble
  <1>31. CASE OnBuffering
    BY <1>31, MessageFacts DEF OnBuffering, Typed, Members, NoGst, Unchanged, disposeVars,
       playerVars, Trouble, Bus
  <1>32. CASE UpdatePlayerState
    <2> DEFINE p == Updated(m, msg.old, msg.new)
    <2>1. p \in Members
      BY UpdatedOK DEF Typed
    <2> HIDE DEF p
    <2> QED BY <1>32, <2>1, DoPlayOK DEF p, UpdatePlayerState, Typed, Bounds, Unchanged, disposeVars
  <1>33. CASE OnEos
    BY <1>33 DEF OnEos, PlayerStates, Typed, Members, NoGst, Unchanged, disposeVars, playerVars,
       Trouble
  <1>34. CASE OnError
    BY ZenonT(60), <1>34 DEF OnError, Happens, Typed, Members, NoGst, Unchanged, disposeVars, playerVars,
       Trouble
  <1>35. CASE SetError
    BY <1>35 DEF SetError, PlayerStates, Typed, Members, NoGst, Unchanged, disposeVars,
       playerVars, Trouble
  <1>36. CASE OnUnderrun
    BY <1>36 DEF OnUnderrun, Typed, Members, NoGst, Unchanged, disposeVars, playerVars, Trouble
  <1>37. CASE Stall
    BY <1>37 DEF Stall, Typed, Members, NoGst, Unchanged, disposeVars, playerVars, Trouble
  <1>38. CASE DestroyNotify
    BY <1>38 DEF DestroyNotify, Typed, Members, NoGst, Unchanged, disposeVars, playerVars,
       Trouble
  <1>39. CASE NotifyFree
    BY <1>39 DEF NotifyFree, Typed, Members, NoGst, Unchanged, disposeVars, playerVars, Trouble
  <1>40. CASE Dispose
    BY <1>40 DEF Dispose, Typed, Members, NoGst, Unchanged, disposeVars, playerVars, Trouble
  <1>41. CASE DisposeNull
    BY <1>41 DEF DisposeNull, Happens, Typed, Members, NoGst, Unchanged, disposeVars,
       playerVars, Trouble
  <1>42. CASE DisposeLock
    BY <1>42 DEF DisposeLock, Typed, Members, NoGst, Unchanged, disposeVars, playerVars, Trouble
  <1>43. CASE DisposeDestroy
    BY ZenonT(60), <1>43 DEF DisposeDestroy, Typed, Members, NoGst, Unchanged, disposeVars, playerVars,
       Trouble
  <1>44. CASE DisposeEnd
    BY <1>44 DEF DisposeEnd, Typed, Members, NoGst, Unchanged, disposeVars, playerVars, Trouble
  <1>45. CASE DisposeFree
    BY <1>45 DEF DisposeFree, Typed, Members, NoGst, Unchanged, disposeVars, playerVars, Trouble
  <1>46. CASE Delete
    BY <1>46 DEF Delete, Typed, Members, NoGst, Unchanged, disposeVars, playerVars, Trouble
  <1>47. CASE UNCHANGED vars
    BY <1>47 DEF vars, playerVars, disposeVars, Typed, Members, NoGst, Unchanged, Trouble
  <1> QED
    BY <1>1, <1>2, <1>3, <1>4, <1>5, <1>6, <1>7, <1>8, <1>9, <1>10, <1>11, <1>12, <1>13, <1>14,
       <1>15, <1>16, <1>17, <1>18, <1>19, <1>20, <1>21, <1>22, <1>23, <1>24, <1>25, <1>26,
       <1>27, <1>28, <1>29, <1>30, <1>31, <1>32, <1>33, <1>34, <1>35, <1>36, <1>37, <1>38,
       <1>39, <1>40, <1>41, <1>42, <1>43, <1>44, <1>45, <1>46, <1>47
       DEF Next, Code, Pausing, JavaStep, BusStep, Pipeline
-----------------------------------------------------------------------------
(* The state a change begins with, and the outcomes of a change.           *)
Base(e, s) == IF e.pending # Void /\ Rank[e.next] > Rank[s] THEN e.next ELSE e.state

(* The states it may leave behind.                                         *)
Busy(e, s)    == [Aim(e, s) EXCEPT !.ret = "async"]
Stuck(e, s)   == [At(Aim(e, s), e.state) EXCEPT !.ret = "fail"]
Restart(e, s) == Towards([Aim(e, s) EXCEPT !.state = "READY"], "PAUSED")
There(e, s)   == At(Aim(e, s), s)
Pending(e, s) == Towards(Aim(e, s), "PAUSED")

LEMMA SetStateCases ==
  ASSUME NEW e, GstOK(e), NEW s \in {"PAUSED", "PLAYING"}, NEW b, NEW r \in SetState(e, s, b)
  PROVE  \/ r = Result(Busy(e, s), <<>>) /\ WasBusy(e, s)
         \/ r = Result(Stuck(e, s), <<>>)
         \/ /\ ~WasBusy(e, s) /\ Base(e, s) \in {"NULL", "READY"}
            /\ r = Result(Restart(e, s), <<>>)
         \/ ~WasBusy(e, s) /\ Base(e, s) = s /\ r = Result(There(e, s), <<>>)
         \/ /\ ~WasBusy(e, s) /\ Base(e, s) = "PAUSED" /\ s = "PLAYING"
            /\ r = Result(There(e, s), <<Changed("PAUSED", "PLAYING")>>)
         \/ /\ ~WasBusy(e, s) /\ Base(e, s) = "PLAYING" /\ s = "PAUSED"
            /\ \/ r = Result(There(e, s), <<Changed(e.state, "PAUSED")>>)
               \/ r = Result(Pending(e, s), <<>>)
  <1>1. e \in Elements /\ (e.pending # Void => e.next # Void)
    BY DEF GstOK
  <1>2. Base(e, s) \in States
    BY <1>1 DEF Base, Elements
  <1>3. Base(e, s) \in {"NULL", "READY"} <=> Rank[Base(e, s)] < Rank["PAUSED"]
    BY <1>2 DEF Rank, States
  <1>4. \/ Base(e, s) \in {"NULL", "READY"} \/ Base(e, s) = s
        \/ Base(e, s) = "PAUSED" /\ s = "PLAYING"
        \/ Base(e, s) = "PLAYING" /\ s = "PAUSED"
    BY <1>2 DEF States
  <1> DEFINE base == IF e.pending # Void /\ Rank[e.next] > Rank[s] THEN e.next ELSE e.state
  <1>5. base = Base(e, s)
    BY DEF Base
  <1> HIDE DEF base
  <1> QED BY <1>3, <1>4, <1>5 DEF SetState, base, Busy, Stuck, Restart, There, Pending

(* The fields of these states.                                             *)
LEMMA OutcomeFacts ==
  ASSUME NEW e \in Elements, NEW s \in States
  PROVE  /\ Busy(e, s).state = e.state /\ Busy(e, s).target = s /\ Busy(e, s).next = e.next
         /\ Busy(e, s).pending = s /\ (Busy(e, s).cont => e.cont /\ e.target = s)
         /\ Stuck(e, s).state = e.state /\ Stuck(e, s).next = Void /\ Stuck(e, s).pending = Void
         /\ ~Stuck(e, s).cont /\ Stuck(e, s).ret = "fail"
         /\ Restart(e, s).state = "READY" /\ Restart(e, s).next = "PAUSED"
         /\ There(e, s).state = s /\ There(e, s).target = s /\ There(e, s).next = Void
         /\ There(e, s).pending = Void /\ ~There(e, s).cont
         /\ Pending(e, s).state = e.state /\ Pending(e, s).target = s /\ Pending(e, s).pending = s
         /\ Pending(e, s).next = "PAUSED" /\ ~Pending(e, s).cont
  <1>1. /\ Busy(e, s).state = e.state /\ Busy(e, s).target = s /\ Busy(e, s).next = e.next
        /\ Busy(e, s).pending = s /\ (Busy(e, s).cont => e.cont /\ e.target = s)
    BY DEF Busy, Aim, Elements
  <1>2. /\ Stuck(e, s).state = e.state /\ Stuck(e, s).next = Void /\ Stuck(e, s).pending = Void
        /\ ~Stuck(e, s).cont /\ Stuck(e, s).ret = "fail"
    BY DEF Stuck, At, Aim, Elements
  <1>3. Restart(e, s).state = "READY" /\ Restart(e, s).next = "PAUSED"
    BY DEF Restart, Towards, Aim, Elements
  <1>4. /\ There(e, s).state = s /\ There(e, s).target = s /\ There(e, s).next = Void
        /\ There(e, s).pending = Void /\ ~There(e, s).cont
    BY DEF There, At, Aim, Elements
  <1>5. /\ Pending(e, s).state = e.state /\ Pending(e, s).target = s /\ Pending(e, s).pending = s
        /\ Pending(e, s).next = "PAUSED" /\ ~Pending(e, s).cont
    BY DEF Pending, Towards, Aim, Elements
  <1> QED BY <1>1, <1>2, <1>3, <1>4, <1>5

(* What the messages that come with a change say of it.                    *)
Flow(e, r) ==
  \/ r.posts = <<>> /\ (r.gst.state = "PLAYING" => e.state = "PLAYING")
  \/ r.posts = <<Changed("PAUSED", "PLAYING")>> /\ r.gst.state = "PLAYING"
  \/ \E old \in States, new \in States \ {"PLAYING"} :
        r.posts = <<Changed(old, new)>> /\ r.gst.state # "PLAYING"

(* The outcome of a change that does not fail, of a pipeline not halted.   *)
Asked(e, s, r) ==
  /\ r.gst.target = s /\ Aligned(r.gst) /\ r.gst.state \in {"PAUSED", "PLAYING"}
  /\ s = "PAUSED" =>
       \/ /\ r.posts = <<>> /\ r.gst.state = e.state
          /\ r.gst.pending # Void \/ (e.pending = Void /\ e.state = "PAUSED")
       \/ r.posts = <<Changed(e.state, "PAUSED")>> /\ r.gst.state = "PAUSED"

LEMMA SetStateFlow ==
  ASSUME NEW e, GstOK(e), AtNull(e), NEW s \in {"PAUSED", "PLAYING"}, NEW b, NEW r \in SetState(e, s, b)
  PROVE  Flow(e, r) /\ AtNull(r.gst)
  <1>1. e \in Elements /\ s \in States /\ e.state \in States /\ "PAUSED" \in States
    BY DEF GstOK, Elements, States
  <1>2. CASE r = Result(Busy(e, s), <<>>) /\ WasBusy(e, s)
    BY <1>1, <1>2, OutcomeFacts DEF Result, Flow, AtNull, WasBusy
  <1>3. CASE r = Result(Stuck(e, s), <<>>)
    BY <1>1, <1>3, OutcomeFacts DEF Result, Flow, AtNull
  <1>4. CASE r = Result(Restart(e, s), <<>>)
    BY <1>1, <1>4, OutcomeFacts DEF Result, Flow, AtNull
  <1>5. CASE Base(e, s) = s /\ r = Result(There(e, s), <<>>)
    <2>1. s = "PLAYING" => e.state = "PLAYING"
      BY <1>1, <1>5 DEF Base, GstOK, Elements, States, Rank
    <2> QED BY <1>1, <1>5, <2>1, OutcomeFacts DEF Result, Flow, AtNull
  <1>6. CASE s = "PLAYING" /\ r = Result(There(e, s), <<Changed("PAUSED", "PLAYING")>>)
    BY <1>1, <1>6, OutcomeFacts DEF Result, Flow, AtNull
  <1>7. CASE s = "PAUSED" /\ r = Result(There(e, s), <<Changed(e.state, "PAUSED")>>)
    <2>1. r.posts = <<Changed(e.state, "PAUSED")>> /\ r.gst.state = "PAUSED" /\ AtNull(r.gst)
      BY <1>1, <1>7, OutcomeFacts DEF Result, AtNull
    <2>2. "PAUSED" \in States \ {"PLAYING"}
      BY DEF States
    <2> QED BY <1>1, <2>1, <2>2 DEF Flow
  <1>8. CASE Base(e, s) = "PLAYING" /\ r = Result(Pending(e, s), <<>>)
    <2>1. e.state # "NULL"
      BY <1>8 DEF Base, AtNull
    <2> QED BY <1>1, <1>8, <2>1, OutcomeFacts DEF Result, Flow, AtNull
  <1> QED BY <1>2, <1>3, <1>4, <1>5, <1>6, <1>7, <1>8, SetStateCases

LEMMA SetStateAsked ==
  ASSUME NEW e, GstOK(e), AtNull(e), Aligned(e), e.state \in {"PAUSED", "PLAYING"},
         NEW s \in {"PAUSED", "PLAYING"}, NEW b, NEW r \in SetState(e, s, b), ~Failed(r)
  PROVE  Asked(e, s, r)
  <1>1. e \in Elements /\ s \in States /\ e.state \in States /\ s # Void
    BY DEF GstOK, Elements, States, Void
  <1>2. CASE r = Result(Busy(e, s), <<>>) /\ WasBusy(e, s)
    <2> DEFINE a == Busy(e, s)
    <2>1. /\ a.state = e.state /\ a.target = s /\ a.next = e.next /\ a.pending = s
          /\ (a.cont => e.cont /\ e.target = s)
      BY <1>1, OutcomeFacts
    <2> HIDE DEF a
    <2>2. e.pending # Void /\ (e.next = "PLAYING" => s = "PLAYING")
      BY <1>1, <1>2 DEF WasBusy, Aligned, Rank, States
    <2>3. Aligned(a)
      BY <1>1, <2>1, <2>2 DEF Aligned
    <2>4. r.gst = a /\ r.posts = <<>>
      BY <1>2 DEF Result, a
    <2> QED BY <1>1, <2>1, <2>3, <2>4 DEF Asked
  <1>3. CASE r = Result(Stuck(e, s), <<>>)
    BY <1>1, <1>3, OutcomeFacts DEF Result, Failed
  <1>4. CASE Base(e, s) \in {"NULL", "READY"}
    BY <1>4 DEF Base, AtNull, Void, Rank
  <1>5. CASE /\ Base(e, s) = s /\ ~WasBusy(e, s)
             /\ r = Result(There(e, s), <<>>)
    <2>1. e.state = s /\ (s = "PAUSED" => e.pending = Void)
      BY <1>1, <1>5 DEF Base, WasBusy, AtNull, Aligned, GstOK, Elements, States, Rank
    <2> QED BY <1>1, <1>5, <2>1, OutcomeFacts DEF Result, Asked, Aligned
  <1>6. CASE s = "PLAYING" /\ r = Result(There(e, s), <<Changed("PAUSED", "PLAYING")>>)
    BY <1>1, <1>6, OutcomeFacts DEF Result, Asked, Aligned
  <1>7. CASE s = "PAUSED" /\ r = Result(There(e, s), <<Changed(e.state, "PAUSED")>>)
    BY <1>1, <1>7, OutcomeFacts DEF Result, Asked, Aligned
  <1>8. CASE s = "PAUSED" /\ r = Result(Pending(e, s), <<>>)
    BY <1>1, <1>8, OutcomeFacts DEF Result, Asked, Aligned
  <1> QED BY <1>2, <1>3, <1>4, <1>5, <1>6, <1>7, <1>8, SetStateCases

(* The end of prerolling, which repeats PAUSED, or goes on to PLAYING.     *)
LEMMA AsyncDoneFlow ==
  ASSUME NEW e, GstOK(e), AtNull(e), e.pending # Void
  PROVE  /\ Flow(e, AsyncDone(e)) /\ AtNull(AsyncDone(e).gst)
         /\ Aligned(e) =>
              /\ Aligned(AsyncDone(e).gst) /\ AsyncDone(e).gst.target = e.target
              /\ AsyncDone(e).gst.state \in {"PAUSED", e.state}
              /\ e.target = "PAUSED" => /\ AsyncDone(e).posts = <<Changed(e.state, "PAUSED")>>
                                        /\ AsyncDone(e).gst = At(e, "PAUSED")
  <1> DEFINE s == IF e.next = "PLAYING" THEN e.state ELSE e.next
             p == IF e.next = "PLAYING" THEN <<>> ELSE <<Changed(e.state, e.next)>>
             c == [e EXCEPT !.state = s, !.next = "PLAYING", !.pending = e.target, !.cont = TRUE]
  <1>1. /\ e \in Elements /\ e.state \in States \ {"NULL"} /\ e.next \in {"PAUSED", "PLAYING"}
        /\ s \in States \ {"NULL"} /\ (e.next # "PLAYING" => s = "PAUSED")
    BY DEF GstOK, Elements, States, AtNull, Void
  <1>2. /\ c.state = s /\ c.next = "PLAYING" /\ c.pending = e.target /\ c.cont = TRUE /\ c.target = e.target
    BY <1>1 DEF Elements
  <1>3. /\ At(e, s).state = s /\ At(e, s).target = e.target /\ At(e, s).next = Void
        /\ At(e, s).pending = Void /\ At(e, s).cont = FALSE
    BY <1>1 DEF At, Elements
  <1>4. AsyncDone(e) = IF e.target = s THEN Result(At(e, s), p) ELSE Result(c, <<>>)
    BY DEF AsyncDone
  <1>5. "PAUSED" \in States \ {"PLAYING"} /\ e.target \in States /\ e.target # Void
    BY <1>1 DEF States, Elements, Void
  <1> HIDE DEF c
  <1>6. CASE e.target = s
    BY <1>1, <1>3, <1>4, <1>5, <1>6 DEF Result, Flow, AtNull, Aligned
  <1>7. CASE e.target # s
    BY <1>1, <1>2, <1>4, <1>5, <1>7 DEF Result, Flow, AtNull, Aligned
  <1> QED BY <1>6, <1>7

LEMMA ContinueFlow ==
  ASSUME NEW e, GstOK(e)
  PROVE  /\ Continue(e).posts = <<Changed("PAUSED", "PLAYING")>>
         /\ Continue(e).gst.state = "PLAYING" /\ Continue(e).gst.target = e.target
         /\ Flow(e, Continue(e)) /\ AtNull(Continue(e).gst)
         /\ Aligned(e) /\ e.cont => Aligned(Continue(e).gst)
  <1>1. /\ At(e, "PLAYING").state = "PLAYING" /\ At(e, "PLAYING").target = e.target
        /\ At(e, "PLAYING").next = Void /\ At(e, "PLAYING").pending = Void
        /\ At(e, "PLAYING").cont = FALSE
    BY DEF At, GstOK, Elements
  <1> QED BY <1>1 DEF Continue, Result, Flow, AtNull, Aligned

(* A flushing seek of a pipeline that is at least in PAUSED.               *)
LEMMA LoseStateFlow ==
  ASSUME NEW e, GstOK(e), AtNull(e), Rank[e.state] >= Rank["PAUSED"]
  PROVE  /\ AtNull(LoseState(e)) /\ LoseState(e).target = e.target
         /\ LoseState(e).state \in {"PAUSED", e.state} /\ e.state \in {"PAUSED", "PLAYING"}
         /\ Aligned(e) => Aligned(LoseState(e))
         /\ e.pending # Void => LoseState(e).state = e.state /\ LoseState(e).pending # Void
         /\ LoseState(e) = e \/ LoseState(e).pending # Void
  <1>1. e \in Elements /\ e.state \in {"PAUSED", "PLAYING"}
    BY DEF GstOK, Elements, States, Rank
  <1>2. ASSUME NEW a, a = [e EXCEPT !.cont = FALSE]
        PROVE  /\ a.state = e.state /\ a.next = e.next /\ a.pending = e.pending
               /\ a.target = e.target /\ a.cont = FALSE
    BY <1>1, <1>2 DEF Elements
  <1>3. ASSUME NEW a, a = Towards([e EXCEPT !.state = "PAUSED", !.pending = "PAUSED"], "PAUSED")
        PROVE  /\ a.state = "PAUSED" /\ a.next = "PAUSED" /\ a.pending = "PAUSED"
               /\ a.target = e.target /\ a.cont = FALSE
    BY <1>1, <1>3 DEF Towards, Elements
  <1>4. (IF e.state = "PLAYING" THEN "PAUSED" ELSE e.state) = "PAUSED"
    BY <1>1
  <1>5. CASE e.ret = "fail"
    BY <1>1, <1>5 DEF LoseState
  <1>6. CASE e.ret # "fail" /\ e.pending # Void
    <2>1. LoseState(e) = [e EXCEPT !.cont = FALSE]
      BY <1>6 DEF LoseState
    <2> QED BY <1>1, <1>2, <1>6, <2>1 DEF AtNull, Aligned
  <1>7. CASE e.ret # "fail" /\ e.pending = Void
    <2>1. LoseState(e) = Towards([e EXCEPT !.state = "PAUSED", !.pending = "PAUSED"], "PAUSED")
      BY <1>4, <1>7 DEF LoseState
    <2> QED BY <1>1, <1>3, <1>7, <2>1 DEF AtNull, Aligned, Void
  <1> QED BY <1>5, <1>6, <1>7
-----------------------------------------------------------------------------
(* What a message more, or the first one less, means for Live and LastOf.    *)
LEMMA AppendFacts ==
  ASSUME NEW q \in Seq(Messages), NEW x \in Messages
  PROVE  /\ Append(q, x) \in Seq(Messages) /\ Len(Append(q, x)) = Len(q) + 1 /\ q \o <<x>> = Append(q, x)
         /\ Append(q, x)[Len(q) + 1] = x /\ \A i \in 1..Len(q) : Append(q, x)[i] = q[i]
         /\ Len(q) \in Nat
  OBVIOUS

LEMMA TailFacts ==
  ASSUME NEW q \in Seq(Messages), q # <<>>
  PROVE  /\ Tail(q) \in Seq(Messages) /\ Len(Tail(q)) = Len(q) - 1 /\ Head(q) = q[1] /\ Head(q) \in Messages
         /\ \A i \in 1..(Len(q) - 1) : Tail(q)[i] = q[i + 1]
         /\ Len(q) \in Nat \ {0}
  OBVIOUS

LEMMA LiveAppend ==
  ASSUME NEW q \in Seq(Messages), NEW x \in Messages, NEW b \in BOOLEAN, NEW n \in 0..Len(q)
  PROVE  /\ Live(q, b, n) => Live(Append(q, x), b, n)
         /\ ~Says(x) /\ Live(q, b, Len(q)) => Live(Append(q, x), b, Len(q) + 1)
         /\ Plays(x) => Live(Append(q, x), b, Len(q) + 1)
  <1> DEFINE a == Append(q, x)
  <1>1. a[Len(q) + 1] = x /\ Len(q) \in Nat /\ \A i \in 1..Len(q) : a[i] = q[i]
    BY AppendFacts
  <1> HIDE DEF a
  <1>2. ASSUME Live(q, b, n) PROVE Live(a, b, n)
    <2>1. ASSUME NEW i \in 1..n, Plays(q[i]), \A j \in (i + 1)..n : ~Says(q[j])
          PROVE  Live(a, b, n)
      <3>1. Plays(a[i])
        BY <1>1, <2>1
      <3>2. \A j \in (i + 1)..n : ~Says(a[j])
        BY <1>1, <2>1
      <3> QED BY <3>1, <3>2 DEF Live
    <2>2. ASSUME b, \A j \in 1..n : ~Says(q[j])
          PROVE  Live(a, b, n)
      <3>1. \A j \in 1..n : ~Says(a[j])
        BY <1>1, <2>2
      <3> QED BY <2>2, <3>1 DEF Live
    <2> QED BY <1>2, <2>1, <2>2 DEF Live
  <1>3. ASSUME ~Says(x), Live(q, b, Len(q)) PROVE Live(a, b, Len(q) + 1)
    <2>1. ASSUME NEW i \in 1..Len(q), Plays(q[i]), \A j \in (i + 1)..Len(q) : ~Says(q[j])
          PROVE  Live(a, b, Len(q) + 1)
      <3>1. i \in 1..(Len(q) + 1) /\ Plays(a[i])
        BY <1>1, <2>1
      <3>2. \A j \in (i + 1)..(Len(q) + 1) : ~Says(a[j])
        BY <1>1, <1>3, <2>1
      <3> QED BY <3>1, <3>2 DEF Live
    <2>2. ASSUME b, \A j \in 1..Len(q) : ~Says(q[j])
          PROVE  Live(a, b, Len(q) + 1)
      <3>1. \A j \in 1..(Len(q) + 1) : ~Says(a[j])
        BY <1>1, <1>3, <2>2
      <3> QED BY <2>2, <3>1 DEF Live
    <2> QED BY <1>3, <2>1, <2>2 DEF Live
  <1>4. ASSUME Plays(x) PROVE Live(a, b, Len(q) + 1)
    <2>1. Len(q) + 1 \in 1..(Len(q) + 1) /\ Plays(a[Len(q) + 1])
      BY <1>1, <1>4
    <2>2. \A j \in (Len(q) + 1 + 1)..(Len(q) + 1) : ~Says(a[j])
      BY <1>1
    <2> QED BY <2>1, <2>2 DEF Live
  <1> QED BY <1>2, <1>3, <1>4 DEF a

LEMMA LiveTail ==
  ASSUME NEW q \in Seq(Messages), q # <<>>, NEW b \in BOOLEAN, NEW c \in BOOLEAN, NEW n \in 1..Len(q),
         Live(q, b, n), Plays(Head(q)) => c, b /\ ~Says(Head(q)) => c
  PROVE  Live(Tail(q), c, n - 1)
  <1> DEFINE a == Tail(q)
  <1>1. /\ Head(q) = q[1] /\ Len(q) \in Nat \ {0} /\ \A i \in 1..(Len(q) - 1) : a[i] = q[i + 1]
    BY TailFacts
  <1> HIDE DEF a
  <1>2. ASSUME NEW i \in 1..n, Plays(q[i]), \A j \in (i + 1)..n : ~Says(q[j])
        PROVE  Live(a, c, n - 1)
    <2>1. ASSUME i = 1 PROVE Live(a, c, n - 1)
      <3>1. c
        BY <1>1, <1>2, <2>1
      <3>2. \A j \in 1..(n - 1) : ~Says(a[j])
        BY SMTT(40), <1>1, <1>2, <2>1
      <3> QED BY <3>1, <3>2 DEF Live
    <2>2. ASSUME i # 1 PROVE Live(a, c, n - 1)
      <3>1. i - 1 \in 1..(n - 1) /\ Plays(a[i - 1])
        BY <1>1, <1>2, <2>2
      <3>2. \A j \in (i - 1 + 1)..(n - 1) : ~Says(a[j])
        BY <1>1, <1>2, <2>2
      <3> QED BY <3>1, <3>2 DEF Live
    <2> QED BY <2>1, <2>2
  <1>3. ASSUME b, \A j \in 1..n : ~Says(q[j])
        PROVE  Live(a, c, n - 1)
    <2>1. c /\ \A j \in 1..(n - 1) : ~Says(a[j])
      BY <1>1, <1>3
    <2> QED BY <2>1 DEF Live
  <1> QED BY <1>2, <1>3 DEF Live, a

LEMMA LiveWeaker ==
  ASSUME NEW q, NEW n, NEW b \in BOOLEAN, NEW c \in BOOLEAN, b => c, Live(q, b, n)
  PROVE  Live(q, c, n)
  BY DEF Live

LEMMA LastAppend ==
  ASSUME NEW q \in Seq(Messages), NEW x \in Messages, NEW b \in BOOLEAN, NEW y
  PROVE  /\ ~Plays(x) /\ LastOf(q, b, y) => LastOf(Append(q, x), b, y)
         /\ LastOf(Append(q, x), b, x)
  <1> DEFINE a == Append(q, x)
  <1>1. /\ a[Len(q) + 1] = x /\ Len(q) \in Nat /\ Len(a) = Len(q) + 1
        /\ \A i \in 1..Len(q) : a[i] = q[i]
    BY AppendFacts
  <1> HIDE DEF a
  <1>2. ASSUME ~Plays(x), LastOf(q, b, y) PROVE LastOf(a, b, y)
    <2>1. ASSUME NEW i \in 1..Len(q), q[i] = y, \A j \in (i + 1)..Len(q) : ~Plays(q[j])
          PROVE  LastOf(a, b, y)
      <3>1. i \in 1..Len(a) /\ a[i] = y
        BY <1>1, <2>1
      <3>2. \A j \in (i + 1)..Len(a) : ~Plays(a[j])
        BY <1>1, <1>2, <2>1
      <3> QED BY <3>1, <3>2 DEF LastOf
    <2>2. ASSUME b, \A j \in 1..Len(q) : ~Plays(q[j])
          PROVE  LastOf(a, b, y)
      <3>1. \A j \in 1..Len(a) : ~Plays(a[j])
        BY <1>1, <1>2, <2>2
      <3> QED BY <2>2, <3>1 DEF LastOf
    <2> QED BY <1>2, <2>1, <2>2 DEF LastOf
  <1>3. LastOf(a, b, x)
    <2>1. Len(q) + 1 \in 1..Len(a) /\ a[Len(q) + 1] = x
      BY <1>1
    <2>2. \A j \in (Len(q) + 1 + 1)..Len(a) : ~Plays(a[j])
      BY <1>1
    <2> QED BY <2>1, <2>2 DEF LastOf
  <1> QED BY <1>2, <1>3 DEF a

LEMMA LastTail ==
  ASSUME NEW q \in Seq(Messages), q # <<>>, NEW b \in BOOLEAN, NEW c \in BOOLEAN, NEW y,
         LastOf(q, b, y), Head(q) = y => c, b /\ ~Plays(Head(q)) => c
  PROVE  LastOf(Tail(q), c, y)
  <1> DEFINE a == Tail(q)
  <1>1. /\ Head(q) = q[1] /\ Len(q) \in Nat \ {0} /\ Len(a) = Len(q) - 1
        /\ \A i \in 1..(Len(q) - 1) : a[i] = q[i + 1]
    BY TailFacts
  <1> HIDE DEF a
  <1>2. ASSUME NEW i \in 1..Len(q), q[i] = y, \A j \in (i + 1)..Len(q) : ~Plays(q[j])
        PROVE  LastOf(a, c, y)
    <2>1. ASSUME i = 1 PROVE LastOf(a, c, y)
      <3>1. c
        BY <1>1, <1>2, <2>1
      <3>2. \A j \in 1..Len(a) : ~Plays(a[j])
        BY <1>1, <1>2, <2>1
      <3> QED BY <3>1, <3>2 DEF LastOf
    <2>2. ASSUME i # 1 PROVE LastOf(a, c, y)
      <3>1. i - 1 \in 1..Len(a) /\ a[i - 1] = y
        BY <1>1, <1>2, <2>2
      <3>2. \A j \in (i - 1 + 1)..Len(a) : ~Plays(a[j])
        BY <1>1, <1>2, <2>2
      <3> QED BY <3>1, <3>2 DEF LastOf
    <2> QED BY <2>1, <2>2
  <1>3. ASSUME b, \A j \in 1..Len(q) : ~Plays(q[j])
        PROVE  LastOf(a, c, y)
    <2>1. c /\ \A j \in 1..Len(a) : ~Plays(a[j])
      BY SMTT(40), <1>1, <1>3
    <2> QED BY <2>1 DEF LastOf
  <1> QED BY <1>2, <1>3 DEF LastOf, a

LEMMA LastWeaker ==
  ASSUME NEW q, NEW y, NEW b \in BOOLEAN, NEW c \in BOOLEAN, b => c, LastOf(q, b, y)
  PROVE  LastOf(q, c, y)
  BY DEF LastOf
-----------------------------------------------------------------------------
(* What a step other than a dispatch does to the pipeline and its bus: the *)
(* bus is emptied, gets one message, or stays; and what that says of       *)
(* PLAYING.                                                                *)
Posted(x) ==
  /\ x \in Messages /\ queue' = Append(queue, x) /\ gst'.state # "NULL"
  /\ Plays(x) => x.old = "PAUSED"
  /\ Says(x) => (gst'.state = "PLAYING" => Plays(x))
  /\ ~Says(x) => gst'.state = gst.state
  /\ x.kind = "eos" => gst.state = "PLAYING"

Moves ==
  /\ AtNull(gst')
  /\ \/ queue' = queue /\ (gst'.state \in {"PLAYING", "NULL"} => gst.state = gst'.state)
     \/ queue' = <<>> /\ gst'.state # "PLAYING"
     \/ \E x : Posted(x)

LEMMA QuietMoves ==
  ASSUME Resting, UNCHANGED <<gst, queue>>
  PROVE  Moves
  BY DEF Resting, AtNull, Moves

LEMMA HappensMoves ==
  ASSUME Bus, NEW r, Flow(gst, r), AtNull(r.gst), Happens(r)
  PROVE  Moves
  <1>1. gst' = r.gst /\ queue' = (IF r.gst.state = "NULL" THEN <<>> ELSE queue \o r.posts) /\ queue \in Seq(Messages)
    BY DEF Happens, Bus
  <1>2. CASE r.gst.state = "NULL"
    BY <1>1, <1>2 DEF Moves
  <1>3. CASE r.gst.state # "NULL" /\ r.posts = <<>> /\ (r.gst.state = "PLAYING" => gst.state = "PLAYING")
    <2>1. queue' = queue
      BY <1>1, <1>3
    <2> QED BY <1>1, <1>3, <2>1 DEF Moves
  <1>4. CASE r.gst.state = "PLAYING" /\ r.posts = <<Changed("PAUSED", "PLAYING")>>
    <2> DEFINE x == Changed("PAUSED", "PLAYING")
    <2>1. x \in Messages /\ Says(x) /\ Plays(x) /\ x.old = "PAUSED"
      BY ChangedFacts DEF States
    <2>2. queue' = Append(queue, x)
      BY <1>1, <1>4, <2>1, AppendFacts
    <2>3. x.kind # "eos"
      BY <2>1 DEF Says
    <2> HIDE DEF x
    <2> QED BY <1>1, <1>4, <2>1, <2>2, <2>3 DEF Moves, Posted
  <1>5. CASE r.gst.state \notin {"NULL", "PLAYING"} /\ \E old \in States, new \in States \ {"PLAYING"} : r.posts = <<Changed(old, new)>>
    <2>1. PICK old \in States, new \in States \ {"PLAYING"} : r.posts = <<Changed(old, new)>>
      BY <1>5
    <2> DEFINE x == Changed(old, new)
    <2>2. x \in Messages /\ Says(x) /\ ~Plays(x)
      BY ChangedFacts
    <2>3. queue' = Append(queue, x)
      BY <1>1, <1>5, <2>1, <2>2, AppendFacts
    <2>4. x.kind # "eos"
      BY <2>2 DEF Says
    <2> HIDE DEF x
    <2> QED BY <1>1, <1>5, <2>2, <2>3, <2>4 DEF Moves, Posted
  <1> QED BY <1>2, <1>3, <1>4, <1>5 DEF Flow

LEMMA SetStateMoves ==
  ASSUME IInv, Bus, Resting, NEW s \in {"PAUSED", "PLAYING"}, NEW b, NEW r \in SetState(gst, s, b), NEW holds,
         Change(r, holds)
  PROVE  Moves
  <1>1. GstOK(gst) /\ AtNull(gst) /\ Happens(r)
    BY DEF IInv, Resting, Change
  <1> QED BY <1>1, SetStateFlow, HappensMoves

LEMMA DoPlayMoves ==
  ASSUME IInv, Bus, Resting, NEW p, NEW holds, DoPlay(p, holds)
  PROVE  Moves
  BY QuietMoves, SetStateMoves DEF DoPlay

LEMMA HaltedMoves ==
  ASSUME IInv, Happens(Result(Halted(gst), <<>>))
  PROVE  Moves
  <1>1. gst' = Halted(gst) /\ gst \in Elements
    BY DEF Happens, Result, IInv, GstOK
  <1>2. gst'.state = "NULL" /\ gst'.pending = Void /\ ~gst'.cont /\ gst'.next = Void
    BY <1>1 DEF Halted, At, Elements
  <1>3. queue' = <<>>
    BY <1>1, <1>2 DEF Happens, Result
  <1> QED BY <1>2, <1>3 DEF Moves, AtNull

LEMMA PostMoves ==
  ASSUME Resting, NEW x \in Messages, ~Says(x), Post(x), gst' = gst, x.kind = "eos" => gst.state = "PLAYING"
  PROVE  Moves
  <1>1. Posted(x)
    BY DEF Posted, Post, Plays
  <1> QED BY <1>1 DEF Moves, Resting

LEMMA SeekMoves ==
  ASSUME IInv, Resting, NEW l, SeekPipeline(l)
  PROVE  Moves
  <1>1. CASE Rank[gst.state] >= Rank["PAUSED"] /\ gst' = LoseState(gst) /\ queue' = queue
    <2>1. AtNull(gst') /\ gst'.state \in {"PAUSED", gst.state}
      BY <1>1, LoseStateFlow DEF IInv, Resting
    <2> QED BY <1>1, <2>1 DEF Moves
  <1> QED BY <1>1, QuietMoves DEF SeekPipeline

LEMMA MovesStep ==
  ASSUME IInv, Bus, Resting, [Next]_vars, ~Dispatch
  PROVE  Moves
  <1>1. CASE SeekFlush
    BY <1>1, SeekMoves DEF SeekFlush
  <1>2. CASE SeekSet
    BY <1>2, SetStateMoves DEF SeekSet
  <1>3. CASE RateOneCall
    BY <1>3, SeekMoves, QuietMoves DEF RateOneCall, NoGst
  <1>4. CASE \E t \in Threads : PlaySet(t)
    BY <1>4, DoPlayMoves DEF PlaySet
  <1>5. CASE \E t \in Threads : PauseSet(t)
    BY <1>5, SetStateMoves, QuietMoves DEF PauseSet, NoGst
  <1>6. CASE Preroll
    BY <1>6, AsyncDoneFlow, HappensMoves DEF Preroll, IInv, Resting
  <1>7. CASE ContinueState
    BY <1>7, ContinueFlow, HappensMoves DEF ContinueState, IInv
  <1>8. CASE StreamEnds
    <2> DEFINE x == [kind |-> "eos"]
    <2>1. x \in Messages /\ ~Says(x) /\ (x.kind = "eos" => gst.state = "PLAYING")
      BY <1>8 DEF StreamEnds, Messages, Says
    <2>2. Post(x) /\ gst' = gst
      BY <1>8 DEF StreamEnds, x
    <2> HIDE DEF x
    <2> QED BY <2>1, <2>2, PostMoves
  <1>9. CASE StreamFails
    <2> DEFINE x == [kind |-> "error"]
    <2>1. x \in Messages /\ ~Says(x) /\ (x.kind = "eos" => gst.state = "PLAYING")
      BY <1>9 DEF StreamFails, Messages, Says
    <2>2. Post(x) /\ gst' = gst
      BY <1>9 DEF StreamFails, x
    <2> HIDE DEF x
    <2> QED BY <2>1, <2>2, PostMoves
  <1>10. CASE Download
    <2>1. PICK enough \in BOOLEAN : Post([kind |-> "buffering", eos |-> bound.progress = 1, enough |-> enough])
      BY <1>10 DEF Download
    <2> DEFINE x == [kind |-> "buffering", eos |-> bound.progress = 1, enough |-> enough]
    <2>2. x \in Messages /\ ~Says(x) /\ x.kind # "eos"
      BY DEF Messages, Says
    <2>3. Post(x) /\ gst' = gst
      BY <1>10, <2>1 DEF Download, x
    <2> HIDE DEF x
    <2> QED BY <2>2, <2>3, PostMoves
  <1>11. CASE Underrun
    <2> DEFINE x == [kind |-> "underrun"]
    <2>1. x \in Messages /\ ~Says(x) /\ (x.kind = "eos" => gst.state = "PLAYING")
      BY <1>11 DEF Underrun, Messages, Says
    <2>2. Post(x) /\ gst' = gst
      BY <1>11 DEF Underrun, x
    <2> HIDE DEF x
    <2> QED BY <2>1, <2>2, PostMoves
  <1>12. CASE UpdatePlayerState
    BY <1>12, DoPlayMoves, QuietMoves DEF UpdatePlayerState
  <1>13. CASE OnError
    BY <1>13, HaltedMoves, QuietMoves DEF OnError, NoGst
  <1>14. CASE DisposeNull
    BY <1>14, HaltedMoves DEF DisposeNull
  <1>15. CASE \/ Unpend \/ PauseCall \/ PauseLock \/ StopCall \/ StopLock \/ SeekCall \/ SeekResume
              \/ RateZeroCall \/ RateZeroSet \/ (\E c \in Calls : JavaCall(c)) \/ PulseCall
              \/ FinishCall \/ (\E t \in Threads : PlayTest(t)) \/ (\E t \in Threads : PauseTest(t))
              \/ BusCallback \/ Unref \/ OnState \/ UpdateBufferPosition \/ OnBuffering \/ OnEos
              \/ SetError \/ OnUnderrun \/ Stall \/ DestroyNotify \/ NotifyFree \/ Dispose
              \/ DisposeLock \/ DisposeDestroy \/ DisposeEnd \/ DisposeFree \/ Delete
              \/ UNCHANGED vars
    <2>1. UNCHANGED <<gst, queue>>
      BY <1>15, UnrefFacts DEF Unpend, PauseCall, PauseLock, StopCall, StopLock, SeekCall, SeekResume,
         RateZeroCall, RateZeroSet, JavaCall, PulseCall, FinishCall, PlayTest, PauseTest,
         BusCallback, OnState, UpdateBufferPosition, OnBuffering, OnEos, SetError,
         OnUnderrun, Stall, DestroyNotify, NotifyFree, Dispose, DisposeLock, DisposeDestroy,
         DisposeEnd, DisposeFree, Delete, NoGst, playerVars, vars, Unreffing
    <2> QED BY <2>1, QuietMoves
  <1> QED
    BY <1>1, <1>2, <1>3, <1>4, <1>5, <1>6, <1>7, <1>8, <1>9, <1>10, <1>11, <1>12, <1>13, <1>14,
       <1>15
       DEF Next, Code, Pausing, JavaStep, BusStep, Pipeline
-----------------------------------------------------------------------------
(* The steps by what they mean to the bus thread: a step of another thread *)
(* or of the pipeline, a step of a call that BusCallback makes, and the    *)
(* steps of BusCallback itself.                                            *)
Aside ==
  /\ pc'["bus"] = pc["bus"] /\ ret'["bus"] = ret["bus"] /\ msg' = msg
  /\ m'.state = m.state \/ (m.state \in {"Stopped", "Stalled"} /\ m'.state = "Paused")

Nested ==
  /\ pc["bus"] \in BusNested /\ msg' = msg /\ m'.state = m.state
  /\ \/ pc'["bus"] \in BusNested /\ ret'["bus"] = ret["bus"]
     \/ pc'["bus"] = ret["bus"]

(* Once the history is upset, or the player disposed of, it remains so.    *)
LEMMA UpsetStays ==
  ASSUME IInv, [Next]_vars
  PROVE  upset => upset'
  <1>1. CASE SeekFlush
    BY <1>1 DEF SeekFlush, SeekPipeline
  <1>2. CASE SeekSet
    BY <1>2 DEF SeekSet, Change
  <1>3. CASE RateOneCall
    BY <1>3 DEF RateOneCall, SeekPipeline, NoGst
  <1>4. CASE \E t \in Threads : PlaySet(t)
    BY <1>4 DEF PlaySet, DoPlay, Change, NoGst
  <1>5. CASE \E t \in Threads : PauseSet(t)
    BY <1>5 DEF PauseSet, Change, NoGst
  <1>6. CASE UpdatePlayerState
    BY <1>6 DEF UpdatePlayerState, DoPlay, Change
  <1>7. CASE \/ Unpend \/ PauseCall \/ PauseLock \/ StopCall \/ StopLock \/ SeekCall \/ SeekResume
             \/ RateZeroCall \/ RateZeroSet \/ (\E c \in Calls : JavaCall(c)) \/ PulseCall
             \/ FinishCall \/ (\E t \in Threads : PlayTest(t)) \/ (\E t \in Threads : PauseTest(t))
             \/ Preroll \/ ContinueState \/ StreamEnds \/ StreamFails \/ Download \/ Underrun
             \/ Dispatch \/ BusCallback \/ Unref \/ OnState \/ UpdateBufferPosition \/ OnBuffering
             \/ OnEos \/ OnError \/ SetError \/ OnUnderrun \/ Stall \/ DestroyNotify \/ NotifyFree
             \/ Dispose \/ DisposeNull \/ DisposeLock \/ DisposeDestroy \/ DisposeEnd \/ DisposeFree
             \/ Delete \/ UNCHANGED vars
    BY <1>7, UnrefFacts DEF Unpend, PauseCall, PauseLock, StopCall, StopLock, SeekCall, SeekResume,
       RateZeroCall, RateZeroSet, JavaCall, PulseCall, FinishCall, PlayTest, PauseTest, Preroll,
       ContinueState, StreamEnds, StreamFails, Download, Underrun, Dispatch, BusCallback, OnState, UpdateBufferPosition, OnBuffering, OnEos, OnError, SetError, OnUnderrun, Stall,
       DestroyNotify, NotifyFree, Dispose, DisposeNull, DisposeLock, DisposeDestroy, DisposeEnd,
       DisposeFree, Delete, NoGst, playerVars, vars, Unreffing
  <1> QED
    BY <1>1, <1>2, <1>3, <1>4, <1>5, <1>6, <1>7
       DEF Next, Code, Pausing, JavaStep, BusStep, Pipeline

LEMMA Kinds ==
  ASSUME IInv, Typed, [Next]_vars
  PROVE  \/ Aside \/ Nested
         \/ Dispatch \/ BusCallback \/ Unref \/ DestroyNotify \/ NotifyFree
         \/ OnState \/ UpdateBufferPosition \/ OnBuffering \/ UpdatePlayerState
         \/ OnEos \/ OnError \/ SetError \/ OnUnderrun \/ Stall
  <1>1. /\ m \in Members
        /\ pc \in [Threads -> CallLabels \cup Disposing \cup PulseLabels \cup Handling \cup Dispatching \cup {"Over"}]
        /\ ret \in [Threads -> JavaReturns \cup {"Update", "Unref"}]
    BY DEF Typed, IInv, Control
  <1>2. CASE Unpend
    BY <1>1, <1>2 DEF Unpend, Aside, Members, Goto, Call, Return, Threads, Unchanged, playerVars
  <1>3. CASE PauseCall
    BY <1>1, <1>3 DEF PauseCall, Aside, Members, Goto, Call, Return, Threads, Unchanged,
       playerVars
  <1>4. CASE PauseLock
    BY <1>1, <1>4 DEF PauseLock, Aside, Members, Goto, Call, Return, Threads, Unchanged,
       playerVars
  <1>5. CASE StopCall
    BY <1>1, <1>5 DEF StopCall, Aside, Members, Goto, Call, Return, Threads, Unchanged,
       playerVars
  <1>6. CASE StopLock
    BY <1>1, <1>6 DEF StopLock, Aside, Members, Goto, Call, Return, Threads, Unchanged,
       playerVars
  <1>7. CASE SeekCall
    BY <1>1, <1>7 DEF SeekCall, Aside, Members, Goto, Call, Return, Threads, Unchanged,
       playerVars
  <1>8. CASE SeekFlush
    BY <1>1, <1>8 DEF SeekFlush, SeekPipeline, Aside, Members, Goto, Call, Return, Threads,
       Unchanged, playerVars
  <1>9. CASE SeekResume
    BY <1>1, <1>9 DEF SeekResume, Aside, Members, Goto, Call, Return, Threads, Unchanged,
       playerVars
  <1>10. CASE SeekSet
    BY <1>1, <1>10 DEF SeekSet, Aside, Members, Goto, Call, Return, Threads, Unchanged,
       playerVars
  <1>11. CASE RateZeroCall
    BY <1>1, <1>11 DEF RateZeroCall, Aside, Members, Goto, Call, Return, Threads, Unchanged,
       playerVars
  <1>12. CASE RateZeroSet
    BY <1>1, <1>12 DEF RateZeroSet, Aside, Members, Goto, Call, Return, Threads, Unchanged,
       playerVars
  <1>13. CASE RateOneCall
    BY <1>1, <1>13 DEF RateOneCall, SeekPipeline, Aside, Members, Goto, Call, Return, Threads,
       Unchanged, playerVars
  <1>14. CASE \E c \in Calls : JavaCall(c)
    BY <1>1, <1>14 DEF JavaCall, Aside, Members, Goto, Call, Return, Threads, Unchanged,
       playerVars
  <1>15. CASE PulseCall
    BY <1>1, <1>15 DEF PulseCall, Aside, Members, Goto, Call, Return, Threads, Unchanged,
       playerVars
  <1>16. CASE FinishCall
    BY <1>1, <1>16 DEF FinishCall, Aside, Members, Goto, Call, Return, Threads, Unchanged,
       playerVars
  <1>17. CASE \E t \in Threads : PlayTest(t)
    <2>1. PICK t \in Threads : PlayTest(t)
      BY <1>17
    <2>2. msg' = msg /\ m'.state = m.state
      BY <1>1, <2>1 DEF PlayTest, NoGst, Members, Unchanged
    <2>3. CASE t = "bus"
      <3>1. /\ pc["bus"] \in BusNested
            /\ \/ pc'["bus"] \in BusNested /\ ret'["bus"] = ret["bus"]
               \/ pc'["bus"] = ret["bus"]
        BY <1>1, <2>1, <2>3 DEF PlayTest, Goto, Return, Threads, BusNested
      <3> QED BY <2>2, <3>1 DEF Nested
    <2>4. CASE t \in {"java", "pulse"}
      <3>1. pc'["bus"] = pc["bus"] /\ ret'["bus"] = ret["bus"]
        BY <1>1, <2>1, <2>4 DEF PlayTest, Goto, Return, Threads
      <3> QED BY <2>2, <3>1 DEF Aside
    <2> QED BY <2>3, <2>4 DEF Threads
  <1>18. CASE \E t \in Threads : PlaySet(t)
    <2>1. PICK t \in Threads : PlaySet(t)
      BY <1>18
    <2>2. msg' = msg /\ m'.state = m.state
      BY <1>1, <2>1 DEF PlaySet, DoPlay, Members, Unchanged
    <2>3. CASE t = "bus"
      <3>1. /\ pc["bus"] \in BusNested
            /\ \/ pc'["bus"] \in BusNested /\ ret'["bus"] = ret["bus"]
               \/ pc'["bus"] = ret["bus"]
        BY <1>1, <2>1, <2>3 DEF PlaySet, Goto, Return, Threads, BusNested
      <3> QED BY <2>2, <3>1 DEF Nested
    <2>4. CASE t \in {"java", "pulse"}
      <3>1. pc'["bus"] = pc["bus"] /\ ret'["bus"] = ret["bus"]
        BY <1>1, <2>1, <2>4 DEF PlaySet, Goto, Return, Threads
      <3> QED BY <2>2, <3>1 DEF Aside
    <2> QED BY <2>3, <2>4 DEF Threads
  <1>19. CASE \E t \in Threads : PauseTest(t)
    <2>1. PICK t \in Threads : PauseTest(t)
      BY <1>19
    <2>2. msg' = msg /\ m'.state = m.state
      BY <1>1, <2>1 DEF PauseTest, Members, Unchanged
    <2>3. CASE t = "bus"
      <3>1. /\ pc["bus"] \in BusNested
            /\ \/ pc'["bus"] \in BusNested /\ ret'["bus"] = ret["bus"]
               \/ pc'["bus"] = ret["bus"]
        BY <1>1, <2>1, <2>3 DEF PauseTest, Goto, Return, Threads, BusNested
      <3> QED BY <2>2, <3>1 DEF Nested
    <2>4. CASE t \in {"java", "pulse"}
      <3>1. pc'["bus"] = pc["bus"] /\ ret'["bus"] = ret["bus"]
        BY <1>1, <2>1, <2>4 DEF PauseTest, Goto, Return, Threads
      <3> QED BY <2>2, <3>1 DEF Aside
    <2> QED BY <2>3, <2>4 DEF Threads
  <1>20. CASE \E t \in Threads : PauseSet(t)
    <2>1. PICK t \in Threads : PauseSet(t)
      BY <1>20
    <2>2. msg' = msg /\ m'.state = m.state
      BY <1>1, <2>1 DEF PauseSet, Members, Unchanged
    <2>3. CASE t = "bus"
      <3>1. /\ pc["bus"] \in BusNested
            /\ \/ pc'["bus"] \in BusNested /\ ret'["bus"] = ret["bus"]
               \/ pc'["bus"] = ret["bus"]
        BY <1>1, <2>1, <2>3 DEF PauseSet, Goto, Return, Threads, BusNested
      <3> QED BY <2>2, <3>1 DEF Nested
    <2>4. CASE t \in {"java", "pulse"}
      <3>1. pc'["bus"] = pc["bus"] /\ ret'["bus"] = ret["bus"]
        BY <1>1, <2>1, <2>4 DEF PauseSet, Goto, Return, Threads
      <3> QED BY <2>2, <3>1 DEF Aside
    <2> QED BY <2>3, <2>4 DEF Threads
  <1>21. CASE Dispose
    BY <1>1, <1>21 DEF Dispose, Aside, Members, Goto, Call, Return, Threads, Unchanged,
       playerVars
  <1>22. CASE DisposeNull
    BY <1>1, <1>22 DEF DisposeNull, Aside, Members, Goto, Call, Return, Threads, Unchanged,
       playerVars
  <1>23. CASE DisposeLock
    BY <1>1, <1>23 DEF DisposeLock, Aside, Members, Goto, Call, Return, Threads, Unchanged,
       playerVars
  <1>24. CASE DisposeDestroy
    BY <1>1, <1>24 DEF DisposeDestroy, Aside, Members, Goto, Call, Return, Threads, Unchanged,
       playerVars
  <1>25. CASE DisposeEnd
    BY <1>1, <1>25 DEF DisposeEnd, Aside, Members, Goto, Call, Return, Threads, Unchanged,
       playerVars
  <1>26. CASE DisposeFree
    BY <1>1, <1>26 DEF DisposeFree, Aside, Members, Goto, Call, Return, Threads, Unchanged,
       playerVars
  <1>27. CASE Delete
    BY <1>1, <1>27 DEF Delete, Aside, Members, Goto, Call, Return, Threads, Unchanged,
       playerVars
  <1>28. CASE \/ Preroll \/ ContinueState \/ StreamEnds \/ StreamFails \/ Download \/ Underrun
              \/ UNCHANGED vars
    BY <1>28 DEF Preroll, ContinueState, StreamEnds, StreamFails, Download, Underrun, Aside,
       Unchanged, playerVars, vars
  <1> QED
    BY <1>2, <1>3, <1>4, <1>5, <1>6, <1>7, <1>8, <1>9, <1>10, <1>11, <1>12, <1>13, <1>14, <1>15,
       <1>16, <1>17, <1>18, <1>19, <1>20, <1>21, <1>22, <1>23, <1>24, <1>25, <1>26, <1>27, <1>28
       DEF Next, Code, Pausing, JavaStep, BusStep, Pipeline
-----------------------------------------------------------------------------
(* The messages keep their types and come to the handlers meant for them.  *)
LEMMA QueueKept ==
  ASSUME Bus, Moves
  PROVE  queue' \in Seq(Messages) /\ \A i \in 1..Len(queue') : Plays(queue'[i]) => queue'[i].old = "PAUSED"
  <1>1. queue \in Seq(Messages) /\ \A i \in 1..Len(queue) : Plays(queue[i]) => queue[i].old = "PAUSED"
    BY DEF Bus
  <1>2. CASE queue' = queue
    BY <1>1, <1>2
  <1>3. CASE queue' = <<>>
    BY <1>3
  <1>4. CASE \E x : Posted(x)
    <2>1. PICK x : Posted(x)
      BY <1>4
    <2>2. x \in Messages /\ queue' = Append(queue, x) /\ (Plays(x) => x.old = "PAUSED")
      BY <2>1 DEF Posted
    <2>3. /\ queue' \in Seq(Messages) /\ Len(queue') = Len(queue) + 1 /\ queue'[Len(queue) + 1] = x
          /\ \A i \in 1..Len(queue) : queue'[i] = queue[i]
          /\ Len(queue) \in Nat
      BY <1>1, <2>2, AppendFacts
    <2> QED BY <1>1, <2>2, <2>3
  <1> QED BY <1>2, <1>3, <1>4 DEF Moves

(* The part of Bus that is about the message in hand.                      *)
InHand ==
  /\ msg \in Messages \cup {NoMessage}
  /\ pc["bus"] = "OnBuffering" => msg.kind = "buffering"
  /\ pc["bus"] \in {"OnState", "UpdateBufferPosition", "Update"} => Says(msg)
  /\ pc["bus"] = "UpdateBufferPosition" => ~Plays(msg)
  /\ pc["bus"] \in BusNested /\ ret["bus"] = "Update" => Says(msg) /\ ~Plays(msg)
  /\ pc["bus"] = "OnEos" => msg.kind = "eos"
  /\ Plays(msg) => msg.old = "PAUSED"

LEMMA MessagesStep ==
  ASSUME IInv, Typed, Bus, Resting, [Next]_vars
  PROVE  Bus' /\ Resting'
  <1>1. CASE Dispatch
    <2>1. /\ queue \in Seq(Messages) /\ queue # <<>> /\ queue' = Tail(queue) /\ msg' = Head(queue)
          /\ pc'["bus"] = "Enter" /\ gst' = gst
      BY <1>1 DEF Dispatch, Bus, Goto, IInv, Control, Threads
    <2>2. queue' \in Seq(Messages) /\ Len(queue') = Len(queue) - 1 /\ Len(queue) \in Nat \ {0}
          /\ msg' = queue[1] /\ msg' \in Messages /\ \A i \in 1..(Len(queue) - 1) : queue'[i] = queue[i + 1]
      BY <2>1, TailFacts
    <2>3. \A i \in 1..Len(queue') : Plays(queue'[i]) => queue'[i].old = "PAUSED"
      BY <2>2 DEF Bus
    <2>4. (Plays(msg) => msg.old = "PAUSED")'
      BY <2>2 DEF Bus
    <2>5. Bus'
      BY <2>1, <2>2, <2>3, <2>4 DEF Bus, BusNested
    <2>6. Resting'
      BY <2>1 DEF Resting
    <2> QED BY <2>5, <2>6
  <1>2. CASE ~Dispatch
    <2>1. Moves /\ queue' \in Seq(Messages) /\ \A i \in 1..Len(queue') : Plays(queue'[i]) => queue'[i].old = "PAUSED"
      BY <1>2, MovesStep, QueueKept
    <2>2. Resting'
      BY <2>1 DEF Moves, Resting, Posted
    <2>3. InHand /\ (InHand' => Bus')
      BY <2>1 DEF InHand, Bus
    <2>4. /\ ret["bus"] \in JavaReturns \cup {"Update", "Unref"} /\ (pc["bus"] \in BusNested => ret["bus"] \in {"Update", "Unref"})
          /\ pc \in [Threads -> CallLabels \cup Disposing \cup PulseLabels \cup Handling \cup Dispatching \cup {"Over"}]
          /\ ret \in [Threads -> JavaReturns \cup {"Update", "Unref"}]
      BY DEF IInv, Control, Threads
    <2>5. msg \in Messages \cup {NoMessage} /\ NoMessage.kind = "none"
      BY DEF Bus, NoMessage
    <2>6. CASE Aside
      BY <2>2, <2>3, <2>6 DEF Aside, InHand
    <2>7. CASE Nested
      BY <2>2, <2>3, <2>4, <2>7 DEF Nested, InHand, BusNested
    <2>8. CASE BusCallback
      BY <2>2, <2>3, <2>4, <2>5, <2>8, MessageFacts DEF BusCallback, InHand, Handler, Goto, Threads,
         playerVars, BusNested, Says
    <2>9. CASE Unref
      BY <2>2, <2>3, <2>4, <2>5, <2>9, UnrefFacts DEF InHand, Goto, Threads, BusNested, Says, Plays,
         Unreffing
    <2>10. CASE DestroyNotify \/ NotifyFree
      BY <2>2, <2>3, <2>4, <2>10 DEF DestroyNotify, NotifyFree, InHand, Goto, Threads, playerVars,
         BusNested
    <2>11. CASE OnState
      BY <2>2, <2>3, <2>4, <2>11 DEF OnState, InHand, Goto, Threads, Unchanged, BusNested, Plays, Says
    <2>12. CASE UpdateBufferPosition
      BY <2>2, <2>3, <2>4, <2>12 DEF UpdateBufferPosition, InHand, Goto, Call, Threads, Unchanged,
         BusNested
    <2>13. CASE OnBuffering
      BY <2>2, <2>3, <2>4, <2>13 DEF OnBuffering, InHand, Goto, Call, Threads, Unchanged, BusNested
    <2>14. CASE UpdatePlayerState
      BY <2>2, <2>3, <2>4, <2>14 DEF UpdatePlayerState, InHand, Goto, Threads, Unchanged, BusNested
    <2>15. CASE OnEos \/ OnError \/ SetError
      BY <2>2, <2>3, <2>4, <2>15 DEF OnEos, OnError, SetError, InHand, Goto, Threads, Unchanged,
         BusNested
    <2>16. CASE OnUnderrun \/ Stall
      BY <2>2, <2>3, <2>4, <2>16 DEF OnUnderrun, Stall, InHand, Goto, Call, Threads, Unchanged,
         BusNested
    <2> QED
      BY <1>2, <2>2, <2>3, <2>6, <2>7, <2>8, <2>9, <2>10, <2>11, <2>12, <2>13, <2>14, <2>15, <2>16,
         Kinds
  <1> QED BY <1>1, <1>2
-----------------------------------------------------------------------------
(* The table of UpdatePlayerState: it follows the documented transitions;  *)
(* Playing is shown after a PLAYING message, unless that settles what is   *)
(* pending, and after no other; what is pending is settled by leaving      *)
(* Playing; a message that repeats PAUSED settles it.                      *)
Settled(p, u) == <<u.pending, u.stallOnPause>> # <<p.pending, p.stallOnPause>>

LEMMA PausedPlayingFacts ==
  ASSUME NEW p \in Members, NEW s \in PlayerStates, NEW u, u = PausedPlaying(p, s)
  PROVE  /\ Settled(p, u) => u.state \in {"Stopped", "Stalled", "Paused"}
         /\ p.pending # "Unknown" \/ p.stallOnPause => Settled(p, u)
         /\ u.state \in {"Stopped", "Stalled", "Paused", s}
  <1>1. CASE p.pending = "Stopped"
    <2>1. u = [Settles(p, "Stopped") EXCEPT !.stallOnPause = FALSE]
      BY <1>1 DEF PausedPlaying
    <2>2. u.state = "Stopped" /\ u.pending = "Unknown"
      BY <2>1 DEF Settles, Members
    <2> QED BY <1>1, <2>2 DEF Settled
  <1>2. CASE p.stallOnPause /\ p.pending \notin {"Stopped", "Paused"}
    <2>1. u = [Becomes(p, "Stalled") EXCEPT !.stallOnPause = FALSE]
      BY <1>2 DEF PausedPlaying
    <2>2. u.state = "Stalled" /\ ~u.stallOnPause
      BY <2>1 DEF Becomes, Members
    <2> QED BY <1>2, <2>2 DEF Settled
  <1>3. CASE p.pending = "Paused"
    <2>1. u = [Settles(p, "Paused") EXCEPT !.stallOnPause = FALSE]
      BY <1>3 DEF PausedPlaying
    <2>2. u.state = "Paused" /\ u.pending = "Unknown"
      BY <2>1 DEF Settles, Members
    <2> QED BY <1>3, <2>2 DEF Settled
  <1>4. CASE p.pending \notin {"Stopped", "Paused"} /\ ~p.stallOnPause
    <2>1. u = Becomes(p, s) /\ p.pending = "Unknown"
      BY <1>4 DEF PausedPlaying, Members
    <2>2. u.state = s /\ u.pending = p.pending /\ u.stallOnPause = p.stallOnPause
      BY <2>1 DEF Becomes, Members
    <2> QED BY <1>4, <2>1, <2>2 DEF Settled
  <1> QED BY <1>1, <1>2, <1>3, <1>4

Table(p, old, new, u) ==
  /\ u.state # p.state => u.state \in Follows[p.state]
  /\ p.state = "Unknown" => u.state \in {"Unknown", "Ready"} /\ ~Settled(p, u)
  /\ p.state = "Error" => u.state = "Error"
  /\ old = "PAUSED" /\ new = "PLAYING" /\ p.state \notin {"Unknown", "Error"} =>
       u.state = "Playing" \/ Settled(p, u)
  /\ new # "PLAYING" /\ p.state # "Playing" => u.state # "Playing"
  /\ old = "PLAYING" /\ new = "PAUSED" => u.state # "Playing"
  /\ Settled(p, u) => u.state \in {"Stopped", "Stalled", "Paused"}
  /\ old = "PAUSED" /\ new = "PAUSED" /\ p.state = "Playing" /\ (p.pending # "Unknown" \/ p.stallOnPause) =>
       Settled(p, u)
  /\ u.state = "Stalled" /\ p.state # "Stalled" => p.state = "Playing" /\ new # "PLAYING"

LEMMA UpdatedFacts ==
  ASSUME NEW p \in Members, NEW old \in States, NEW new \in States, NEW u, u = Updated(p, old, new)
  PROVE  Table(p, old, new, u)
  <1>1. p.state \in PlayerStates
    BY DEF Members
  <1>2. ASSUME NEW s \in PlayerStates, u = Becomes(p, s) \/ u = [Becomes(p, s) EXCEPT !.seekInvoked = FALSE]
        PROVE  u.state = s /\ ~Settled(p, u)
    BY <1>2 DEF Becomes, Members, Settled
  <1>3. ASSUME NEW s \in PlayerStates, p.pending # "Unknown",
               u = Settles(p, s) \/ u = [Settles(p, s) EXCEPT !.seekInvoked = FALSE]
        PROVE  u.state = s /\ Settled(p, u)
    BY <1>3 DEF Settles, Members, Settled
  <1>4. u = p => ~Settled(p, u)
    BY DEF Settled
  <1>5. CASE p.state = "Unknown"
    <2>1. u = Becomes(p, "Ready") \/ u = p
      BY <1>5 DEF Updated
    <2> QED BY <1>2, <1>4, <1>5, <2>1 DEF Table, Follows, PlayerStates
  <1>6. CASE p.state = "Ready"
    <2>1. IF old = "PAUSED" /\ new = "PLAYING" THEN u = Becomes(p, "Playing") ELSE u = p
      BY <1>6 DEF Updated
    <2> QED BY <1>2, <1>4, <1>6, <2>1 DEF Table, Follows, PlayerStates
  <1>7. CASE p.state = "Playing"
    <2>1. CASE new = "PAUSED" /\ old = "PLAYING"
      <3>1. u = PausedPlaying(p, "Finished")
        BY <1>7, <2>1 DEF Updated
      <3> QED BY <1>7, <2>1, <3>1, PausedPlayingFacts DEF Table, Follows, PlayerStates
    <2>2. CASE new = "PAUSED" /\ old = "PAUSED"
      <3>1. u = PausedPlaying(p, "Playing")
        BY <1>7, <2>2 DEF Updated
      <3> QED BY <1>7, <2>2, <3>1, PausedPlayingFacts DEF Table, Follows, PlayerStates
    <2>3. CASE new # "PAUSED" \/ old \notin {"PLAYING", "PAUSED"}
      <3>1. u = p
        BY <1>7, <2>3 DEF Updated
      <3> QED BY <1>4, <1>7, <2>3, <3>1 DEF Table, Follows, PlayerStates
    <2> QED BY <2>1, <2>2, <2>3
  <1>8. CASE p.state = "Paused"
    <2>1. \/ u = Settles(p, "Stopped") /\ p.pending = "Stopped"
          \/ u = Becomes(p, "Playing") /\ new = "PLAYING" /\ old = "PAUSED"
          \/ u = p /\ ~(old = "PAUSED" /\ new = "PLAYING")
      BY <1>8 DEF Updated
    <2> QED BY <1>2, <1>3, <1>4, <1>8, <2>1 DEF Table, Follows, PlayerStates
  <1>9. CASE p.state = "Stopped"
    <2>1. \/ u = Settles(p, "Paused") /\ p.pending = "Paused" /\ new = "PAUSED"
          \/ u = Becomes(p, "Playing") /\ new = "PLAYING" /\ old = "PAUSED"
          \/ u = p /\ ~(old = "PAUSED" /\ new = "PLAYING")
      BY <1>9 DEF Updated
    <2> QED BY <1>2, <1>3, <1>4, <1>9, <2>1 DEF Table, Follows, PlayerStates
  <1>10. CASE p.state = "Stalled"
    <2>1. \/ u = Settles(p, p.pending) /\ p.pending \in {"Stopped", "Paused"} /\ new = "PAUSED"
          \/ u = Becomes(p, "Playing") /\ new = "PLAYING" /\ old = "PAUSED"
          \/ u = p /\ ~(old = "PAUSED" /\ new = "PLAYING")
      BY <1>10 DEF Updated
    <2> QED BY <1>2, <1>3, <1>4, <1>10, <2>1 DEF Table, Follows, PlayerStates
  <1>11. CASE p.state = "Finished"
    <2>1. \/ u = [Settles(p, "Stopped") EXCEPT !.seekInvoked = FALSE] /\ p.pending = "Stopped" /\ new = "PAUSED"
          \/ u = [Becomes(p, "Playing") EXCEPT !.seekInvoked = FALSE] /\ new = "PLAYING" /\ old = "PAUSED"
          \/ u = [Becomes(p, "Paused") EXCEPT !.seekInvoked = FALSE] /\ new = "PAUSED"
          \/ u = p /\ ~(old = "PAUSED" /\ new = "PLAYING")
      BY <1>11 DEF Updated
    <2> QED BY <1>2, <1>3, <1>4, <1>11, <2>1 DEF Table, Follows, PlayerStates
  <1>12. CASE p.state = "Error"
    <2>1. u = p
      BY <1>12 DEF Updated
    <2> QED BY <1>4, <1>12, <2>1 DEF Table, Follows, PlayerStates
  <1> QED BY <1>1, <1>5, <1>6, <1>7, <1>8, <1>9, <1>10, <1>11, <1>12 DEF PlayerStates

(* UpdatePlayerState by that table.                                        *)
LEMMA UpdateFacts ==
  ASSUME IInv, Typed, Bus, UpdatePlayerState, NEW p, p = Updated(m, msg.old, msg.new)
  PROVE  /\ m'.state = p.state /\ m'.pending = p.pending /\ m'.stallOnPause = p.stallOnPause
         /\ Table(m, msg.old, msg.new, p) /\ Says(msg)
         /\ ~upset' => ~Misread(p)
         /\ pc["bus"] = "Update" /\ pc' = [pc EXCEPT !["bus"] = "Unref"] /\ ret' = ret /\ msg' = msg
         /\ PlaysOn(p) => m.state # "Unknown"
         /\ UNCHANGED <<gst, queue>> \/ \E b : \E r \in SetState(gst, "PLAYING", bound.troubles > 0) : Change(r, b)
  <1>1. /\ pc["bus"] = "Update" /\ pc' = [pc EXCEPT !["bus"] = "Unref"] /\ ret' = ret /\ msg' = msg
    BY DEF UpdatePlayerState, Goto, Unchanged
  <1>2. Says(msg) /\ msg \in Messages \cup {NoMessage}
    BY <1>1 DEF Bus
  <1>3. msg.old \in States /\ msg.new \in States
    BY <1>2, MessageFacts DEF Says
  <1>4. p \in Members /\ m \in Members
    BY UpdatedOK DEF Typed
  <1>5. Table(m, msg.old, msg.new, p)
    BY <1>3, <1>4, UpdatedFacts
  <1>6. \/ PlaysOn(p) /\ DoPlay(p, ~Misread(p))
        \/ m' = p /\ upset' = (upset \/ Misread(p)) /\ UNCHANGED <<gst, queue>>
    BY DEF UpdatePlayerState
  <1>7. CASE m' = p /\ upset' = (upset \/ Misread(p)) /\ UNCHANGED <<gst, queue>>
    BY <1>1, <1>2, <1>5, <1>7 DEF PlaysOn, Table
  <1>8. CASE PlaysOn(p) /\ DoPlay(p, ~Misread(p))
    <2>1. m'.state = p.state /\ m'.pending = p.pending /\ m'.stallOnPause = p.stallOnPause
      BY <1>4, <1>8 DEF DoPlay, Members
    <2>2. ~upset' => ~Misread(p)
      BY <1>8 DEF DoPlay, Change
    <2>3. UNCHANGED <<gst, queue>> \/ \E b : \E r \in SetState(gst, "PLAYING", bound.troubles > 0) : Change(r, b)
      BY <1>8 DEF DoPlay
    <2>4. m.state # "Unknown"
      BY <1>5, <1>8 DEF PlaysOn, Table
    <2> QED BY <1>1, <1>2, <1>5, <2>1, <2>2, <2>3, <2>4
  <1> QED BY <1>6, <1>7, <1>8

(* No other action shows Unknown again.                                    *)
LEMMA UnknownBefore ==
  ASSUME IInv, Typed, Bus, [Next]_vars, m'.state = "Unknown"
  PROVE  m.state = "Unknown"
  <1>1. m \in Members
    BY DEF Typed
  <1>2. CASE Aside \/ Nested
    BY <1>2 DEF Aside, Nested
  <1>3. CASE Dispatch \/ BusCallback \/ Unref \/ DestroyNotify \/ NotifyFree \/ OnState \/ OnError \/ OnUnderrun
    BY <1>3, UnrefFacts DEF Dispatch, BusCallback, DestroyNotify, NotifyFree, OnState, OnError,
       OnUnderrun, playerVars, Unreffing
  <1>4. CASE UpdateBufferPosition \/ OnBuffering \/ Stall \/ OnEos \/ SetError
    BY <1>1, <1>4 DEF UpdateBufferPosition, OnBuffering, Stall, OnEos, SetError, Members
  <1>5. CASE UpdatePlayerState
    <2> DEFINE p == Updated(m, msg.old, msg.new)
    <2>1. p.state = "Unknown" /\ Table(m, msg.old, msg.new, p)
      BY <1>5, UpdateFacts
    <2>2. m.state \in PlayerStates
      BY <1>1 DEF Members
    <2> HIDE DEF p
    <2> QED BY <2>1, <2>2 DEF Table, Follows, PlayerStates
  <1> QED BY <1>2, <1>3, <1>4, <1>5, Kinds

(* Until the player is Ready nobody asks it for anything.                  *)
NoPlays(q) == \A i \in 1..Len(q) : ~Plays(q[i])

LEMMA NoPlaysKept ==
  ASSUME NEW q \in Seq(Messages), NoPlays(q)
  PROVE  /\ \A x \in Messages : ~Plays(x) => NoPlays(Append(q, x))
         /\ q # <<>> => NoPlays(Tail(q)) /\ ~Plays(Head(q))
         /\ NoPlays(<<>>)
  <1>1. ASSUME NEW x \in Messages, ~Plays(x) PROVE NoPlays(Append(q, x))
    <2>1. /\ Len(Append(q, x)) = Len(q) + 1 /\ Append(q, x)[Len(q) + 1] = x /\ Len(q) \in Nat
          /\ \A i \in 1..Len(q) : Append(q, x)[i] = q[i]
      BY AppendFacts
    <2> QED BY <1>1, <2>1 DEF NoPlays
  <1>2. ASSUME q # <<>> PROVE NoPlays(Tail(q)) /\ ~Plays(Head(q))
    <2>1. /\ Len(Tail(q)) = Len(q) - 1 /\ Head(q) = q[1] /\ Len(q) \in Nat \ {0}
          /\ \A i \in 1..(Len(q) - 1) : Tail(q)[i] = q[i + 1]
      BY <1>2, TailFacts
    <2> QED BY <2>1 DEF NoPlays
  <1>3. NoPlays(<<>>)
    BY DEF NoPlays
  <1> QED BY <1>1, <1>2, <1>3

EarlyCalls == /\ pc["java"] \in {"idle"} \cup Disposing /\ pc["pulse"] \in {"idle", "Finish"}
              /\ pc["bus"] \notin BusNested \cup {"Stall"}
EarlyGst   == /\ ~gst.cont /\ gst.state # "PLAYING"
              /\ gst.pending # Void => gst.next = "PAUSED" /\ gst.target = "PAUSED"

LEMMA EarlyStep ==
  ASSUME IInv, Typed, Bus, Resting, Early, [Next]_vars
  PROVE  Early'
  <1> SUFFICES ASSUME m'.state = "Unknown"
               PROVE  EarlyCalls' /\ EarlyGst' /\ ~Plays(msg') /\ NoPlays(queue')
    BY DEF Early, EarlyCalls, EarlyGst, NoPlays
  <1>1. m.state = "Unknown" /\ EarlyCalls /\ EarlyGst /\ ~Plays(msg) /\ NoPlays(queue)
    BY UnknownBefore DEF Early, EarlyCalls, EarlyGst, NoPlays
  <1>2. /\ m \in Members /\ queue \in Seq(Messages) /\ ~Plays(NoMessage)
        /\ pc \in [Threads -> CallLabels \cup Disposing \cup PulseLabels \cup Handling \cup Dispatching \cup {"Over"}]
    BY DEF Typed, Bus, IInv, Control, Plays, Says, NoMessage
  <1>3. CASE \/ Unpend \/ PauseCall \/ PauseLock \/ StopCall \/ StopLock \/ SeekCall \/ SeekFlush
             \/ SeekResume \/ SeekSet \/ RateZeroCall \/ RateZeroSet \/ RateOneCall
             \/ (\E c \in Calls : JavaCall(c)) \/ (\E t \in Threads : PlayTest(t))
             \/ (\E t \in Threads : PlaySet(t)) \/ (\E t \in Threads : PauseTest(t))
             \/ (\E t \in Threads : PauseSet(t)) \/ ContinueState \/ StreamEnds \/ Stall \/ OnEos
             \/ SetError
    BY <1>1, <1>2, <1>3 DEF Unpend, PauseCall, PauseLock, StopCall, StopLock, SeekCall, SeekFlush,
       SeekResume, SeekSet, RateZeroCall, RateZeroSet, RateOneCall, JavaCall, PlayTest, PlaySet,
       PauseTest, PauseSet, ContinueState, StreamEnds, Stall, OnEos, SetError, EarlyCalls,
       EarlyGst, Disposing, Unreffing, Members, Threads, BusNested
  <1>4. CASE PulseCall
    BY <1>1, <1>2, <1>4 DEF PulseCall, EarlyCalls, EarlyGst, Goto, Threads, Disposing, Unreffing,
       BusNested,
       Unchanged, NoGst, playerVars, vars
  <1>5. CASE FinishCall
    BY <1>1, <1>2, <1>5 DEF FinishCall, Call, EarlyCalls, EarlyGst, Goto, Threads, Disposing, Unreffing,
       BusNested, Unchanged, NoGst, playerVars, vars
  <1>6. CASE BusCallback
    BY <1>1, <1>2, <1>6 DEF BusCallback, Handler, playerVars, EarlyCalls, EarlyGst, Goto, Threads,
       Disposing, Unreffing, BusNested, Unchanged, NoGst, vars
  <1>7. CASE Unref
    BY <1>1, <1>2, <1>7, UnrefFacts DEF EarlyCalls, EarlyGst, Goto, Threads, Disposing, BusNested,
       Unchanged, NoGst, playerVars, vars, Unreffing
  <1>8. CASE OnState
    BY <1>1, <1>2, <1>8 DEF OnState, EarlyCalls, EarlyGst, Goto, Threads, Disposing, Unreffing,
       BusNested,
       Unchanged, NoGst, playerVars, vars
  <1>9. CASE UpdateBufferPosition
    BY <1>1, <1>2, <1>9 DEF UpdateBufferPosition, Resumes, EarlyCalls, EarlyGst, Goto, Threads,
       Disposing, Unreffing, BusNested, Unchanged, NoGst, playerVars, vars
  <1>10. CASE OnBuffering
    BY <1>1, <1>2, <1>10 DEF OnBuffering, Resumes, EarlyCalls, EarlyGst, Goto, Threads, Disposing,
       Unreffing,
       BusNested, Unchanged, NoGst, playerVars, vars
  <1>11. CASE OnUnderrun
    BY <1>1, <1>2, <1>11 DEF OnUnderrun, Suspends, EarlyCalls, EarlyGst, Goto, Threads, Disposing,
       Unreffing,
       BusNested, Unchanged, NoGst, playerVars, vars
  <1>12. CASE DestroyNotify
    BY <1>1, <1>2, <1>12 DEF DestroyNotify, EarlyCalls, EarlyGst, Goto, Threads, Disposing, Unreffing,
       BusNested, Unchanged, NoGst, playerVars, vars
  <1>13. CASE NotifyFree
    BY <1>1, <1>2, <1>13 DEF NotifyFree, EarlyCalls, EarlyGst, Goto, Threads, Disposing, Unreffing,
       BusNested,
       Unchanged, NoGst, playerVars, vars
  <1>14. CASE Dispose
    BY <1>1, <1>2, <1>14 DEF Dispose, EarlyCalls, EarlyGst, Goto, Threads, Disposing, Unreffing,
       BusNested,
       Unchanged, NoGst, playerVars, vars
  <1>15. CASE DisposeLock
    BY <1>1, <1>2, <1>15 DEF DisposeLock, EarlyCalls, EarlyGst, Goto, Threads, Disposing, Unreffing,
       BusNested,
       Unchanged, NoGst, playerVars, vars
  <1>16. CASE DisposeDestroy
    BY <1>1, <1>2, <1>16 DEF DisposeDestroy, EarlyCalls, EarlyGst, Goto, Threads, Disposing, Unreffing,
       BusNested, Unchanged, NoGst, playerVars, vars
  <1>17. CASE DisposeEnd
    BY <1>1, <1>2, <1>17 DEF DisposeEnd, EarlyCalls, EarlyGst, Goto, Threads, Disposing, Unreffing,
       BusNested,
       Unchanged, NoGst, playerVars, vars
  <1>18. CASE DisposeFree
    BY <1>1, <1>2, <1>18 DEF DisposeFree, EarlyCalls, EarlyGst, Goto, Threads, Disposing, Unreffing,
       BusNested,
       Unchanged, NoGst, playerVars, vars
  <1>19. CASE Delete
    BY <1>1, <1>2, <1>19 DEF Delete, EarlyCalls, EarlyGst, Goto, Threads, Disposing, Unreffing,
       BusNested,
       Unchanged, NoGst, playerVars, vars
  <1>20. CASE UpdatePlayerState
    <2> DEFINE p == Updated(m, msg.old, msg.new)
    <2>1. ~PlaysOn(p) /\ p = Updated(m, msg.old, msg.new)
      BY <1>1, <1>20, UpdateFacts
    <2> HIDE DEF p
    <2>2. UNCHANGED <<gst, queue, msg>> /\ pc' = [pc EXCEPT !["bus"] = "Unref"]
      BY <1>20, <2>1 DEF UpdatePlayerState, Goto, Unchanged
    <2> QED BY <1>1, <1>2, <2>2 DEF EarlyCalls, EarlyGst, Threads, BusNested
  <1>21. CASE OnError
    <2>1. UNCHANGED <<gst, queue>> \/ Happens(Result(Halted(gst), <<>>))
      BY <1>21 DEF OnError, NoGst
    <2>2. EarlyGst' /\ NoPlays(queue')
      BY <1>1, <2>1, HaltedOK, NoPlaysKept DEF Happens, Result, IInv, EarlyGst, NoPlays
    <2> QED BY <1>1, <1>2, <1>21, <2>2 DEF OnError, EarlyCalls, Goto, Threads, Disposing, Unreffing,
               BusNested, Unchanged
  <1>22. CASE DisposeNull
    <2>1. UNCHANGED <<gst, queue>> \/ Happens(Result(Halted(gst), <<>>))
      BY <1>22 DEF DisposeNull, NoGst
    <2>2. EarlyGst' /\ NoPlays(queue')
      BY <1>1, <2>1, HaltedOK, NoPlaysKept DEF Happens, Result, IInv, EarlyGst, NoPlays
    <2> QED BY <1>1, <1>2, <1>22, <2>2 DEF DisposeNull, EarlyCalls, Goto, Threads, Disposing,
               Unreffing, BusNested, Unchanged
  <1>23. CASE Dispatch
    BY <1>1, <1>2, <1>23, NoPlaysKept DEF Dispatch, EarlyCalls, EarlyGst, Goto, Threads, BusNested
  <1>24. CASE StreamFails
    <2> DEFINE x == [kind |-> "error"]
    <2>1. x \in Messages /\ ~Plays(x)
      BY DEF Messages, Plays, Says
    <2>2. queue' = Append(queue, x) /\ UNCHANGED <<gst, pc, msg>>
      BY <1>24 DEF StreamFails, Post
    <2> HIDE DEF x
    <2> QED BY <1>1, <1>2, <2>1, <2>2, NoPlaysKept DEF EarlyCalls, EarlyGst
  <1>25. CASE Underrun
    <2> DEFINE x == [kind |-> "underrun"]
    <2>1. x \in Messages /\ ~Plays(x)
      BY DEF Messages, Plays, Says
    <2>2. queue' = Append(queue, x) /\ UNCHANGED <<gst, pc, msg>>
      BY <1>25 DEF Underrun, Post
    <2> HIDE DEF x
    <2> QED BY <1>1, <1>2, <2>1, <2>2, NoPlaysKept DEF EarlyCalls, EarlyGst
  <1>26. CASE Download
    <2>1. PICK enough \in BOOLEAN : Post([kind |-> "buffering", eos |-> bound.progress = 1, enough |-> enough])
      BY <1>26 DEF Download
    <2> DEFINE x == [kind |-> "buffering", eos |-> bound.progress = 1, enough |-> enough]
    <2>2. x \in Messages /\ ~Plays(x)
      BY DEF Messages, Plays, Says
    <2>3. queue' = Append(queue, x) /\ UNCHANGED <<gst, pc, msg>>
      BY <1>26, <2>1 DEF Download, Post
    <2> HIDE DEF x
    <2> QED BY <1>1, <1>2, <2>2, <2>3, NoPlaysKept DEF EarlyCalls, EarlyGst
  <1>27. CASE Preroll
    <2>1. gst.pending # Void /\ gst.next = "PAUSED" /\ gst.target = "PAUSED" /\ gst \in Elements
      BY <1>1, <1>27 DEF Preroll, EarlyGst, IInv, GstOK
    <2>2. AsyncDone(gst) = Result(At(gst, "PAUSED"), <<Changed(gst.state, "PAUSED")>>)
      BY <2>1 DEF AsyncDone
    <2> DEFINE x == Changed(gst.state, "PAUSED")
    <2>3. x \in Messages /\ ~Plays(x)
      BY <2>1, ChangedFacts DEF Elements, States
    <2>4. gst' = At(gst, "PAUSED") /\ UNCHANGED <<pc, msg>>
      BY <1>27, <2>2 DEF Preroll, Happens, Result, Unchanged
    <2>5. gst'.state = "PAUSED" /\ gst'.pending = Void /\ ~gst'.cont
      BY <2>1, <2>4 DEF At, Elements
    <2>6. queue' = Append(queue, x)
      BY <1>27, <1>2, <2>2, <2>3, <2>4, <2>5, AppendFacts DEF Preroll, Happens, Result
    <2> HIDE DEF x
    <2> QED BY <1>1, <1>2, <2>3, <2>4, <2>5, <2>6, NoPlaysKept DEF EarlyCalls, EarlyGst
  <1>28. CASE UNCHANGED vars
    BY <1>1, <1>28 DEF vars, playerVars, EarlyCalls, EarlyGst
  <1> QED
    BY <1>3, <1>4, <1>5, <1>6, <1>7, <1>8, <1>9, <1>10, <1>11, <1>12, <1>13, <1>14, <1>15,
       <1>16, <1>17, <1>18, <1>19, <1>20, <1>21, <1>22, <1>23, <1>24, <1>25, <1>26, <1>27, <1>28
       DEF Next, Code, Pausing, JavaStep, BusStep, Pipeline
-----------------------------------------------------------------------------
(* Steps that leave alone what the player shows and what it has yet to     *)
(* show.                                                                   *)
Steady ==
  /\ Unshown' <=> Unshown
  /\ Unshown \/ Says(msg') => msg' = msg
  /\ m'.state = m.state \/ (m.state \in {"Stopped", "Stalled"} /\ m'.state = "Paused")
  /\ pc'["bus"] \in {"Enter", "OnEos"} => msg' = msg /\ pc["bus"] \in {"Enter", "OnEos"}
  /\ pc'["bus"] = "Error" <=> pc["bus"] = "Error"

LEMMA SteadyStep ==
  ASSUME IInv, Typed, Bus, [Next]_vars
  PROVE  \/ Steady \/ pc'["java"] \in Disposing \/ Dispatch
         \/ OnState \/ UpdatePlayerState \/ OnEos \/ OnError \/ SetError
  <1>1. /\ m \in Members /\ msg \in Messages \cup {NoMessage} /\ ~Says(NoMessage)
        /\ pc \in [Threads -> CallLabels \cup Disposing \cup PulseLabels \cup Handling \cup Dispatching \cup {"Over"}]
        /\ ret \in [Threads -> JavaReturns \cup {"Update", "Unref"}]
        /\ pc["bus"] \in BusNested => ret["bus"] \in {"Update", "Unref"}
    BY DEF Typed, Bus, IInv, Control, Says, NoMessage
  <1>2. CASE Aside
    BY <1>2 DEF Aside, Steady, Unshown
  <1>3. CASE Nested
    BY <1>1, <1>3 DEF Nested, Steady, Unshown, BusNested
  <1>4. CASE BusCallback
    <2>1. CASE Ignores
      <3>1. pc["java"] \in Disposing
        BY <2>1 DEF Ignores, IInv, Freeing, Disposing
      <3> QED BY <1>1, <1>4, <3>1 DEF BusCallback, Goto, Threads
    <2>2. CASE ~Ignores
      BY <1>1, <1>4, <2>2, MessageFacts DEF BusCallback, Handler, Goto, Threads, playerVars, Steady,
         Unshown, BusNested, Says
    <2> QED BY <2>1, <2>2
  <1>5. CASE Unref
    BY <1>1, <1>5, UnrefFacts DEF Goto, Threads, Steady, Unshown, BusNested, Unreffing
  <1>6. CASE DestroyNotify \/ NotifyFree
    BY <1>1, <1>6 DEF DestroyNotify, NotifyFree, Goto, Threads, playerVars, Steady, Unshown, BusNested
  <1>7. CASE UpdateBufferPosition
    BY <1>1, <1>7 DEF UpdateBufferPosition, Goto, Call, Threads, Unchanged, Members, Steady, Unshown,
       BusNested
  <1>8. CASE OnBuffering
    BY <1>1, <1>8 DEF OnBuffering, Goto, Call, Threads, Unchanged, Members, Steady, Unshown, BusNested
  <1>9. CASE OnUnderrun \/ Stall
    BY <1>1, <1>9 DEF OnUnderrun, Stall, Goto, Call, Threads, Unchanged, Members, Steady, Unshown,
       BusNested
  <1> QED BY <1>2, <1>3, <1>4, <1>5, <1>6, <1>7, <1>8, <1>9, Kinds

(* A disposal is not taken back.                                           *)
LEMMA DisposingStays ==
  ASSUME IInv, [Next]_vars, pc["java"] \in Disposing
  PROVE  pc'["java"] \in Disposing
  <1>1. pc \in [Threads -> CallLabels \cup Disposing \cup PulseLabels \cup Handling \cup Dispatching \cup {"Over"}]
    BY DEF IInv, Control
  <1>2. CASE \/ Unpend \/ PauseCall \/ PauseLock \/ StopCall \/ StopLock \/ SeekCall \/ SeekFlush
             \/ SeekResume \/ SeekSet \/ RateZeroCall \/ RateZeroSet \/ RateOneCall
             \/ (\E c \in Calls : JavaCall(c)) \/ Dispose
    BY <1>2 DEF Unpend, PauseCall, PauseLock, StopCall, StopLock, SeekCall, SeekFlush,
       SeekResume, SeekSet, RateZeroCall, RateZeroSet, RateOneCall, JavaCall, Dispose, Disposing, Unreffing
  <1>3. CASE \/ DisposeNull \/ DisposeLock \/ DisposeDestroy \/ DisposeEnd \/ DisposeFree \/ Delete
    BY <1>1, <1>3 DEF DisposeNull, DisposeLock, DisposeDestroy, DisposeEnd, DisposeFree, Delete,
       Disposing, Unreffing, Goto, Threads
  <1>4. CASE \/ (\E t \in Threads : PlayTest(t)) \/ (\E t \in Threads : PlaySet(t))
             \/ (\E t \in Threads : PauseTest(t)) \/ (\E t \in Threads : PauseSet(t))
    BY <1>1, <1>4 DEF PlayTest, PlaySet, PauseTest, PauseSet, Disposing, Unreffing, Goto, Return,
       Threads
  <1>5. CASE \/ PulseCall \/ FinishCall \/ Preroll \/ ContinueState \/ StreamEnds \/ StreamFails
             \/ Download \/ Underrun \/ Dispatch \/ BusCallback \/ OnState
             \/ UpdateBufferPosition \/ OnBuffering \/ UpdatePlayerState \/ OnEos \/ OnError
             \/ SetError \/ OnUnderrun \/ Stall \/ DestroyNotify \/ NotifyFree
    BY <1>1, <1>5 DEF PulseCall, FinishCall, Preroll, ContinueState, StreamEnds, StreamFails,
       Download, Underrun, Dispatch, BusCallback, OnState, UpdateBufferPosition,
       OnBuffering, UpdatePlayerState, OnEos, OnError, SetError, OnUnderrun, Stall,
       DestroyNotify, NotifyFree, Goto, Call, Threads
  <1>6. CASE Unref
    BY <1>6, UnrefFacts DEF Disposing
  <1>7. CASE UNCHANGED vars
    BY <1>7 DEF vars, playerVars
  <1> QED
    BY <1>2, <1>3, <1>4, <1>5, <1>6, <1>7
       DEF Next, Code, Pausing, JavaStep, BusStep, Pipeline

(* The pipeline leaves NULL only by a change that is upset.                *)
LEMMA NullStays ==
  ASSUME IInv, Resting, [Next]_vars, gst.state = "NULL", ~upset'
  PROVE  gst'.state = "NULL"
  <1>1. ~(Rank[gst.state] >= Rank["PAUSED"]) /\ gst.pending = Void /\ ~gst.cont
    BY DEF Rank, States, Resting, AtNull
  <1>2. CASE SeekSet
    BY <1>1, <1>2 DEF SeekSet, Change
  <1>3. CASE \E t \in Threads : PlaySet(t)
    BY <1>1, <1>3 DEF PlaySet, DoPlay, Change
  <1>4. CASE \E t \in Threads : PauseSet(t)
    BY <1>1, <1>4 DEF PauseSet, Change, NoGst
  <1>5. CASE UpdatePlayerState
    BY <1>1, <1>5 DEF UpdatePlayerState, DoPlay, Change
  <1>6. CASE SeekFlush
    BY <1>1, <1>6 DEF SeekFlush, SeekPipeline
  <1>7. CASE RateOneCall
    BY <1>1, <1>7 DEF RateOneCall, SeekPipeline, NoGst
  <1>8. CASE Preroll
    BY <1>1, <1>8 DEF Preroll
  <1>9. CASE ContinueState
    BY <1>1, <1>9 DEF ContinueState
  <1>10. CASE OnError
    BY <1>1, <1>10, HaltedOK DEF OnError, Happens, Result, IInv, NoGst
  <1>11. CASE DisposeNull
    BY <1>1, <1>11, HaltedOK DEF DisposeNull, Happens, Result, IInv
  <1>12. CASE \/ Unpend \/ PauseCall \/ PauseLock \/ StopCall \/ StopLock \/ SeekCall \/ SeekResume
              \/ RateZeroCall \/ RateZeroSet \/ (\E c \in Calls : JavaCall(c)) \/ PulseCall
              \/ FinishCall \/ (\E t \in Threads : PlayTest(t)) \/ (\E t \in Threads : PauseTest(t))
              \/ StreamEnds \/ StreamFails \/ Download \/ Underrun \/ Dispatch \/ BusCallback
              \/ Unref \/ OnState \/ UpdateBufferPosition \/ OnBuffering \/ OnEos \/ SetError
              \/ OnUnderrun \/ Stall \/ DestroyNotify \/ NotifyFree \/ Dispose \/ DisposeLock
              \/ DisposeDestroy \/ DisposeEnd \/ DisposeFree \/ Delete \/ UNCHANGED vars
    BY <1>12, UnrefFacts DEF Unpend, PauseCall, PauseLock, StopCall, StopLock, SeekCall, SeekResume,
       RateZeroCall, RateZeroSet, JavaCall, PulseCall, FinishCall, PlayTest, PauseTest,
       StreamEnds, StreamFails, Download, Underrun, Dispatch, BusCallback, OnState,
       UpdateBufferPosition, OnBuffering, OnEos, SetError, OnUnderrun, Stall, DestroyNotify,
       NotifyFree, Dispose, DisposeLock, DisposeDestroy, DisposeEnd, DisposeFree, Delete, NoGst,
       playerVars, vars, Unreffing
  <1> QED
    BY <1>2, <1>3, <1>4, <1>5, <1>6, <1>7, <1>8, <1>9, <1>10, <1>11, <1>12
       DEF Next, Code, Pausing, JavaStep, BusStep, Pipeline

LEMMA BegunBoolean == Begun \in BOOLEAN /\ Begun' \in BOOLEAN
  <1>1. Begun \in BOOLEAN
    <2>1. CASE Unshown
      BY <2>1 DEF Begun, Plays, Says
    <2>2. CASE ~Unshown
      BY <2>2 DEF Begun
    <2> QED BY <2>1, <2>2
  <1>2. Begun' \in BOOLEAN
    <2>1. CASE Unshown'
      BY <2>1 DEF Begun, Plays, Says
    <2>2. CASE ~Unshown'
      BY <2>2 DEF Begun
    <2> QED BY <2>1, <2>2
  <1> QED BY <1>1, <1>2

LEMMA EndingKept ==
  ASSUME Bus, Ending, Moves, upset => upset', pc["java"] \in Disposing => pc'["java"] \in Disposing,
         ~upset' /\ Begun => Begun',
         ~upset' /\ pc'["bus"] \in {"Enter", "OnEos"} /\ msg'.kind = "eos" => m'.state \in {"Playing", "Finished"},
         ~upset' /\ (m'.state = "Error" \/ pc'["bus"] = "Error") => gst'.state = "NULL"
  PROVE  Ending'
  <1> SUFFICES ASSUME ~upset', pc'["java"] \notin Disposing
               PROVE  /\ gst'.state = "PLAYING" => Live(queue', Begun', Len(queue'))
                      /\ \A k \in 1..Len(queue') : queue'[k].kind = "eos" => Live(queue', Begun', k - 1)
    BY DEF Ending
  <1> DEFINE b == Begun
             c == Begun'
  <1>0. b \in BOOLEAN /\ c \in BOOLEAN
    BY BegunBoolean
  <1>1. /\ b \in BOOLEAN /\ c \in BOOLEAN /\ (b => c)
        /\ queue \in Seq(Messages) /\ Len(queue) \in Nat
        /\ gst.state = "PLAYING" => Live(queue, b, Len(queue))
        /\ \A k \in 1..Len(queue) : queue[k].kind = "eos" => Live(queue, b, k - 1)
    BY <1>0 DEF Ending, Bus
  <1> HIDE DEF b
  <1> SUFFICES /\ gst'.state = "PLAYING" => Live(queue', c, Len(queue'))
               /\ \A k \in 1..Len(queue') : queue'[k].kind = "eos" => Live(queue', c, k - 1)
    OBVIOUS
  <1> HIDE DEF c
  <1>2. CASE queue' = queue /\ (gst'.state \in {"PLAYING", "NULL"} => gst.state = gst'.state)
    BY <1>1, <1>2, LiveWeaker
  <1>3. CASE queue' = <<>> /\ gst'.state # "PLAYING"
    BY <1>3
  <1>4. CASE \E x : Posted(x)
    <2>1. PICK x : Posted(x)
      BY <1>4
    <2>2. x \in Messages /\ queue' = Append(queue, x)
      BY <2>1 DEF Posted
    <2>3. /\ Len(queue') = Len(queue) + 1 /\ queue'[Len(queue) + 1] = x
          /\ \A i \in 1..Len(queue) : queue'[i] = queue[i]
      BY <1>1, <2>2, AppendFacts
    <2>4. gst.state = "PLAYING" => Live(queue, c, Len(queue))
      BY <1>1, LiveWeaker
    <2>5. \A k \in 1..Len(queue) : queue[k].kind = "eos" => Live(queue, c, k - 1)
      BY <1>1, LiveWeaker
    <2>6. gst'.state = "PLAYING" => Live(queue', c, Len(queue) + 1)
      <3>1. Len(queue) \in 0..Len(queue)
        BY <1>1
      <3> QED BY <1>1, <2>1, <2>2, <2>4, <3>1, LiveAppend DEF Posted
    <2>7. ASSUME NEW k \in 1..(Len(queue) + 1), queue'[k].kind = "eos"
          PROVE  Live(queue', c, k - 1)
      <3>1. k - 1 \in 0..Len(queue)
        BY <1>1
      <3>2. Live(queue, c, k - 1)
        <4>1. CASE k \in 1..Len(queue)
          BY <2>3, <2>5, <2>7, <4>1
        <4>2. CASE k = Len(queue) + 1
          <5>1. gst.state = "PLAYING"
            BY <2>1, <2>3, <2>7, <4>2 DEF Posted
          <5>2. k - 1 = Len(queue)
            BY <1>1, <4>2
          <5> QED BY <2>4, <5>1, <5>2
        <4> QED BY <1>1, <4>1, <4>2
      <3> QED BY <1>1, <2>2, <3>1, <3>2, LiveAppend
    <2> QED BY <2>3, <2>6, <2>7
  <1> QED BY <1>2, <1>3, <1>4 DEF Moves

LEMMA EndingDispatched ==
  ASSUME IInv, Bus, Ending, Dispatch
  PROVE  Ending'
  <1>1. /\ pc["bus"] = "idle" /\ pc'["bus"] = "Enter" /\ pc'["java"] = pc["java"]
        /\ queue # <<>> /\ queue' = Tail(queue) /\ msg' = Head(queue)
        /\ UNCHANGED <<gst, m, upset>>
    BY DEF Dispatch, Goto, IInv, Control, Threads
  <1> SUFFICES ASSUME ~upset, pc["java"] \notin Disposing
               PROVE  /\ gst.state = "PLAYING" => Live(queue', Begun', Len(queue'))
                      /\ \A k \in 1..Len(queue') : queue'[k].kind = "eos" => Live(queue', Begun', k - 1)
                      /\ msg'.kind = "eos" => m.state \in {"Playing", "Finished"}
                      /\ m.state = "Error" => gst.state = "NULL"
    BY <1>1 DEF Ending
  <1> DEFINE b == m.state \in {"Playing", "Finished"}
             c == Begun'
  <1>2. /\ ~Unshown /\ Begun = b
        /\ c = IF Says(Head(queue)) THEN Plays(Head(queue)) ELSE b
    BY <1>1 DEF Begun, Unshown, BusNested
  <1>3. c \in BOOLEAN /\ (Plays(Head(queue)) => c) /\ (b /\ ~Says(Head(queue)) => c)
    <2>1. c \in BOOLEAN
      BY BegunBoolean
    <2>2. Plays(Head(queue)) => Says(Head(queue))
      BY DEF Plays
    <2> QED BY <1>2, <2>1, <2>2
  <1> SUFFICES /\ gst.state = "PLAYING" => Live(queue', c, Len(queue'))
               /\ \A k \in 1..Len(queue') : queue'[k].kind = "eos" => Live(queue', c, k - 1)
               /\ msg'.kind = "eos" => b
               /\ m.state = "Error" => gst.state = "NULL"
    OBVIOUS
  <1>4. /\ b \in BOOLEAN
        /\ gst.state = "PLAYING" => Live(queue, b, Len(queue))
        /\ \A k \in 1..Len(queue) : queue[k].kind = "eos" => Live(queue, b, k - 1)
        /\ m.state = "Error" => gst.state = "NULL"
    BY <1>2 DEF Ending
  <1> HIDE DEF b, c
  <1>5. /\ queue \in Seq(Messages) /\ Len(queue') = Len(queue) - 1 /\ Head(queue) = queue[1]
        /\ Len(queue) \in Nat \ {0} /\ \A i \in 1..(Len(queue) - 1) : queue'[i] = queue[i + 1]
    BY <1>1, TailFacts DEF Bus
  <1>6. gst.state = "PLAYING" => Live(queue', c, Len(queue'))
    <2>1. Len(queue) \in 1..Len(queue)
      BY <1>5
    <2> QED BY <1>1, <1>3, <1>4, <1>5, <2>1, LiveTail
  <1>7. ASSUME NEW k \in 1..Len(queue'), queue'[k].kind = "eos"
        PROVE  Live(queue', c, k - 1)
    <2>1. k \in 1..Len(queue) /\ k + 1 \in 1..Len(queue) /\ queue[k + 1].kind = "eos" /\ k + 1 - 1 = k
      BY <1>5, <1>7
    <2>2. Live(queue, b, k)
      BY <1>4, <2>1
    <2> QED BY <1>1, <1>3, <1>4, <1>5, <2>1, <2>2, LiveTail
  <1>8. ASSUME msg'.kind = "eos" PROVE b
    <2>1. 1 \in 1..Len(queue) /\ queue[1].kind = "eos"
      BY <1>1, <1>5, <1>8
    <2>2. Live(queue, b, 1 - 1)
      BY <1>4, <2>1
    <2> QED BY <2>2 DEF Live
  <1> QED BY <1>4, <1>6, <1>7, <1>8

LEMMA EndingStep ==
  ASSUME IInv, Typed, Bus, Resting, Early, Ending, [Next]_vars
  PROVE  Ending'
  <1> SUFFICES ASSUME ~upset', pc'["java"] \notin Disposing
               PROVE  Ending'
    BY DEF Ending
  <1>1. /\ ~upset /\ pc["java"] \notin Disposing /\ m \in Members /\ (gst.state = "NULL" => gst'.state = "NULL")
        /\ pc \in [Threads -> CallLabels \cup Disposing \cup PulseLabels \cup Handling \cup Dispatching \cup {"Over"}]
    BY UpsetStays, DisposingStays, NullStays DEF Typed, IInv, Control
  <1>2. /\ pc["bus"] \in {"Enter", "OnEos"} /\ msg.kind = "eos" => m.state \in {"Playing", "Finished"}
        /\ m.state = "Error" \/ pc["bus"] = "Error" => gst.state = "NULL"
    BY <1>1 DEF Ending
  <1>3. CASE Dispatch
    BY <1>3, EndingDispatched
  <1>4. ASSUME ~Dispatch PROVE Moves
    BY <1>4, MovesStep
  <1>5. CASE Steady /\ ~Dispatch
    <2>1. Begun => Begun'
      BY <1>5 DEF Steady, Begun
    <2>2. pc'["bus"] \in {"Enter", "OnEos"} /\ msg'.kind = "eos" => m'.state \in {"Playing", "Finished"}
      BY <1>2, <1>5 DEF Steady
    <2>3. m'.state = "Error" \/ pc'["bus"] = "Error" => gst'.state = "NULL"
      BY <1>1, <1>2, <1>5 DEF Steady
    <2> QED BY <1>1, <1>4, <1>5, <2>1, <2>2, <2>3, EndingKept
  <1>6. CASE OnState
    <2>1. /\ pc["bus"] = "OnState" /\ pc'["bus"] \in {"Unref", "UpdateBufferPosition", "Update"}
          /\ (pc'["bus"] = "Unref" => ~Counts) /\ UNCHANGED <<m, msg, gst, queue>>
      BY <1>1, <1>6 DEF OnState, Goto, Threads, NoGst, Unchanged
    <2>2. Unshown /\ Says(msg) /\ (Plays(msg) => msg.old = "PAUSED" /\ m.state # "Unknown")
      BY <2>1 DEF Bus, Unshown, Early
    <2>3. Begun => Begun'
      <3>1. CASE pc'["bus"] = "Unref"
        BY <2>1, <2>2, <3>1 DEF Counts, Begun, Plays
      <3>2. CASE pc'["bus"] # "Unref"
        BY <2>1, <2>2, <3>2 DEF Begun, Unshown
      <3> QED BY <3>1, <3>2
    <2>4. ~Dispatch
      BY <2>1 DEF Dispatch
    <2> QED BY <1>1, <1>2, <1>4, <2>1, <2>3, <2>4, EndingKept
  <1>7. CASE UpdatePlayerState
    <2> DEFINE p == Updated(m, msg.old, msg.new)
    <2>1. /\ m'.state = p.state /\ Table(m, msg.old, msg.new, p) /\ Says(msg) /\ ~Misread(p)
          /\ pc["bus"] = "Update" /\ pc'["bus"] = "Unref" /\ msg' = msg
          /\ Moves
      BY <1>1, <1>4, <1>7, UpdateFacts DEF Threads, Dispatch
    <2> HIDE DEF p
    <2>2. Unshown /\ ~Unshown'
      BY <2>1 DEF Unshown, BusNested
    <2>3. Plays(msg) => msg.old = "PAUSED" /\ m.state # "Unknown" /\ ~Settled(m, p)
      BY <2>1 DEF Bus, Early, Misread, Settled, Plays
    <2>4. CASE m.state = "Error"
      <3>1. gst'.state = "NULL" /\ queue = <<>>
        BY <1>1, <1>2, <2>4 DEF Resting
      <3>2. queue' = <<>>
        BY <2>1, <3>1 DEF Moves, Posted
      <3> QED BY <2>1, <3>1, <3>2 DEF Ending
    <2>5. CASE m.state # "Error"
      <3>1. Begun => Begun'
        BY <2>1, <2>2, <2>3, <2>5 DEF Begun, Table, Plays
      <3>2. m.state \in PlayerStates
        BY <1>1 DEF Members
      <3>3. m'.state # "Error"
        BY <2>1, <2>5, <3>2 DEF Table, Follows, PlayerStates
      <3> QED BY <1>1, <2>1, <3>1, <3>3, EndingKept
    <2> QED BY <2>4, <2>5
  <1>8. CASE OnEos
    <2>1. /\ pc["bus"] = "OnEos" /\ pc'["bus"] = "Unref" /\ m'.state = "Finished" /\ Moves
      BY <1>1, <1>4, <1>8 DEF OnEos, Goto, Threads, Members, Dispatch
    <2>2. Begun'
      BY <2>1 DEF Begun, Unshown, BusNested
    <2> QED BY <1>1, <2>1, <2>2, EndingKept
  <1>9. CASE OnError
    <2>1. /\ pc["bus"] = "OnError" /\ pc'["bus"] = "Error" /\ m' = m /\ msg' = msg /\ Moves
      BY <1>1, <1>4, <1>9 DEF OnError, Goto, Threads, Dispatch, Unchanged
    <2>2. gst'.state = "NULL"
      BY <1>1, <1>2, <1>9, HaltedOK DEF OnError, Happens, Result, IInv
    <2>3. Begun => Begun'
      BY <2>1 DEF Begun, Unshown, BusNested
    <2> QED BY <1>1, <2>1, <2>2, <2>3, EndingKept
  <1>10. CASE SetError
    <2>1. pc["bus"] = "Error" /\ pc'["bus"] = "Unref" /\ UNCHANGED <<gst, queue, msg>>
      BY <1>1, <1>10 DEF SetError, Goto, Threads, NoGst, Unchanged
    <2>2. gst'.state = "NULL" /\ queue' = <<>>
      BY <1>2, <2>1 DEF Resting
    <2> QED BY <2>1, <2>2 DEF Ending
  <1> QED BY <1>3, <1>5, <1>6, <1>7, <1>8, <1>9, <1>10, SteadyStep
-----------------------------------------------------------------------------
(* Who pauses the pipeline has announced it, and only UpdatePlayerState    *)
(* settles what was announced.                                             *)
LEMMA AnnouncedStep ==
  ASSUME IInv, Typed, Announced, [Next]_vars, ~UpdatePlayerState, ~upset'
  PROVE  Announced' /\ (Armed => Armed')
  <1>1. /\ m \in Members
        /\ pc \in [Threads -> CallLabels \cup Disposing \cup PulseLabels \cup Handling \cup Dispatching \cup {"Over"}]
        /\ ret["java"] \in JavaReturns /\ (pc["bus"] \in BusNested => ret["bus"] \in {"Update", "Unref"})
    BY DEF Typed, IInv, Control
  <1>2. CASE Unpend
    BY <1>1, <1>2 DEF Unpend, Announced, Armed, Members, Goto, Threads, Call
  <1>3. CASE PauseCall
    BY <1>1, <1>3 DEF PauseCall, Announced, Armed, Members, Goto, Threads, Return, JavaReturns,
       BusNested
  <1>4. CASE PauseLock
    BY <1>1, <1>4 DEF PauseLock, Announced, Armed, Members, Goto, Threads, Return, JavaReturns,
       BusNested
  <1>5. CASE StopCall
    BY <1>1, <1>5 DEF StopCall, Announced, Armed, Members, Goto, Threads
  <1>6. CASE StopLock
    BY <1>1, <1>6 DEF StopLock, Announced, Armed, Members, Goto, Threads, Call
  <1>7. CASE SeekCall
    BY <1>1, <1>7 DEF SeekCall, Announced, Armed, Members, Goto, Threads
  <1>8. CASE SeekFlush
    BY <1>1, <1>8 DEF SeekFlush, Announced, Armed, Members, Goto, Threads, SeekPipeline
  <1>9. CASE SeekResume
    BY <1>1, <1>9 DEF SeekResume, Announced, Armed, Members, Goto, Threads
  <1>10. CASE SeekSet
    BY <1>1, <1>10 DEF SeekSet, Announced, Armed, Members, Goto, Threads
  <1>11. CASE RateZeroCall
    BY <1>1, <1>11 DEF RateZeroCall, Announced, Armed, Members, Goto, Threads, Call
  <1>12. CASE RateZeroSet
    BY <1>1, <1>12 DEF RateZeroSet, Announced, Armed, Members, Goto, Threads
  <1>13. CASE RateOneCall
    BY <1>1, <1>13 DEF RateOneCall, Announced, Armed, Members, Goto, Threads, SeekPipeline
  <1>14. CASE \E c \in Calls : JavaCall(c)
    BY <1>1, <1>14 DEF JavaCall, Announced, Armed, Members, Goto, Threads, Call
  <1>15. CASE PulseCall
    BY <1>1, <1>15 DEF PulseCall, Announced, Armed, Members, Goto, Threads
  <1>16. CASE FinishCall
    BY <1>1, <1>16 DEF FinishCall, Announced, Armed, Members, Goto, Threads, Call
  <1>17. CASE \E t \in Threads : PlayTest(t)
    BY <1>1, <1>17 DEF PlayTest, Announced, Armed, Members, Goto, Threads, Return, JavaReturns,
       BusNested
  <1>18. CASE \E t \in Threads : PlaySet(t)
    BY <1>1, <1>18 DEF PlaySet, Announced, Armed, Members, Goto, Threads, Return, DoPlay,
       JavaReturns, BusNested
  <1>19. CASE \E t \in Threads : PauseTest(t)
    BY <1>1, <1>19 DEF PauseTest, Announced, Armed, Members, Goto, Threads, Return, JavaReturns,
       BusNested
  <1>20. CASE \E t \in Threads : PauseSet(t)
    <2>1. PICK t \in Threads : PauseSet(t)
      BY <1>20
    <2>2. m'.pending = m.pending /\ m'.stallOnPause = m.stallOnPause
      BY <1>1, <2>1 DEF PauseSet, Members
    <2>3. pc' = [pc EXCEPT ![t] = ret[t]]
      BY <2>1 DEF PauseSet, Change, Goto, Return
    <2>4. CASE t = "java"
      BY <1>1, <2>2, <2>3, <2>4 DEF Announced, Armed, Threads, JavaReturns
    <2>5. CASE t = "pulse"
      BY <1>1, <2>2, <2>3, <2>5 DEF Announced, Armed, Threads
    <2>6. CASE t = "bus"
      BY <1>1, <2>1, <2>2, <2>3, <2>6 DEF PauseSet, Announced, Armed, Threads, BusNested
    <2> QED BY <2>4, <2>5, <2>6 DEF Threads
  <1>21. CASE Preroll
    BY <1>1, <1>21 DEF Preroll, Announced, Armed, Members, Goto, Threads
  <1>22. CASE ContinueState
    BY <1>1, <1>22 DEF ContinueState, Announced, Armed, Members, Goto, Threads
  <1>23. CASE StreamEnds
    BY <1>1, <1>23 DEF StreamEnds, Announced, Armed, Members, Goto, Threads
  <1>24. CASE StreamFails
    BY <1>1, <1>24 DEF StreamFails, Announced, Armed, Members, Goto, Threads
  <1>25. CASE Download
    BY <1>1, <1>25 DEF Download, Announced, Armed, Members, Goto, Threads
  <1>26. CASE Underrun
    BY <1>1, <1>26 DEF Underrun, Announced, Armed, Members, Goto, Threads
  <1>27. CASE Dispatch
    BY <1>1, <1>27 DEF Dispatch, Announced, Armed, Members, Goto, Threads
  <1>28. CASE BusCallback
    BY <1>1, <1>28 DEF BusCallback, Announced, Armed, Members, Goto, Threads, Handler,
       playerVars
  <1>29. CASE Unref
    BY <1>1, <1>29, UnrefFacts DEF Announced, Armed, Members, Goto, Threads, Unreffing
  <1>30. CASE OnState
    BY <1>1, <1>30 DEF OnState, Announced, Armed, Members, Goto, Threads
  <1>31. CASE UpdateBufferPosition
    BY <1>1, <1>31 DEF UpdateBufferPosition, Announced, Armed, Members, Goto, Threads, Call
  <1>32. CASE OnBuffering
    BY <1>1, <1>32 DEF OnBuffering, Announced, Armed, Members, Goto, Threads, Call
  <1>33. CASE OnEos
    BY <1>1, <1>33 DEF OnEos, Announced, Armed, Members, Goto, Threads
  <1>34. CASE OnError
    BY <1>1, <1>34 DEF OnError, Announced, Armed, Members, Goto, Threads
  <1>35. CASE SetError
    BY <1>1, <1>35 DEF SetError, Announced, Armed, Members, Goto, Threads
  <1>36. CASE OnUnderrun
    BY <1>1, <1>36 DEF OnUnderrun, Announced, Armed, Members, Goto, Threads
  <1>37. CASE Stall
    BY <1>1, <1>37 DEF Stall, Announced, Armed, Members, Goto, Threads, Call
  <1>38. CASE DestroyNotify
    BY <1>1, <1>38 DEF DestroyNotify, Announced, Armed, Members, Goto, Threads, playerVars
  <1>39. CASE NotifyFree
    BY <1>1, <1>39 DEF NotifyFree, Announced, Armed, Members, Goto, Threads, playerVars
  <1>40. CASE Dispose
    BY <1>1, <1>40 DEF Dispose, Announced, Armed, Members, Goto, Threads, playerVars
  <1>41. CASE DisposeNull
    BY <1>1, <1>41 DEF DisposeNull, Announced, Armed, Members, Goto, Threads
  <1>42. CASE DisposeLock
    BY <1>1, <1>42 DEF DisposeLock, Announced, Armed, Members, Goto, Threads, playerVars
  <1>43. CASE DisposeDestroy
    BY <1>1, <1>43 DEF DisposeDestroy, Announced, Armed, Members, Goto, Threads, playerVars
  <1>44. CASE DisposeEnd
    BY <1>1, <1>44 DEF DisposeEnd, Announced, Armed, Members, Goto, Threads, playerVars
  <1>45. CASE DisposeFree
    BY <1>1, <1>45 DEF DisposeFree, Announced, Armed, Members, Goto, Threads, playerVars
  <1>46. CASE Delete
    BY <1>1, <1>46 DEF Delete, Announced, Armed, Members, Goto, Threads, playerVars
  <1>47. CASE UNCHANGED vars
    BY <1>47 DEF vars, playerVars, Announced, Armed
  <1> QED
    BY <1>2, <1>3, <1>4, <1>5, <1>6, <1>7, <1>8, <1>9, <1>10, <1>11, <1>12, <1>13, <1>14, <1>15,
       <1>16, <1>17, <1>18, <1>19, <1>20, <1>21, <1>22, <1>23, <1>24, <1>25, <1>26, <1>27,
       <1>28, <1>29, <1>30, <1>31, <1>32, <1>33, <1>34, <1>35, <1>36, <1>37, <1>38, <1>39,
       <1>40, <1>41, <1>42, <1>43, <1>44, <1>45, <1>46, <1>47
       DEF Next, Code, Pausing, JavaStep, BusStep, Pipeline

(* What a step does to the pipeline while nothing is upset: nothing, or a  *)
(* message that says nothing of its state; it is to play; it is to pause,  *)
(* as announced; it is flushed, prerolls, or is halted.                    *)
GstKept   == gst' = gst /\ (queue' = queue \/ \E x \in Messages : ~Says(x) /\ queue' = Append(queue, x))
GstPlays  == gst'.target = "PLAYING" /\ Aligned(gst') /\ gst'.state \in {"PAUSED", "PLAYING"}
GstPauses == /\ gst.state = "PLAYING" \/ (Armed /\ gst.state = "PAUSED")
             /\ \E r : Asked(gst, "PAUSED", r) /\ Happens(r)
GstSeeks  == gst' = LoseState(gst) /\ queue' = queue /\ Rank[gst.state] >= Rank["PAUSED"]
GstHalts  == gst'.state = "NULL" /\ Aligned(gst') /\ gst'.target = "NULL" /\ pc'["bus"] = "Error" /\ OnError

LEMMA SetStateKinds ==
  ASSUME IInv, Resting, Aligned(gst), gst.state # "READY", NEW s \in {"PAUSED", "PLAYING"}, NEW b,
         NEW r \in SetState(gst, s, b), NEW holds, Change(r, holds), ~upset'
  PROVE  Asked(gst, s, r) /\ Happens(r) /\ holds /\ gst.state \in {"PAUSED", "PLAYING"}
  <1>1. gst.state # "NULL" /\ ~Failed(r) /\ Happens(r) /\ holds
    BY DEF Change
  <1>2. GstOK(gst) /\ AtNull(gst) /\ gst.state \in {"PAUSED", "PLAYING"}
    BY <1>1 DEF IInv, Resting, GstOK, Elements, States
  <1> QED BY <1>1, <1>2, SetStateAsked

LEMMA GstKinds ==
  ASSUME IInv, Typed, Bus, Resting, Early, Aligned(gst), Announced, Below,
         [Next]_vars, ~Dispatch, ~upset', pc'["java"] \notin Disposing
  PROVE  GstKept \/ GstPlays \/ GstPauses \/ GstSeeks \/ Preroll \/ GstHalts
  <1>1. m.state # "Unknown" => gst.state # "READY"
    BY DEF Below
  <1>2. /\ m.state = "Unknown" => /\ pc["java"] \in {"idle"} \cup Disposing /\ pc["pulse"] \in {"idle", "Finish"}
                                  /\ pc["bus"] \notin BusNested
    BY DEF Early
  <1>3. pc \in [Threads -> CallLabels \cup Disposing \cup PulseLabels \cup Handling \cup Dispatching \cup {"Over"}]
    BY DEF IInv, Control
  <1>4. ASSUME NEW r \in SetState(gst, "PLAYING", bound.troubles > 0), NEW holds, Change(r, holds), m.state # "Unknown"
        PROVE  GstPlays
    <2>1. Asked(gst, "PLAYING", r) /\ gst' = r.gst
      BY <1>1, <1>4, SetStateKinds DEF Happens
    <2> QED BY <2>1 DEF Asked, GstPlays
  <1>5. CASE SeekSet
    <2>1. m.state # "Unknown"
      BY <1>2, <1>5 DEF SeekSet, Disposing, Unreffing
    <2> QED BY <1>4, <1>5, <2>1 DEF SeekSet
  <1>6. CASE \E t \in Threads : PlaySet(t)
    <2>1. m.state # "Unknown"
      BY <1>2, <1>6 DEF PlaySet, Disposing, Unreffing, Threads, BusNested
    <2> QED BY <1>4, <1>6, <2>1 DEF PlaySet, DoPlay, GstKept
  <1>7. CASE UpdatePlayerState
    <2> DEFINE p == Updated(m, msg.old, msg.new)
    <2>1. PlaysOn(p) => m.state # "Unknown"
      BY <1>7, UpdateFacts
    <2>2. (PlaysOn(p) /\ DoPlay(p, ~Misread(p))) \/ UNCHANGED <<gst, queue>>
      BY <1>7 DEF UpdatePlayerState
    <2> HIDE DEF p
    <2> QED BY <1>4, <2>1, <2>2 DEF DoPlay, GstKept
  <1>8. CASE \E t \in Threads : PauseSet(t)
    <2>1. PICK t \in Threads : PauseSet(t)
      BY <1>8
    <2>2. m.state # "Unknown"
      BY <1>2, <2>1 DEF PauseSet, Disposing, Unreffing, Threads, BusNested
    <2>3. UNCHANGED <<gst, queue>> \/ \E r \in SetState(gst, "PAUSED", bound.troubles > 0) : Change(r, t = "pulse" => gst.state = "PLAYING")
      BY <2>1 DEF PauseSet, NoGst
    <2>4. ASSUME NEW r \in SetState(gst, "PAUSED", bound.troubles > 0), Change(r, t = "pulse" => gst.state = "PLAYING")
          PROVE  GstPauses
      <3>1. /\ Asked(gst, "PAUSED", r) /\ Happens(r) /\ (t = "pulse" => gst.state = "PLAYING")
            /\ gst.state \in {"PAUSED", "PLAYING"}
        BY <1>1, <2>2, <2>4, SetStateKinds
      <3>2. t # "pulse" => Armed
        BY <2>1 DEF PauseSet, Announced, Armed, Threads
      <3> QED BY <3>1, <3>2 DEF GstPauses
    <2> QED BY <2>3, <2>4 DEF GstKept
  <1>9. CASE SeekFlush \/ RateOneCall
    BY <1>9 DEF SeekFlush, RateOneCall, SeekPipeline, NoGst, GstSeeks, GstKept
  <1>10. CASE Preroll
    BY <1>10
  <1>11. CASE ContinueState
    <2>1. gst.cont /\ gst' = Continue(gst).gst
      BY <1>11 DEF ContinueState, Happens
    <2>2. gst'.state = "PLAYING" /\ Aligned(gst') /\ gst'.target = gst.target /\ gst.target = "PLAYING"
      BY <2>1, ContinueFlow DEF IInv, Aligned
    <2> QED BY <2>2 DEF GstPlays
  <1>12. CASE OnError
    <2>1. CASE Happens(Result(Halted(gst), <<>>))
      <3>1. gst' = Halted(gst) /\ gst \in Elements
        BY <2>1 DEF Happens, Result, IInv, GstOK
      <3>2. gst'.state = "NULL" /\ gst'.target = "NULL" /\ gst'.pending = Void /\ ~gst'.cont
        BY <3>1 DEF Halted, At, Elements
      <3>3. pc'["bus"] = "Error"
        BY <1>3, <1>12 DEF OnError, Goto, Threads
      <3> QED BY <1>12, <3>2, <3>3 DEF GstHalts, Aligned
    <2> QED BY <1>12, <2>1 DEF OnError, NoGst, GstKept
  <1>13. CASE StreamEnds
    <2> DEFINE x == [kind |-> "eos"]
    <2>1. x \in Messages /\ ~Says(x)
      BY DEF Messages, Says
    <2>2. queue' = Append(queue, x) /\ gst' = gst
      BY <1>13 DEF StreamEnds, Post
    <2> HIDE DEF x
    <2> QED BY <2>1, <2>2 DEF GstKept
  <1>14. CASE StreamFails
    <2> DEFINE x == [kind |-> "error"]
    <2>1. x \in Messages /\ ~Says(x)
      BY DEF Messages, Says
    <2>2. queue' = Append(queue, x) /\ gst' = gst
      BY <1>14 DEF StreamFails, Post
    <2> HIDE DEF x
    <2> QED BY <2>1, <2>2 DEF GstKept
  <1>15. CASE Underrun
    <2> DEFINE x == [kind |-> "underrun"]
    <2>1. x \in Messages /\ ~Says(x)
      BY DEF Messages, Says
    <2>2. queue' = Append(queue, x) /\ gst' = gst
      BY <1>15 DEF Underrun, Post
    <2> HIDE DEF x
    <2> QED BY <2>1, <2>2 DEF GstKept
  <1>16. CASE Download
    <2>1. PICK enough \in BOOLEAN : Post([kind |-> "buffering", eos |-> bound.progress = 1, enough |-> enough])
      BY <1>16 DEF Download
    <2> DEFINE x == [kind |-> "buffering", eos |-> bound.progress = 1, enough |-> enough]
    <2>2. x \in Messages /\ ~Says(x)
      BY DEF Messages, Says
    <2>3. queue' = Append(queue, x) /\ gst' = gst
      BY <1>16, <2>1 DEF Download, Post
    <2> HIDE DEF x
    <2> QED BY <2>2, <2>3 DEF GstKept
  <1>17. CASE DisposeNull
    BY <1>3, <1>17 DEF DisposeNull, Goto, Threads, Disposing, Unreffing
  <1>18. CASE \/ Unpend \/ PauseCall \/ PauseLock \/ StopCall \/ StopLock \/ SeekCall \/ SeekResume
              \/ RateZeroCall \/ RateZeroSet \/ (\E c \in Calls : JavaCall(c)) \/ PulseCall
              \/ FinishCall \/ (\E t \in Threads : PlayTest(t)) \/ (\E t \in Threads : PauseTest(t))
              \/ BusCallback \/ Unref \/ OnState \/ UpdateBufferPosition \/ OnBuffering \/ OnEos
              \/ SetError \/ OnUnderrun \/ Stall \/ DestroyNotify \/ NotifyFree \/ Dispose
              \/ DisposeLock \/ DisposeDestroy \/ DisposeEnd \/ DisposeFree \/ Delete
              \/ UNCHANGED vars
    BY <1>18, UnrefFacts DEF Unpend, PauseCall, PauseLock, StopCall, StopLock, SeekCall, SeekResume,
       RateZeroCall, RateZeroSet, JavaCall, PulseCall, FinishCall, PlayTest, PauseTest,
       BusCallback, OnState, UpdateBufferPosition, OnBuffering, OnEos, SetError,
       OnUnderrun, Stall, DestroyNotify, NotifyFree, Dispose, DisposeLock, DisposeDestroy,
       DisposeEnd, DisposeFree, Delete, NoGst, playerVars, vars, GstKept, Unreffing
  <1> QED
    BY <1>5, <1>6, <1>7, <1>8, <1>9, <1>10, <1>11, <1>12, <1>13, <1>14, <1>15, <1>16, <1>17,
       <1>18
       DEF Next, Code, Pausing, JavaStep, BusStep, Pipeline

LEMMA LeavesBoolean ==
  /\ Leaves \in BOOLEAN /\ Repeating \in BOOLEAN
  /\ Leaves' \in BOOLEAN /\ Repeating' \in BOOLEAN
  <1>1. Leaves \in BOOLEAN /\ Repeating \in BOOLEAN
    <2>1. CASE Unshown
      BY <2>1 DEF Leaves, Repeating
    <2>2. CASE ~Unshown
      BY <2>2 DEF Leaves, Repeating
    <2> QED BY <2>1, <2>2
  <1>2. Leaves' \in BOOLEAN /\ Repeating' \in BOOLEAN
    <2>1. CASE Unshown'
      BY <2>1 DEF Leaves, Repeating
    <2>2. CASE ~Unshown'
      BY <2>2 DEF Leaves, Repeating
    <2> QED BY <2>1, <2>2
  <1> QED BY <1>1, <1>2

(* Then the player that will not show Playing still will not.              *)
LEMMA CalmKept ==
  ASSUME IInv, Bus, Resting, Early, Aligned(gst), Below, Calm,
         GstKept \/ GstPlays \/ GstPauses \/ GstSeeks \/ Preroll \/ GstHalts,
         Leaves => Leaves', Armed /\ Repeating => Repeating', Armed => Armed'
  PROVE  Calm' /\ Aligned(gst')
  <1> DEFINE b == Leaves
             c == Leaves'
             d == Repeating
             f == Repeating'
  <1>1. b \in BOOLEAN /\ c \in BOOLEAN /\ d \in BOOLEAN /\ f \in BOOLEAN
    BY LeavesBoolean
  <1>2. (b => c) /\ (Armed /\ d => f) /\ queue \in Seq(Messages)
    BY DEF Bus
  <1>3. /\ Still <=> LastOf(queue, b, Went)
        /\ Still' <=> LastOf(queue', c, Went)
        /\ Repeats <=> gst.pending # Void \/ LastOf(queue, d, Repeat)
        /\ Repeats' <=> gst'.pending # Void \/ LastOf(queue', f, Repeat)
    BY DEF Still, Repeats
  <1>4. /\ Went \in Messages /\ ~Plays(Went) /\ Repeat \in Messages /\ ~Plays(Repeat)
    BY ChangedFacts DEF Went, Repeat, States
  <1> HIDE DEF b, c, d, f
  <1>5. ASSUME Still, queue' = queue PROVE Still'
    BY <1>1, <1>2, <1>3, <1>5, LastWeaker
  <1>6. ASSUME Still, NEW x \in Messages, ~Plays(x), queue' = Append(queue, x) PROVE Still'
    BY <1>1, <1>2, <1>3, <1>6, LastWeaker, LastAppend
  <1>7. ASSUME Armed, LastOf(queue, d, Repeat), queue' = queue PROVE Repeats'
    BY <1>1, <1>2, <1>3, <1>7, LastWeaker
  <1>8. ASSUME Armed, LastOf(queue, d, Repeat), NEW x \in Messages, ~Plays(x), queue' = Append(queue, x) PROVE Repeats'
    <2>1. LastOf(queue, f, Repeat)
      BY <1>1, <1>2, <1>8, LastWeaker
    <2> QED BY <1>1, <1>2, <1>3, <1>8, <2>1, LastAppend
  <1>9. ASSUME queue' = Append(queue, Went) PROVE Still'
    BY <1>1, <1>2, <1>3, <1>4, <1>9, LastAppend
  <1>10. ASSUME queue' = Append(queue, Repeat) PROVE Repeats'
    BY <1>1, <1>2, <1>3, <1>4, <1>10, LastAppend
  <1>11. CASE GstKept
    <2>1. gst' = gst
      BY <1>11 DEF GstKept
    <2>2. (Still => Still') /\ (Armed /\ Repeats => Repeats')
      <3>1. CASE queue' = queue
        BY <1>3, <1>5, <1>7, <2>1, <3>1
      <3>2. CASE \E x \in Messages : ~Says(x) /\ queue' = Append(queue, x)
        BY <1>3, <1>6, <1>8, <2>1, <3>2 DEF Plays
      <3> QED BY <1>11, <3>1, <3>2 DEF GstKept
    <2> QED BY <2>1, <2>2 DEF Calm
  <1>12. CASE GstPlays
    BY <1>12 DEF GstPlays, Calm
  <1>13. CASE GstPauses
    <2>1. PICK r : Asked(gst, "PAUSED", r) /\ Happens(r)
      BY <1>13 DEF GstPauses
    <2>2. gst' = r.gst /\ gst'.state # "NULL" /\ queue' = queue \o r.posts /\ gst'.target = "PAUSED" /\ Aligned(gst')
      BY <2>1 DEF Asked, Happens
    <2>3. CASE /\ r.posts = <<>> /\ r.gst.state = gst.state
               /\ r.gst.pending # Void \/ (gst.pending = Void /\ gst.state = "PAUSED")
      <3>1. queue' = queue
        BY <1>2, <2>2, <2>3
      <3>2. CASE gst'.pending # Void
        BY <1>3, <1>13, <2>2, <2>3, <3>2 DEF Calm, GstPauses
      <3>3. CASE gst.pending = Void /\ gst.state = "PAUSED"
        <4>1. gst.target = "PAUSED"
          BY <3>3 DEF Aligned
        <4> QED BY <1>3, <1>5, <1>7, <2>2, <3>1, <3>3, <4>1 DEF Calm
      <3> QED BY <2>2, <2>3, <3>2, <3>3
    <2>4. CASE r.posts = <<Changed(gst.state, "PAUSED")>> /\ r.gst.state = "PAUSED"
      <3>1. gst.state \in {"PAUSED", "PLAYING"}
        BY <1>13 DEF GstPauses
      <3>2. CASE gst.state = "PLAYING"
        <4>1. queue' = Append(queue, Went)
          BY <1>2, <1>4, <2>2, <2>4, <3>2, AppendFacts DEF Went
        <4> QED BY <1>9, <2>2, <4>1 DEF Calm
      <3>3. CASE gst.state = "PAUSED"
        <4>1. queue' = Append(queue, Repeat)
          BY <1>2, <1>4, <2>2, <2>4, <3>3, AppendFacts DEF Repeat
        <4> QED BY <1>10, <1>13, <2>2, <3>3, <4>1 DEF Calm, GstPauses
      <3> QED BY <3>1, <3>2, <3>3
    <2> QED BY <2>1, <2>3, <2>4 DEF Asked
  <1>14. CASE GstSeeks
    <2>1. /\ gst'.target = gst.target /\ gst'.state \in {"PAUSED", gst.state} /\ Aligned(gst')
          /\ gst.state \in {"PAUSED", "PLAYING"}
          /\ gst.pending # Void => gst'.state = gst.state /\ gst'.pending # Void
          /\ gst' = gst \/ gst'.pending # Void
          /\ queue' = queue
      BY <1>14, LoseStateFlow DEF GstSeeks, IInv, Resting
    <2>2. (Still => Still') /\ (Armed /\ Repeats => Repeats')
      BY <1>3, <1>5, <1>7, <2>1
    <2> QED BY <2>1, <2>2 DEF Calm, Aligned
  <1>15. CASE Preroll
    <2>1. gst.pending # Void /\ gst' = AsyncDone(gst).gst /\ GstOK(gst) /\ AtNull(gst) /\ gst \in Elements
      BY <1>15 DEF Preroll, Happens, IInv, Resting, GstOK
    <2>2. /\ Aligned(gst') /\ gst'.target = gst.target
          /\ gst.target = "PAUSED" => /\ AsyncDone(gst).posts = <<Changed(gst.state, "PAUSED")>>
                                      /\ gst' = At(gst, "PAUSED")
      BY <2>1, AsyncDoneFlow
    <2>3. CASE gst.target = "PAUSED"
      <3> DEFINE x == Changed(gst.state, "PAUSED")
      <3>1. gst'.state = "PAUSED" /\ gst.state \in States \ {"NULL"}
        BY <2>1, <2>2, <2>3, AtOK DEF AtNull, Elements, States
      <3>2. x \in Messages /\ ~Plays(x)
        BY <3>1, ChangedFacts DEF States
      <3>3. queue' = Append(queue, x)
        <4>1. queue' = queue \o <<x>>
          BY <1>15, <2>1, <2>2, <2>3, <3>1 DEF Preroll, Happens
        <4> HIDE DEF x
        <4> QED BY <1>2, <3>2, <4>1, AppendFacts
      <3>4. CASE gst.state = "PLAYING"
        BY <1>9, <2>2, <3>3, <3>4 DEF Calm, Went
      <3>5. CASE gst.state = "PAUSED"
        <4>1. Repeats'
          BY <1>10, <3>3, <3>5 DEF Repeat
        <4> QED BY <1>6, <2>2, <2>3, <3>2, <3>3, <3>5, <4>1 DEF Calm
      <3>6. CASE gst.state = "READY"
        <4>1. m.state = "Unknown" /\ ~Unshown /\ \A i \in 1..Len(queue) : ~Plays(queue[i])
          BY <3>6 DEF Below, Unshown, Plays
        <4>2. b
          BY <4>1 DEF b, Leaves
        <4>3. Still
          BY <1>3, <4>1, <4>2 DEF LastOf
        <4> QED BY <1>6, <2>2, <3>2, <3>3, <4>3 DEF Calm
      <3> QED BY <3>1, <3>4, <3>5, <3>6 DEF States
    <2>4. CASE gst.target # "PAUSED"
      BY <2>2, <2>4 DEF Calm
    <2> QED BY <2>3, <2>4
  <1>16. CASE GstHalts
    BY <1>16 DEF GstHalts, Calm
  <1> QED BY <1>11, <1>12, <1>13, <1>14, <1>15, <1>16

LEMMA StillingDispatched ==
  ASSUME IInv, Bus, Calm, Below, Dispatch
  PROVE  Calm' /\ Below' /\ gst' = gst
  <1>1. /\ pc["bus"] = "idle" /\ pc'["bus"] = "Enter" /\ queue # <<>> /\ queue \in Seq(Messages)
        /\ queue' = Tail(queue) /\ msg' = Head(queue) /\ UNCHANGED <<gst, m>>
    BY DEF Dispatch, Goto, IInv, Control, Threads, Bus
  <1> DEFINE b == m.state # "Playing"
             c == Leaves'
             f == Repeating'
  <1>2. ~Unshown /\ (Unshown' <=> Says(Head(queue)))
    BY <1>1 DEF Unshown, BusNested
  <1>3. /\ c \in BOOLEAN /\ f \in BOOLEAN
    BY LeavesBoolean
  <1>4. /\ Went = Head(queue) => c
        /\ b /\ ~Plays(Head(queue)) => c
        /\ Repeat = Head(queue) => f
    <2>1. Says(Went) /\ Says(Repeat)
      BY ChangedFacts DEF Went, Repeat, States
    <2>2. CASE Says(Head(queue))
      BY <1>1, <1>2, <2>2 DEF Leaves, Repeating
    <2>3. CASE ~Says(Head(queue))
      BY <1>1, <1>2, <2>1, <2>3 DEF Leaves, Repeating
    <2> QED BY <2>2, <2>3
  <1>5. /\ Still <=> LastOf(queue, b, Went)
        /\ Still' <=> LastOf(queue', c, Went)
        /\ Repeats <=> gst.pending # Void \/ LastOf(queue, FALSE, Repeat)
        /\ Repeats' <=> gst.pending # Void \/ LastOf(queue', f, Repeat)
    BY <1>1, <1>2 DEF Still, Repeats, Leaves, Repeating
  <1> HIDE DEF b, c, f
  <1>6. b \in BOOLEAN
    BY DEF b
  <1>7. Still => Still'
    BY <1>1, <1>3, <1>4, <1>5, <1>6, LastTail
  <1>8. Repeats => Repeats'
    BY <1>1, <1>3, <1>4, <1>5, LastTail
  <1>9. Calm'
    BY <1>1, <1>7, <1>8 DEF Calm, Armed
  <1>10. Below'
    <2>1. /\ Len(queue') = Len(queue) - 1 /\ Head(queue) = queue[1] /\ Len(queue) \in Nat \ {0}
          /\ \A i \in 1..(Len(queue) - 1) : queue'[i] = queue[i + 1]
      BY <1>1, TailFacts
    <2>2. CASE gst.state = "READY"
      <3>1. m.state = "Unknown" /\ \A i \in 1..Len(queue) : ~Says(queue[i])
        BY <2>2 DEF Below
      <3>2. ~Says(msg') /\ \A i \in 1..Len(queue') : ~Says(queue'[i])
        BY <1>1, <2>1, <3>1
      <3> QED BY <1>1, <2>2, <3>1, <3>2 DEF Below
    <2>3. CASE gst.state # "READY"
      BY <1>1, <2>3 DEF Below
    <2> QED BY <2>2, <2>3
  <1> QED BY <1>1, <1>9, <1>10

(* The pipeline below PAUSED.                                              *)
LEMMA BelowKept ==
  ASSUME IInv, Bus, Resting, Early, Aligned(gst), Below, m.state = "Error" \/ pc["bus"] = "Error" => gst.state = "NULL",
         GstKept \/ GstPlays \/ GstPauses \/ GstSeeks \/ Preroll \/ GstHalts,
         m.state = "Error" \/ pc["bus"] = "Error" => m'.state = "Error" \/ pc'["bus"] = "Error",
         m.state = "Unknown" /\ ~Says(msg) /\ gst.state = "READY" => m'.state = "Unknown" /\ ~Says(msg')
  PROVE  Below'
  <1>1. CASE GstKept
    <2>1. gst' = gst
      BY <1>1 DEF GstKept
    <2>2. ASSUME \A i \in 1..Len(queue) : ~Says(queue[i]) PROVE \A i \in 1..Len(queue') : ~Says(queue'[i])
      <3>1. CASE queue' = queue
        BY <2>2, <3>1
      <3>2. ASSUME NEW x \in Messages, ~Says(x), queue' = Append(queue, x) PROVE \A i \in 1..Len(queue') : ~Says(queue'[i])
        <4>1. /\ Len(queue') = Len(queue) + 1 /\ queue'[Len(queue) + 1] = x /\ Len(queue) \in Nat
              /\ \A i \in 1..Len(queue) : queue'[i] = queue[i]
          BY <3>2, AppendFacts DEF Bus
        <4> QED BY <2>2, <3>2, <4>1
      <3> QED BY <1>1, <3>1, <3>2 DEF GstKept
    <2> QED BY <2>1, <2>2 DEF Below
  <1>2. CASE GstPlays
    BY <1>2 DEF GstPlays, Below
  <1>3. CASE GstPauses
    BY <1>3 DEF GstPauses, Asked, Happens, Below
  <1>4. CASE GstSeeks
    <2>1. gst'.state \in {"PAUSED", gst.state} /\ gst.state \in {"PAUSED", "PLAYING"}
      BY <1>4, LoseStateFlow DEF GstSeeks, IInv, Resting
    <2> QED BY <2>1 DEF Below
  <1>5. CASE Preroll
    <2>1. gst.pending # Void /\ gst' = AsyncDone(gst).gst /\ GstOK(gst) /\ AtNull(gst) /\ gst \in Elements
      BY <1>5 DEF Preroll, Happens, IInv, Resting, GstOK
    <2>2. gst'.state \in {"PAUSED", gst.state} /\ (gst.target = "PAUSED" => gst' = At(gst, "PAUSED"))
      BY <2>1, AsyncDoneFlow
    <2>3. gst.state # "NULL" /\ (gst.state = "READY" => gst.target = "PAUSED")
      BY <2>1 DEF AtNull, Below, Early
    <2>4. gst.target = "PAUSED" => gst'.state = "PAUSED"
      BY <2>1, <2>2, AtOK DEF States
    <2> QED BY <2>2, <2>3, <2>4 DEF Below
  <1>6. CASE GstHalts
    BY <1>6 DEF GstHalts, Below
  <1> QED BY <1>1, <1>2, <1>3, <1>4, <1>5, <1>6

(* UpdatePlayerState: who settles what is pending does not show Playing,   *)
(* and no PLAYING is on its way, unless the message was misread.           *)
LEMMA CalmUpdated ==
  ASSUME IInv, Typed, Bus, Aligned(gst), Calm, Announced, UpdatePlayerState, ~upset',
         gst' = gst, queue' = queue
  PROVE  Calm'
  <1> DEFINE p == Updated(m, msg.old, msg.new)
  <1>1. /\ m'.state = p.state /\ m'.pending = p.pending /\ m'.stallOnPause = p.stallOnPause
        /\ Table(m, msg.old, msg.new, p) /\ Says(msg) /\ ~Misread(p)
        /\ pc["bus"] = "Update" /\ pc'["bus"] = "Unref" /\ msg' = msg
    BY UpdateFacts DEF Threads, IInv, Control
  <1> HIDE DEF p
  <1> SUFFICES ASSUME gst.target = "PAUSED", gst.state # "PLAYING" PROVE Still' \/ (Armed' /\ Repeats')
    BY DEF Calm
  <1>2. Unshown /\ ~Unshown' /\ (Leaves' <=> m'.state # "Playing")
    BY <1>1 DEF Unshown, BusNested, Leaves
  <1>3. ASSUME NoPlays(queue), m'.state # "Playing" PROVE Still'
    BY <1>2, <1>3 DEF Still, LastOf, NoPlays
  <1>4. CASE Settled(m, p)
    <2>1. ~\E x \in Range(queue) : x.kind = "state" /\ x.new = "PLAYING"
      BY <1>1, <1>4 DEF Misread, Settled
    <2>2. NoPlays(queue)
      BY <2>1 DEF NoPlays, Plays, Says, Range, Bus
    <2>3. m'.state # "Playing"
      BY <1>1, <1>4 DEF Table
    <2> QED BY <1>3, <2>2, <2>3
  <1>5. CASE ~Settled(m, p)
    <2>1. Armed' <=> Armed
      BY <1>1, <1>5 DEF Settled, Armed
    <2>2. Still => Still'
      <3>1. Leaves => Leaves'
        <4>1. msg = Went => msg.old = "PLAYING" /\ msg.new = "PAUSED"
          BY ChangedFacts DEF Went, States
        <4> QED BY <1>1, <1>2, <4>1 DEF Leaves, Table, Plays
      <3> QED BY <3>1, LeavesBoolean, LastWeaker DEF Still
    <2>3. ASSUME Armed, Repeats PROVE Still' \/ Repeats'
      <3>1. CASE gst.pending # Void
        BY <3>1 DEF Repeats
      <3>2. CASE \E i \in 1..Len(queue) : queue[i] = Repeat /\ \A j \in (i + 1)..Len(queue) : ~Plays(queue[j])
        BY <3>2 DEF Repeats, LastOf
      <3>3. CASE Repeating /\ \A j \in 1..Len(queue) : ~Plays(queue[j])
        <4>1. msg.old = "PAUSED" /\ msg.new = "PAUSED"
          BY <3>3, ChangedFacts DEF Repeating, Repeat, States
        <4>2. m'.state # "Playing"
          BY <1>1, <1>5, <2>3, <4>1 DEF Table, Armed
        <4> QED BY <1>3, <3>3, <4>2 DEF NoPlays
      <3> QED BY <2>3, <3>1, <3>2, <3>3 DEF Repeats, LastOf
    <2> QED BY <2>1, <2>2, <2>3 DEF Calm
  <1> QED BY <1>4, <1>5

LEMMA StillingStep ==
  ASSUME IInv, Typed, Bus, Resting, Early, Ending, Stilling, [Next]_vars
  PROVE  Stilling'
  <1> SUFFICES ASSUME ~upset', pc'["java"] \notin Disposing
               PROVE  Calm' /\ Aligned(gst') /\ Announced' /\ Below'
    BY DEF Stilling
  <1>1. /\ ~upset /\ pc["java"] \notin Disposing /\ m \in Members
        /\ pc \in [Threads -> CallLabels \cup Disposing \cup PulseLabels \cup Handling \cup Dispatching \cup {"Over"}]
    BY UpsetStays, DisposingStays DEF Typed, IInv, Control
  <1>2. Calm /\ Aligned(gst) /\ Announced /\ Below
    BY <1>1 DEF Stilling
  <1>3. /\ pc["bus"] \in {"Enter", "OnEos"} /\ msg.kind = "eos" => m.state \in {"Playing", "Finished"}
        /\ m.state = "Error" \/ pc["bus"] = "Error" => gst.state = "NULL"
    BY <1>1 DEF Ending
  <1>4. ASSUME ~UpdatePlayerState PROVE Announced' /\ (Armed => Armed')
    BY <1>2, <1>4, AnnouncedStep
  <1>5. ASSUME ~Dispatch PROVE GstKept \/ GstPlays \/ GstPauses \/ GstSeeks \/ Preroll \/ GstHalts
    BY <1>2, <1>5, GstKinds
  <1>6. CASE Dispatch
    <2>1. ~UpdatePlayerState
      BY <1>6 DEF Dispatch, UpdatePlayerState
    <2> QED BY <1>2, <1>4, <1>6, <2>1, StillingDispatched
  <1>7. CASE Steady /\ ~Dispatch /\ ~UpdatePlayerState
    <2>1. (Leaves => Leaves') /\ (Repeating => Repeating')
      BY <1>7 DEF Steady, Leaves, Repeating
    <2>2. Calm' /\ Aligned(gst')
      BY <1>2, <1>4, <1>5, <1>7, <2>1, CalmKept
    <2>3. m.state = "Error" \/ pc["bus"] = "Error" => m'.state = "Error" \/ pc'["bus"] = "Error"
      BY <1>7 DEF Steady
    <2>4. m.state = "Unknown" /\ ~Says(msg) => m'.state = "Unknown" /\ ~Says(msg')
      BY <1>7 DEF Steady
    <2>5. Below'
      BY <1>2, <1>3, <1>5, <1>7, <2>3, <2>4, BelowKept
    <2> QED BY <1>4, <1>7, <2>2, <2>5
  <1>8. CASE OnState
    <2>1. /\ pc["bus"] = "OnState" /\ pc'["bus"] \in {"Unref", "UpdateBufferPosition", "Update"}
          /\ (pc'["bus"] = "Unref" => ~Counts) /\ UNCHANGED <<m, msg>> /\ ~Dispatch /\ ~UpdatePlayerState
      BY <1>1, <1>8 DEF OnState, Goto, Threads, Unchanged, Dispatch, UpdatePlayerState
    <2>2. Unshown /\ Says(msg)
      BY <2>1 DEF Bus, Unshown
    <2>3. (Leaves => Leaves') /\ (Armed /\ Repeating => Repeating')
      <3>1. CASE pc'["bus"] = "Unref"
        <4>1. msg = Went => msg.old = "PLAYING" /\ msg.new = "PAUSED"
          BY ChangedFacts DEF Went, States
        <4>2. msg = Repeat => msg.old = "PAUSED" /\ msg.new = "PAUSED"
          BY ChangedFacts DEF Repeat, States
        <4>3. ~Unshown' /\ ~Counts
          BY <2>1, <3>1 DEF Unshown, BusNested
        <4>4. Leaves => Leaves'
          BY <2>1, <2>2, <4>1, <4>3 DEF Counts, Leaves
        <4>5. m.pending \in {"Unknown", "Paused", "Stopped"}
          BY <1>1 DEF Members
        <4>6. ~(Armed /\ Repeating)
          BY <4>2, <4>3, <4>5 DEF Counts, Armed, Repeating
        <4> QED BY <4>4, <4>6
      <3>2. CASE pc'["bus"] # "Unref"
        BY <2>1, <2>2, <3>2 DEF Leaves, Repeating, Unshown
      <3> QED BY <3>1, <3>2
    <2>4. Calm' /\ Aligned(gst')
      BY <1>2, <1>4, <1>5, <2>1, <2>3, CalmKept
    <2>5. m.state = "Error" \/ pc["bus"] = "Error" => m'.state = "Error" \/ pc'["bus"] = "Error"
      BY <2>1
    <2>6. Below'
      BY <1>2, <1>3, <1>5, <2>1, <2>2, <2>5, BelowKept
    <2> QED BY <1>4, <2>1, <2>4, <2>6
  <1>9. CASE UpdatePlayerState
    <2> DEFINE p == Updated(m, msg.old, msg.new)
    <2>1. /\ m'.state = p.state /\ m'.pending = p.pending /\ m'.stallOnPause = p.stallOnPause
          /\ Table(m, msg.old, msg.new, p) /\ Says(msg) /\ ~Misread(p)
          /\ pc["bus"] = "Update" /\ pc' = [pc EXCEPT !["bus"] = "Unref"] /\ msg' = msg
          /\ UNCHANGED <<gst, queue>> \/ \E r \in SetState(gst, "PLAYING", bound.troubles > 0) : \E b : Change(r, b)
          /\ ~UNCHANGED <<gst, queue>> => m.state # "Unknown"
      BY <1>9, UpdateFacts DEF UpdatePlayerState
    <2> HIDE DEF p
    <2>2. ~Dispatch /\ pc'["bus"] = "Unref" /\ pc'["java"] = pc["java"]
      BY <1>1, <2>1 DEF Dispatch, Threads
    <2>3. Announced'
      <3>1. ~Settled(m, p) \/ pc["java"] \notin {"InternalPause", "PauseSet"}
        BY <2>1 DEF Misread, Settled
      <3> QED BY <1>2, <2>1, <2>2, <3>1 DEF Announced, Settled
    <2>4. m.state = "Error" \/ pc["bus"] = "Error" => m'.state = "Error" \/ pc'["bus"] = "Error"
      BY <2>1 DEF Table
    <2>5. Below'
      BY <1>2, <1>3, <1>5, <2>1, <2>2, <2>4, BelowKept
    <2>6. CASE UNCHANGED <<gst, queue>>
      BY <1>2, <1>9, <2>3, <2>5, <2>6, CalmUpdated
    <2>7. CASE ~UNCHANGED <<gst, queue>>
      <3>1. PICK r \in SetState(gst, "PLAYING", bound.troubles > 0) : \E b : Change(r, b)
        BY <2>1, <2>7
      <3>2. gst.state # "READY"
        BY <1>2, <2>1, <2>7 DEF Below
      <3>3. Asked(gst, "PLAYING", r) /\ gst' = r.gst
        BY <1>2, <3>1, <3>2, SetStateKinds DEF Happens
      <3> QED BY <2>3, <2>5, <3>3 DEF Asked, Calm
    <2> QED BY <2>6, <2>7
  <1>10. CASE OnEos
    <2>1. /\ pc["bus"] = "OnEos" /\ pc'["bus"] = "Unref" /\ m'.state = "Finished" /\ ~Dispatch /\ ~UpdatePlayerState
      BY <1>1, <1>10 DEF OnEos, Goto, Threads, Members, Dispatch, UpdatePlayerState
    <2>2. m.state \in {"Playing", "Finished"}
      BY <1>3, <2>1 DEF Bus
    <2>3. Leaves' /\ ~Repeating
      BY <2>1 DEF Leaves, Repeating, Unshown, BusNested
    <2>4. Calm' /\ Aligned(gst')
      BY <1>2, <1>4, <1>5, <2>1, <2>3, CalmKept
    <2>5. Below'
      BY <1>2, <1>3, <1>5, <2>1, <2>2, BelowKept
    <2> QED BY <1>4, <2>1, <2>4, <2>5
  <1>11. CASE OnError
    <2>1. /\ pc["bus"] = "OnError" /\ pc'["bus"] = "Error" /\ m' = m /\ msg' = msg /\ ~Dispatch /\ ~UpdatePlayerState
      BY <1>1, <1>11 DEF OnError, Goto, Threads, Dispatch, UpdatePlayerState, Unchanged
    <2>2. (Leaves => Leaves') /\ ~Repeating
      BY <2>1 DEF Leaves, Repeating, Unshown, BusNested
    <2>3. Calm' /\ Aligned(gst')
      BY <1>2, <1>4, <1>5, <2>1, <2>2, CalmKept
    <2>4. Below'
      BY <1>2, <1>3, <1>5, <2>1, BelowKept
    <2> QED BY <1>4, <2>1, <2>3, <2>4
  <1>12. CASE SetError
    <2>1. /\ pc["bus"] = "Error" /\ m'.state = "Error" /\ UNCHANGED <<gst, queue>> /\ ~UpdatePlayerState
      BY <1>1, <1>12 DEF SetError, NoGst, Members, UpdatePlayerState
    <2>2. gst.state = "NULL" /\ gst.target = "NULL"
      BY <1>2, <1>3, <2>1 DEF Resting, AtNull, Aligned
    <2> QED BY <1>2, <1>4, <2>1, <2>2 DEF Calm, Below
  <1> QED BY <1>6, <1>7, <1>8, <1>9, <1>10, <1>11, <1>12, SteadyStep
-----------------------------------------------------------------------------
(* The inductive invariant of the player.                                  *)
Inv == IInv /\ Typed /\ Bus /\ Resting /\ Early /\ Ending /\ Stilling

LEMMA InitAll == Init => Inv
  <1> SUFFICES ASSUME Init PROVE Inv
    OBVIOUS
  <1>1. IInv
    BY InitInv
  <1>2. /\ gst.state = "READY" /\ gst.next = "PAUSED" /\ gst.pending = "PAUSED" /\ gst.target = "PAUSED"
        /\ ~gst.cont /\ queue = <<>> /\ msg = NoMessage /\ msg.kind = "none" /\ ~upset
        /\ m.state = "Unknown" /\ pc["java"] = "idle" /\ pc["pulse"] = "idle" /\ pc["bus"] = "idle"
    BY DEF Init, Threads, NoMessage
  <1>3. Typed
    <2>1. m \in Members
      BY DEF Init, Members, PlayerStates
    <2>2. MaxCalls \in Nat /\ MaxProgress \in Nat /\ MaxTroubles \in Nat
      OBVIOUS
    <2>3. bound \in [calls : 0..MaxCalls, progress : 0..MaxProgress, troubles : 0..MaxTroubles]
      BY <2>2 DEF Init
    <2> QED BY <2>1, <2>3 DEF Init, Typed
  <1>4. Bus
    BY <1>2 DEF Bus, Says, Plays, BusNested
  <1>5. Resting /\ Aligned(gst)
    BY <1>2 DEF Resting, AtNull, Aligned, Void
  <1>6. Early
    BY <1>2 DEF Early, Plays, Says, BusNested
  <1>7. Ending
    BY <1>2 DEF Ending
  <1>8. Announced /\ Below
    BY <1>2 DEF Announced, Below, Says
  <1>9. Still
    BY <1>2 DEF Still, LastOf, Leaves, Unshown, Says
  <1>10. Stilling
    BY <1>5, <1>8, <1>9 DEF Stilling, Calm
  <1> QED BY <1>1, <1>3, <1>4, <1>5, <1>6, <1>7, <1>10 DEF Inv

LEMMA StepAll == Inv /\ [Next]_vars => Inv'
  BY StepInv, TypedStep, MessagesStep, EarlyStep, EndingStep, StillingStep DEF Inv
-----------------------------------------------------------------------------
(* As long as the decrements of the reference count of the callback data   *)
(* in g_source_destroy and after a dispatch do not overlap,                *)
(* sBusCallbackContent is freed at most once, by Dispose or by the main    *)
(* loop, and only when neither touches it or its lock any more, for every  *)
(* number of calls, messages and failures (Dispose, BusCallback,           *)
(* BusCallbackDestroyNotify, g_source_callback_unref).                     *)
THEOREM ContentFreedLast == Spec => []FreedLast
  <1>1. IInv => FreedLast
    <2> SUFFICES ASSUME IInv, ~overlapped
                 PROVE  content.freed <= 1 /\ (content.freed = 1 => /\ pc["java"] \in {"Delete", "Gone"}
                                                                   /\ pc["bus"] \in {"idle", "Over"} /\ ~attached)
      BY DEF FreedLast
    <2>1. content.freed \in 0..2 /\ (pc["java"] \notin Destroyed => content.freed = 0)
      BY DEF IInv, Freeing, Destroyed
    <2>2. pc["java"] \in Destroyed \ {"Delete", "Gone"} => content.freed = 0
      <3>1. pc["java"] \in Destroyed \ {"Delete", "Gone"} => pc["bus"] # "Over"
        BY DEF IInv, Ownership, Destroyed, Dispatching, Unreffing
      <3> QED BY <3>1 DEF IInv, Freeing
    <2>3. pc["java"] \in {"Delete", "Gone"} => content.freed <= 1 /\ ~attached
      BY DEF IInv, Ownership, Freeing, Destroyed
    <2>4. pc["java"] \in {"Delete", "Gone"} /\ content.freed = 1 => pc["bus"] \in {"idle", "Over"}
      BY DEF IInv, Ownership
    <2> QED BY <2>1, <2>2, <2>3, <2>4
  <1> QED BY <1>1, InitInv, StepInv, PTL DEF Spec

(* From the moment Dispose begins no message is handled, and what it has   *)
(* put to NULL stays there (m_bIsDisposeInProgress, m_DisposeLock).        *)
THEOREM DisposalIsQuiet == Spec => []DisposedQuietly
  <1>1. IInv => DisposedQuietly
    BY DEF IInv, Control, HaltedForGood, DisposedQuietly, BusHolds, Handling
  <1> QED BY <1>1, InitInv, StepInv, PTL DEF Spec

(* Every variable keeps its type: only messages are on the bus, the player *)
(* shows one of its states and the bounds are not passed.                  *)
THEOREM PlayerTypes == Spec => []TypeOK
  <1>1. Inv => TypeOK
    <2> SUFFICES ASSUME Inv PROVE TypeOK
      OBVIOUS
    <2>1. content \in [inProgress : BOOLEAN, disposed : BOOLEAN, freeMe : BOOLEAN, freed : 0..2]
      BY DEF Inv, IInv, Freeing
    <2>2. refs \in 0..2 /\ seen \in [{"java", "bus"} -> 0..2] /\ overlapped \in BOOLEAN
      BY DEF Inv, IInv, Counting
    <2>3. gst \in Elements /\ DOMAIN pc = Threads /\ DOMAIN ret = Threads
      BY DEF Inv, IInv, GstOK, Control
    <2> QED BY <2>1, <2>2, <2>3 DEF Inv, Typed, Bus, TypeOK
  <1> QED BY <1>1, InitAll, StepAll, PTL DEF Spec

(* The application sees only the documented transitions of the player's    *)
(* state, for every number of calls, messages and troubles, until a change *)
(* of the pipeline fails or a message is misread.  (PauseLock,             *)
(* UpdatePlayerState, OnEos, SetError.)                                    *)
THEOREM StatesFollow == Spec => StatusInOrder
  <1>1. ASSUME Inv, [Next]_vars
        PROVE  [m'.state # m.state /\ ~upset => m'.state \in Follows[m.state] \cup {"Error"}]_m
    <2> SUFFICES ASSUME m'.state # m.state, ~upset PROVE m'.state \in Follows[m.state] \cup {"Error"}
      OBVIOUS
    <2>1. m \in Members /\ IInv /\ Typed /\ Bus
      BY <1>1 DEF Inv, Typed
    <2>2. CASE Aside
      BY <2>2 DEF Aside, Follows
    <2>3. CASE Nested
      BY <2>3 DEF Nested
    <2>4. CASE Dispatch \/ BusCallback \/ Unref \/ DestroyNotify \/ NotifyFree \/ OnState \/ OnError \/ OnUnderrun
      BY <2>1, <2>4, UnrefFacts DEF Dispatch, BusCallback, DestroyNotify, NotifyFree, OnState,
         OnError, OnUnderrun, playerVars, Unreffing
    <2>5. CASE UpdateBufferPosition \/ OnBuffering \/ Stall
      BY <2>1, <2>5 DEF UpdateBufferPosition, OnBuffering, Stall, Members
    <2>6. CASE UpdatePlayerState
      <3> DEFINE p == Updated(m, msg.old, msg.new)
      <3>1. m'.state = p.state /\ Table(m, msg.old, msg.new, p)
        BY <2>1, <2>6, UpdateFacts
      <3> HIDE DEF p
      <3> QED BY <3>1 DEF Table
    <2>7. CASE OnEos
      <3>1. m'.state = "Finished" /\ pc["bus"] = "OnEos" /\ msg.kind = "eos"
        BY <2>1, <2>7 DEF OnEos, Members, Bus
      <3>2. pc["java"] \notin Disposing
        BY <2>1, <3>1 DEF IInv, Control, Handling
      <3>3. m.state \in {"Playing", "Finished"}
        BY <1>1, <3>1, <3>2 DEF Inv, Ending
      <3> QED BY <3>1, <3>3 DEF Follows
    <2>8. CASE SetError
      BY <2>1, <2>8 DEF SetError, Members
    <2> QED BY <1>1, <2>1, <2>2, <2>3, <2>4, <2>5, <2>6, <2>7, <2>8, Kinds
  <1> QED BY <1>1, InitAll, StepAll, PTL DEF Spec, StatusInOrder

(* When no call, message or change is under way, the state shown to the    *)
(* application is that of the pipeline, for every number of calls,         *)
(* messages and troubles, until a change fails or a message is misread.    *)
THEOREM StateIsThePipelines == Spec => []StateAgrees
  <1>1. Inv => StateAgrees
    <2> SUFFICES ASSUME Inv, AtRest, ~upset
                 PROVE  /\ m.state = "Playing" => gst.state = "PLAYING"
                        /\ m.state \in {"Ready", "Paused", "Stopped", "Stalled"} => gst.state = "PAUSED"
                        /\ m.state = "Error" => gst.state = "NULL"
      BY DEF StateAgrees
    <2>1. /\ pc["java"] = "idle" /\ pc["bus"] = "idle" /\ queue = <<>> /\ gst.pending = Void
          /\ gst.state \in States
      BY DEF AtRest, Threads, Inv, IInv, GstOK, Elements
    <2>2. ~Unshown
      BY <2>1 DEF Unshown, BusNested
    <2>3. /\ gst.state = "PLAYING" => Live(queue, Begun, Len(queue))
          /\ m.state = "Error" => gst.state = "NULL"
          /\ Calm /\ Aligned(gst) /\ Below
      BY <2>1 DEF Inv, Ending, Stilling, Disposing, Unreffing
    <2>4. gst.state = "PLAYING" => m.state \in {"Playing", "Finished"}
      BY <2>1, <2>2, <2>3 DEF Live, Begun
    <2>5. gst.state = "PAUSED" => m.state # "Playing"
      <3>1. ~Repeats
        BY <2>1, <2>2 DEF Repeats, LastOf, Repeating
      <3>2. Still => m.state # "Playing"
        BY <2>1, <2>2 DEF Still, LastOf, Leaves
      <3> QED BY <2>1, <2>3, <3>1, <3>2 DEF Calm, Aligned
    <2>6. (gst.state = "NULL" => m.state = "Error") /\ (gst.state = "READY" => m.state = "Unknown")
      BY <2>1, <2>3 DEF Below
    <2> QED BY <2>1, <2>3, <2>4, <2>5, <2>6 DEF States
  <1> QED BY <1>1, InitAll, StepAll, PTL DEF Spec
=============================================================================
