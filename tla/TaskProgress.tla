---------------------------- MODULE TaskProgress ----------------------------
(***************************************************************************)
(* Task.updateProgress: workDone and max are put in range by the caller    *)
(* and travel together, as one ProgressUpdate, to the FX thread, which     *)
(* sets totalWork, workDone and progress one after the other.  Listeners   *)
(* of these properties run between the assignments.                        *)
(*                                                                         *)
(* Amounts are integers or NaN, which also stands for Infinity.  A         *)
(* quotient w / m is the pair <<w, m>>, and NaN for 0 / 0.                 *)
(***************************************************************************)
EXTENDS Integers

CONSTANTS Threads,    \* background threads that call updateProgress
          Amounts,    \* the numbers they pass
          NaN,
          MaxCalls    \* bound on the number of calls

ASSUME ProgressAssumption == /\ Amounts \subseteq Int
                             /\ NaN \notin Int
                             /\ MaxCalls \in Nat

VARIABLES progressUpdate,   \* the AtomicReference: a set of at most one update
          pc,               \* background thread: between getAndSet and runLater?
          lambdas,          \* delivery lambdas in the FX event queue
          fx,               \* FX thread: "idle", or the property it sets next
          update,           \* the update it is showing
          totalWork, workDone, progress,
          calls,            \* number of calls so far
          asked             \* the updates asked for so far

vars == <<progressUpdate, pc, lambdas, fx, update, totalWork, workDone, progress, calls, asked>>
props == <<totalWork, workDone, progress>>

Update(w, m) == [workDone |-> w, totalWork |-> m]
Indeterminate == Update(-1, -1)
NoProgress == <<-1, 1>>

Init == /\ progressUpdate = {}
        /\ pc = [t \in Threads |-> "idle"]
        /\ lambdas = 0
        /\ fx = "idle"
        /\ update = Indeterminate
        /\ totalWork = -1 /\ workDone = -1 /\ progress = NoProgress
        /\ calls = 0
        /\ asked = {Indeterminate}
-----------------------------------------------------------------------------
(* Infinity, NaN and everything below zero become -1. *)
InRange(a)   == IF a = NaN \/ a < 0 THEN -1 ELSE a

\* Mutant: workDone is not limited
NoClamp(w, m) == w

(* workDone may not exceed max. *)
Clamp(w, m)   == IF w > m THEN m ELSE w

Adjusted(w, m) == Update(Clamp(InRange(w), InRange(m)), InRange(m))

Call(u) == /\ calls < MaxCalls
           /\ calls' = calls + 1
           /\ asked' = asked \cup {u}

MustPost   == progressUpdate = {}

UpdateProgress(t, w, m) ==
  /\ pc[t] = "idle"
  /\ Call(Adjusted(w, m))
  /\ progressUpdate' = {Adjusted(w, m)}
  /\ pc' = [pc EXCEPT ![t] = IF MustPost THEN "post" ELSE "idle"]
  /\ UNCHANGED <<lambdas, fx, update, props>>

PostProgress(t) ==
  /\ pc[t] = "post"
  /\ pc' = [pc EXCEPT ![t] = "idle"]
  /\ lambdas' = lambdas + 1
  /\ UNCHANGED <<progressUpdate, fx, update, props, calls, asked>>

(* The branch for the FX thread. *)
UpdateProgressOnFx(w, m) ==
  /\ fx = "idle"
  /\ Call(Adjusted(w, m))
  /\ update' = Adjusted(w, m)
  /\ fx' = "totalWork"
  /\ UNCHANGED <<progressUpdate, pc, lambdas, props>>

(* The lambda; it would fail on an empty reference. *)
TakeProgress ==
  /\ fx = "idle"
  /\ lambdas > 0
  /\ lambdas' = lambdas - 1
  /\ \E u \in progressUpdate : update' = u
  /\ progressUpdate' = {}
  /\ fx' = "totalWork"
  /\ UNCHANGED <<pc, props, calls, asked>>

(* _updateProgress *)
setTotalWork ==
  /\ fx = "totalWork"
  /\ totalWork' = update.totalWork
  /\ fx' = "workDone"
  /\ UNCHANGED <<progressUpdate, pc, lambdas, update, workDone, progress, calls, asked>>

\* Mutant: workDone comes from the latest update
setLatestWorkDone ==
  /\ fx = "workDone"
  /\ workDone' = IF progressUpdate = {} THEN update.workDone
                 ELSE (CHOOSE u \in progressUpdate : TRUE).workDone
  /\ fx' = "progress"
  /\ UNCHANGED <<progressUpdate, pc, lambdas, update, totalWork, progress, calls, asked>>

setWorkDone ==
  /\ fx = "workDone"
  /\ workDone' = update.workDone
  /\ fx' = "progress"
  /\ UNCHANGED <<progressUpdate, pc, lambdas, update, totalWork, progress, calls, asked>>

Quotient(w, m) == IF w = -1 THEN NoProgress ELSE IF m = 0 THEN NaN ELSE <<w, m>>

setProgress ==
  /\ fx = "progress"
  /\ progress' = Quotient(update.workDone, update.totalWork)
  /\ fx' = "idle"
  /\ UNCHANGED <<progressUpdate, pc, lambdas, update, totalWork, workDone, calls, asked>>

Next == \/ \E w, m \in Amounts \cup {NaN} : \/ \E t \in Threads : UpdateProgress(t, w, m)
                                           \/ UpdateProgressOnFx(w, m)
        \/ \E t \in Threads : PostProgress(t)
        \/ TakeProgress \/ setTotalWork \/ setWorkDone \/ setProgress

Spec == Init /\ [][Next]_vars
-----------------------------------------------------------------------------
Amount == Nat \cup {-1}

(* Type invariant: whatever was passed, amounts are -1 or not negative. *)
TypeOK == /\ progressUpdate \subseteq [workDone : Amount, totalWork : Amount]
          /\ pc \in [Threads -> {"idle", "post"}]
          /\ lambdas \in Nat
          /\ fx \in {"idle", "totalWork", "workDone", "progress"}
          /\ update \in [workDone : Amount, totalWork : Amount]
          /\ totalWork \in Amount
          /\ workDone \in Amount
          /\ progress = NaN \/ progress \in Amount \X Nat
          /\ calls \in Nat
          /\ asked \subseteq [workDone : Amount, totalWork : Amount]

(* The three properties agree once they are set: they show the two numbers *)
(* of one call, though several threads call at once, and their quotient.   *)
NotTorn == fx = "idle" => /\ Update(workDone, totalWork) \in asked
                          /\ progress = Quotient(workDone, totalWork)

(* Whatever was passed, at rest no negative number but -1 is shown, and    *)
(* workDone does not exceed totalWork.                                     *)
WorkBounded == fx = "idle" => -1 <= workDone /\ workDone <= totalWork
=============================================================================
