----------------------------- MODULE TaskUpdates -----------------------------
(***************************************************************************)
(* Task.updateMessage, updateTitle, updateValue and updateProgress: the    *)
(* channel by which background threads hand a value to a property that     *)
(* only the FX application thread may set.  An AtomicReference holds the   *)
(* value in flight; the caller that finds it null posts a runLater         *)
(* lambda, and the lambda takes whatever value it finds when it runs.      *)
(*                                                                         *)
(* The n-th call passes the value n (so that values are told apart) or     *)
(* null.  Only the lambdas of this channel matter in the FX event queue,   *)
(* and they are all alike, so the queue is their number.                   *)
(***************************************************************************)
EXTENDS Naturals

CONSTANTS Threads,     \* background threads that call the update method
          AllowNull,   \* whether callers may pass null
          FxOvertakes, \* whether the FX thread calls it with a value in flight
          MaxCalls     \* bound on the number of calls

ASSUME UpdatesAssumption == /\ AllowNull \in BOOLEAN
                            /\ FxOvertakes \in BOOLEAN
                            /\ MaxCalls \in Nat

VARIABLES pending,     \* messageUpdate / titleUpdate / valueUpdate
          pc,          \* background thread: between getAndSet and runLater?
          lambdas,     \* delivery lambdas in the FX event queue
          fx,          \* FX thread: "idle", or "set": value taken, not yet set
          taken,       \* the value the running lambda took
          prop,        \* the property
          calls,       \* number of calls so far
          last         \* argument of the last call

vars == <<pending, pc, lambdas, fx, taken, prop, calls, last>>

Null == 0

Arguments == {calls + 1} \cup (IF AllowNull THEN {Null} ELSE {})

UInit == /\ pending = Null
         /\ pc = [t \in Threads |-> "idle"]
         /\ lambdas = 0
         /\ fx = "idle"
         /\ taken = Null
         /\ prop = Null
         /\ calls = 0
         /\ last = Null

\* Mutants: every caller posts, no caller posts
PostAlways == TRUE
PostNever  == FALSE

(* Only the caller whose getAndSet returned null posts a lambda. *)
MustPost   == pending = Null

(* getAndSet of the new value. *)
Update(t) ==
  /\ pc[t] = "idle"
  /\ calls < MaxCalls
  /\ \E v \in Arguments : pending' = v /\ last' = v
  /\ calls' = calls + 1
  /\ pc' = [pc EXCEPT ![t] = IF MustPost THEN "post" ELSE "idle"]
  /\ UNCHANGED <<lambdas, fx, taken, prop>>

(* The runLater of that caller. *)
Post(t) ==
  /\ pc[t] = "post"
  /\ pc' = [pc EXCEPT ![t] = "idle"]
  /\ lambdas' = lambdas + 1
  /\ UNCHANGED <<pending, fx, taken, prop, calls, last>>

(* The FX thread runs a lambda: getAndSet(null) ... *)
Take ==
  /\ fx = "idle"
  /\ lambdas > 0
  /\ lambdas' = lambdas - 1
  /\ taken' = pending
  /\ pending' = Null
  /\ fx' = "set"
  /\ UNCHANGED <<pc, prop, calls, last>>

\* Mutant: the reference is cleared after the property is set
SetThenClear ==
  /\ fx = "set"
  /\ prop' = taken
  /\ pending' = Null
  /\ fx' = "idle"
  /\ taken' = Null
  /\ UNCHANGED <<pc, lambdas, calls, last>>

(* ... and sets the property. *)
SetProperty ==
  /\ fx = "set"
  /\ prop' = taken
  /\ fx' = "idle"
  /\ taken' = Null
  /\ UNCHANGED <<pending, pc, lambdas, calls, last>>

(* The branch for calls made on the FX thread: the property is set at once *)
(* and a value in flight is left in flight.  A caller that does not        *)
(* overtake calls when all is delivered, as succeeded() and the others do. *)
Posting == {t \in Threads : pc[t] = "post"}

Settled == Posting = {} /\ lambdas = 0 /\ fx = "idle"

UpdateOnFx ==
  /\ fx = "idle"
  /\ FxOvertakes \/ Settled
  /\ calls < MaxCalls
  /\ \E v \in Arguments : prop' = v /\ last' = v
  /\ calls' = calls + 1
  /\ UNCHANGED <<pending, pc, lambdas, fx, taken>>

UNext == \/ \E t \in Threads : Update(t) \/ Post(t)
         \/ Take
         \/ SetProperty
         \/ UpdateOnFx

USpec == UInit /\ [][UNext]_vars

(* The FX thread keeps running its event queue, and a background thread    *)
(* that entered the update method leaves it.  Nobody has to call it.       *)
UFairSpec == /\ USpec
             /\ WF_vars(Take)
             /\ WF_vars(SetProperty)
             /\ \A t \in Threads : WF_vars(Post(t))
-----------------------------------------------------------------------------
(* Type invariant of the channel of an update method. *)
TypeOK == /\ pending \in Nat
          /\ pc \in [Threads -> {"idle", "post"}]
          /\ lambdas \in Nat
          /\ fx \in {"idle", "set"}
          /\ taken \in Nat
          /\ prop \in Nat
          /\ calls \in Nat
          /\ last \in Nat

(* Coalescing does not flood the event queue: however many threads update, *)
(* at most one of them is about to post or has posted a lambda.            *)
AtMostOneInFlight ==
  /\ \A s, t \in Posting : s = t
  /\ lambdas <= 1
  /\ lambdas = 1 => Posting = {}

(* A lambda never finds the reference empty: it would set the property to  *)
(* null (or, in updateProgress, dereference null).                         *)
LambdaFindsValue == lambdas > 0 => pending # Null

(* "Intermediate message values may be coalesced" but not the last one:    *)
(* once nothing is in flight the property shows the last call's argument.  *)
LastUpdateShown == Settled => prop = last

(* The channel implements the promise of LatestValue. *)
Promise == INSTANCE LatestValue WITH shown <- prop
RefinesLatestValue == Promise!Spec
EventuallyLatest == Promise!FairSpec
=============================================================================
