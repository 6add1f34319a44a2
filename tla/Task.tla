-------------------------------- MODULE Task --------------------------------
(***************************************************************************)
(* The life cycle of javafx.concurrent.Task.                               *)
(*                                                                         *)
(* A task is a FutureTask run by a background thread.  Its observable      *)
(* properties belong to the FX application thread: the background thread   *)
(* posts runLater lambdas and the FX thread runs them in order.  On the FX *)
(* thread every property change and every event calls back application     *)
(* code, which may call cancel() before it returns.  The FX thread is      *)
(* therefore a stack of pending operations, fx: what is left of the lambda *)
(* being run, with nested calls pushed in front.                           *)
(*                                                                         *)
(* Of the data only the value property is kept (null, an intermediate      *)
(* result, the result): its update channel shares the event queue with the *)
(* state changes, and the order of the two matters.                        *)
(***************************************************************************)
EXTENDS Naturals, Sequences

CONSTANTS Tasks,        \* the tasks of the application
          CancelSites   \* where application code calls cancel()

Sites == {"background",       \* a thread other than the FX thread
          "event",            \* the FX thread, in an event of its own
          "stateListener",    \* a listener of the state property
          "runningListener",  \* a listener of the running property
          "valueListener",    \* a listener of the value or exception property
          "handler"}          \* an event handler, or running(), succeeded() ...

ASSUME SitesAssumption == CancelSites \subseteq Sites

VARIABLES future,      \* state of the FutureTask
          pc,          \* where the background thread is in TaskCallable.call
          cancelling,  \* a background cancel() won and has yet to post
          state, running, value, exception,   \* the observable properties
          valueUpdate, \* the AtomicReference of updateValue
          fired,       \* how often the event of each state was fired
          queue,       \* the FX event queue: a sequence of lambdas
          fx           \* operations left of the lambda being run

futureVars == <<future, pc, cancelling>>
propVars   == <<state, running, value, exception, valueUpdate, fired>>
taskVars   == <<futureVars, propVars>>
tvars      == <<taskVars, queue, fx>>

States == {"READY", "SCHEDULED", "RUNNING", "SUCCEEDED", "CANCELLED", "FAILED"}
Ended  == {"SUCCEEDED", "CANCELLED", "FAILED"}
Active == {"SCHEDULED", "RUNNING"}
Values == {"null", "partial", "result"}
PCs    == {"new", "submitted", "started", "call", "postUpdate", "returned",
           "postSucceeded", "set", "threw", "setException", "done"}

(* One operation of the FX thread on task t. *)
Op(op, t, v) == [op |-> op, t |-> t, v |-> v]
Callback(t, site) == Op("callback", t, site)

\* Mutants: SCHEDULED is left out, the state comes before the value, cancel does not
\* change the state
RunAtOnce(t)       == <<Op("setState", t, "RUNNING")>>
SucceedTooEarly(t) == <<Op("setState", t, "SUCCEEDED"), Op("setValue", t, "result")>>
CancelSilently(t)  == <<>>

StartLambda(t)   == <<Op("setState", t, "SCHEDULED"), Op("setState", t, "RUNNING")>>
SucceedLambda(t) == <<Op("setValue", t, "result"), Op("setState", t, "SUCCEEDED")>>
FailLambda(t)    == <<Op("setException", t, "null"), Op("setState", t, "FAILED")>>
CancelLambda(t)  == <<Op("setState", t, "CANCELLED")>>
UpdateLambda(t)  == <<Op("takeUpdate", t, "null")>>

runLater(lambda) == queue' = Append(queue, lambda)

TInit == /\ future = [t \in Tasks |-> "NEW"]
         /\ pc = [t \in Tasks |-> "new"]
         /\ cancelling = [t \in Tasks |-> FALSE]
         /\ state = [t \in Tasks |-> "READY"]
         /\ running = [t \in Tasks |-> FALSE]
         /\ value = [t \in Tasks |-> "null"]
         /\ exception = [t \in Tasks |-> FALSE]
         /\ valueUpdate = [t \in Tasks |-> "null"]
         /\ fired = [t \in Tasks |-> [s \in States |-> 0]]
         /\ queue = <<>>
         /\ fx = <<>>
-----------------------------------------------------------------------------
(* The background thread.  FutureTask itself is external.                  *)

Goto(t, from, to) == pc[t] = from /\ pc' = [pc EXCEPT ![t] = to]

(* The application hands the task to a thread or an executor. *)
Submit(t) == /\ Goto(t, "new", "submitted")
             /\ UNCHANGED <<future, cancelling, propVars, queue, fx>>

(* FutureTask.run: nothing happens when the future is no longer new. *)
Run(t) == /\ Goto(t, "submitted", IF future[t] = "NEW" THEN "started" ELSE "done")
          /\ UNCHANGED <<future, cancelling, propVars, queue, fx>>

CallStarted(t) == /\ Goto(t, "started", "call")
                  /\ runLater(StartLambda(t))
                  /\ UNCHANGED <<future, cancelling, propVars, fx>>

(* updateValue from within call(): getAndSet, then runLater if it was null. *)
UpdateValue(t) ==
  /\ Goto(t, "call", IF valueUpdate[t] = "null" THEN "postUpdate" ELSE "call")
  /\ valueUpdate' = [valueUpdate EXCEPT ![t] = "partial"]
  /\ UNCHANGED <<future, cancelling, state, running, value, exception, fired, queue, fx>>

PostUpdate(t) == /\ Goto(t, "postUpdate", "call")
                 /\ runLater(UpdateLambda(t))
                 /\ UNCHANGED <<future, cancelling, propVars, fx>>

(* call() returns; if the task is cancelled the result is dropped. *)
CallReturns(t) == /\ \/ Goto(t, "call", "returned")
                     \/ /\ future[t] # "CANCELLED"
                        /\ Goto(t, "returned", "postSucceeded")
                     \/ /\ future[t] = "CANCELLED"
                        /\ Goto(t, "returned", "done")
                  /\ UNCHANGED <<future, cancelling, propVars, queue, fx>>

PostSucceeded(t) == /\ Goto(t, "postSucceeded", "set")
                    /\ runLater(SucceedLambda(t))
                    /\ UNCHANGED <<future, cancelling, propVars, fx>>

(* call() throws, for a reason of its own or because cancel interrupted it. *)
CallThrows(t) == /\ Goto(t, "call", "threw")
                 /\ UNCHANGED <<future, cancelling, propVars, queue, fx>>

PostFailed(t) == /\ Goto(t, "threw", "setException")
                 /\ runLater(FailLambda(t))
                 /\ UNCHANGED <<future, cancelling, propVars, fx>>

(* FutureTask.set and setException: a compare-and-set from NEW. *)
Outcome(t) == IF pc[t] = "set" THEN "NORMAL" ELSE "EXCEPTIONAL"

FutureDone(t) ==
  /\ pc[t] \in {"set", "setException"}
  /\ pc' = [pc EXCEPT ![t] = "done"]
  /\ future' = [future EXCEPT ![t] = IF @ = "NEW" THEN Outcome(t) ELSE @]
  /\ UNCHANGED <<cancelling, propVars, queue, fx>>

(* cancel() on a thread other than the FX thread. *)
CancelFuture(t) == future[t] = "NEW" /\ future' = [future EXCEPT ![t] = "CANCELLED"]

CancelInBackground(t) ==
  /\ "background" \in CancelSites
  /\ CancelFuture(t)
  /\ cancelling' = [cancelling EXCEPT ![t] = TRUE]
  /\ UNCHANGED <<pc, propVars, queue, fx>>

PostCancelled(t) ==
  /\ cancelling[t]
  /\ cancelling' = [cancelling EXCEPT ![t] = FALSE]
  /\ runLater(CancelLambda(t))
  /\ UNCHANGED <<future, pc, propVars, fx>>
-----------------------------------------------------------------------------
(* The FX application thread. *)

(* The next lambda of the event queue. *)
RunLambda == /\ fx = <<>>
             /\ queue # <<>>
             /\ fx' = Head(queue)
             /\ queue' = Tail(queue)
             /\ UNCHANGED taskVars

Top(op, t) == fx # <<>> /\ Head(fx).op = op /\ Head(fx).t = t
Arg == Head(fx).v

(* The operation at the top is replaced by those it still has to do. *)
Continue(ops) == fx' = ops \o Tail(fx)
Notify(changed, t, site) == IF changed THEN <<Callback(t, site)>> ELSE <<>>

\* Mutant: a cancelled task changes state
NeverIgnored(t) == FALSE

(* A cancelled task stays cancelled. *)
Ignored(t) == state[t] = "CANCELLED"

(* The running flag that goes with a state. *)
IsRunning(s) == s = "SCHEDULED" \/ s = "RUNNING"

(* setState: unless it is ignored the state is set, its listeners run,     *)
(* then the running flag is set and the event fired.                       *)
setState(t) ==
  /\ Top("setState", t)
  /\ \/ /\ Ignored(t)
        /\ Continue(<<>>)
        /\ UNCHANGED state
     \/ /\ ~Ignored(t)
        /\ state' = [state EXCEPT ![t] = Arg]
        /\ Continue(Notify(state[t] # Arg, t, "stateListener")
                    \o <<Op("setRunning", t, Arg), Op("fireEvent", t, "null")>>)
  /\ UNCHANGED <<futureVars, running, value, exception, valueUpdate, fired, queue>>

setRunning(t) ==
  /\ Top("setRunning", t)
  /\ running' = [running EXCEPT ![t] = IsRunning(Arg)]
  /\ Continue(Notify(running[t] # running'[t], t, "runningListener"))
  /\ UNCHANGED <<futureVars, state, value, exception, valueUpdate, fired, queue>>

\* Mutant: no event
FireNothing(t) ==
  /\ Top("fireEvent", t)
  /\ Continue(<<>>)
  /\ UNCHANGED <<futureVars, propVars, queue>>

(* The event fired is that of the state at this moment, not of the argument. *)
fireEvent(t) ==
  /\ Top("fireEvent", t)
  /\ fired' = [fired EXCEPT ![t][state[t]] = @ + 1]
  /\ Continue(<<Callback(t, "handler")>>)
  /\ UNCHANGED <<futureVars, state, running, value, exception, valueUpdate, queue>>

setValue(t) ==
  /\ Top("setValue", t)
  /\ value' = [value EXCEPT ![t] = Arg]
  /\ Continue(Notify(value[t] # Arg, t, "valueListener"))
  /\ UNCHANGED <<futureVars, state, running, exception, valueUpdate, fired, queue>>

_setException(t) ==
  /\ Top("setException", t)
  /\ exception' = [exception EXCEPT ![t] = TRUE]
  /\ Continue(<<Callback(t, "valueListener")>>)
  /\ UNCHANGED <<futureVars, state, running, value, valueUpdate, fired, queue>>

(* The lambda of updateValue: getAndSet(null), then value.set. *)
TakeUpdate(t) ==
  /\ Top("takeUpdate", t)
  /\ valueUpdate' = [valueUpdate EXCEPT ![t] = "null"]
  /\ Continue(<<Op("setValue", t, valueUpdate[t])>>)
  /\ UNCHANGED <<futureVars, state, running, value, exception, fired, queue>>

(* Application code called back on the FX thread returns ... *)
Return == /\ fx # <<>>
          /\ Head(fx).op = "callback"
          /\ Continue(<<>>)
          /\ UNCHANGED <<taskVars, queue>>

(* ... or first cancels a task, as it may in an event of its own; the      *)
(* state changes before cancel() returns.                                  *)
OnFx(sites) == IF fx = <<>> THEN "event" \in sites
               ELSE Head(fx).op = "callback" /\ Head(fx).v \in sites

CancelOnFx(t) ==
  /\ OnFx(CancelSites)
  /\ CancelFuture(t)
  /\ fx' = CancelLambda(t) \o fx
  /\ UNCHANGED <<pc, cancelling, propVars, queue>>

Finishing(t) == \/ Run(t) \/ CallStarted(t) \/ CallReturns(t) \/ PostSucceeded(t)
                \/ CallThrows(t) \/ PostFailed(t) \/ FutureDone(t)

Worker(t) == Finishing(t) \/ UpdateValue(t) \/ PostUpdate(t)

FxStep(t) == \/ setState(t) \/ setRunning(t) \/ fireEvent(t) \/ setValue(t)
             \/ _setException(t) \/ TakeUpdate(t)

FxThread == RunLambda \/ Return \/ \E t \in Tasks : FxStep(t)

TNext == \/ \E t \in Tasks : \/ Submit(t) \/ Worker(t)
                             \/ CancelInBackground(t) \/ PostCancelled(t)
                             \/ CancelOnFx(t)
         \/ FxThread

TSpec == TInit /\ [][TNext]_tvars

(* The background thread runs a submitted task to its end (a call() that   *)
(* gets to run again and again does not update its value for ever); a      *)
(* cancel() that won the race completes; the FX thread serves its queue    *)
(* and callbacks return.                                                   *)
TFairness == /\ \A t \in Tasks : /\ SF_tvars(Finishing(t))
                                 /\ WF_tvars(PostUpdate(t))
                                 /\ WF_tvars(PostCancelled(t))
             /\ WF_tvars(FxThread)

TFairSpec == TSpec /\ TFairness
-----------------------------------------------------------------------------
(* Type invariant of the task life cycle. *)
TTypeOK ==
  /\ future \in [Tasks -> {"NEW", "NORMAL", "EXCEPTIONAL", "CANCELLED"}]
  /\ pc \in [Tasks -> PCs]
  /\ cancelling \in [Tasks -> BOOLEAN]
  /\ state \in [Tasks -> States]
  /\ running \in [Tasks -> BOOLEAN]
  /\ value \in [Tasks -> Values]
  /\ exception \in [Tasks -> BOOLEAN]
  /\ valueUpdate \in [Tasks -> Values]
  /\ \A t \in Tasks : \A s \in States : fired[t][s] \in Nat
  /\ fx \in Seq([op : STRING, t : Tasks, v : STRING])
  /\ queue \in Seq(Seq([op : STRING, t : Tasks, v : STRING]))

(* "The transition is always from READY to SCHEDULED to RUNNING (unless of *)
(* course the Worker is cancelled)", whatever is still queued and whatever *)
(* callbacks do; nothing follows CANCELLED.                                *)
Successors(s) == CASE s = "READY"     -> {"SCHEDULED", "CANCELLED"}
                   [] s = "SCHEDULED" -> {"RUNNING", "CANCELLED"}
                   [] s = "RUNNING"   -> Ended
                   [] s = "CANCELLED" -> {}
                   [] OTHER           -> {"CANCELLED"}

InOrder == [][\A t \in Tasks : state'[t] # state[t]
                                => state'[t] \in Successors(state[t])]_state

(* A task that has ended stays in the state in which it ended. *)
EndIsFinal == [][\A t \in Tasks : state[t] \in Ended => state'[t] = state[t]]_state

(* When a task shows SUCCEEDED its value is the result, not a value left   *)
(* in flight by updateValue; when it shows FAILED the exception is there.  *)
OutcomeAvailable ==
  \A t \in Tasks : /\ state[t] = "SUCCEEDED" => value[t] = "result"
                   /\ state[t] = "FAILED" => exception[t]

(* The state and the Future agree once everything posted has been run: no  *)
(* order of completion, cancel and event delivery leaves them apart.       *)
Settled(t) == /\ queue = <<>> /\ fx = <<>>
              /\ ~cancelling[t]
              /\ pc[t] \in {"new", "done"}

Conclusion(f) == CASE f = "NEW"         -> "READY"
                   [] f = "NORMAL"      -> "SUCCEEDED"
                   [] f = "EXCEPTIONAL" -> "FAILED"
                   [] OTHER             -> "CANCELLED"

StateAgreesWithFuture ==
  \A t \in Tasks : Settled(t) => state[t] = Conclusion(future[t])

(* Event handlers and succeeded(), failed() ... are told of the state the  *)
(* task is in, and once only: but for CANCELLED, which is told twice when  *)
(* a listener of another state cancels.                                    *)
HandlersTold ==
  \A t \in Tasks :
    /\ \A s \in States \ {"CANCELLED"} : fired[t][s] <= 1
    /\ fx = <<>> /\ state[t] # "READY" => fired[t][state[t]] >= 1

(* A submitted task ends, and a task whose future was cancelled is shown   *)
(* as cancelled.                                                           *)
Concludes ==
  \A t \in Tasks : /\ pc[t] # "new" ~> state[t] \in Ended
                   /\ future[t] = "CANCELLED" ~> state[t] = "CANCELLED"
=============================================================================
