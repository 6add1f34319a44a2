------------------------------- MODULE Service -------------------------------
(***************************************************************************)
(* javafx.concurrent.Service: a reusable Worker.  Each start() creates a   *)
(* task, binds the service's properties to the task's and hands the task   *)
(* to an executor; restart() and reset() let go of the old task.           *)
(*                                                                         *)
(* The service lives on the FX thread, but its methods are called by       *)
(* application code that runs inside listeners and event handlers too, so  *)
(* a restart may begin in the middle of another one; and the first start() *)
(* may be called on any thread.  The methods are operations on the stack   *)
(* fx of module Task.  A method that throws IllegalStateException or       *)
(* NullPointerException drops its remaining operations.                    *)
(*                                                                         *)
(* The other properties are bound by start() in one step and unbound by    *)
(* reset() in two, the order of which shows in between, as each calls its  *)
(* listeners: rest.value is the binding of value, exception, workDone,     *)
(* totalWork and progress, rest.running that of running, message, title.   *)
(***************************************************************************)
EXTENDS Task, FiniteSets

CONSTANTS None,       \* null
          CallSites,  \* where application code calls start, restart, reset
          AnyThread   \* whether the first start() may be on another thread

ASSUME ServiceAssumption == /\ None \notin Tasks
                            /\ CallSites \subseteq Sites
                            /\ AnyThread \in BOOLEAN

VARIABLES task,         \* the task field
          bound,        \* the task the state property is bound to, if any
          rest,         \* the tasks the other properties are bound to, if any
          ownState,     \* the state property while it is not bound
          startedOnce,  \* the flag of checkThread
          created       \* the tasks createTask has returned so far

svcVars == <<task, bound, rest, ownState, startedOnce, created>>
vars    == <<tvars, svcVars>>

serviceState   == IF bound # None THEN state[bound] ELSE ownState
serviceRunning == rest.running # None /\ running[rest.running]

RestOf(t) == [value |-> t, running |-> t]

SInit == /\ TInit
         /\ task = None
         /\ bound = None
         /\ rest = RestOf(None)
         /\ ownState = "READY"
         /\ startedOnce = FALSE
         /\ created = {}
-----------------------------------------------------------------------------
SvcOp(op) == Op(op, None, "null")
TopSvc(op) == fx # <<>> /\ Head(fx).op = op

(* The listeners of the service's own state: the event handlers. *)
NotifyState(changed) == IF changed THEN <<Callback(None, "stateListener")>> ELSE <<>>

(* Those of the others, which may have changed if they were bound. *)
NotifyRest(t, site) == IF t # None THEN <<Callback(None, site)>> ELSE <<>>

(* An exception leaves the method that the application called. *)
Callbacks(ops) == {i \in 1 .. Len(ops) : ops[i].op = "callback"}
Unwound == IF Callbacks(fx) = {} THEN <<>>
           ELSE SubSeq(fx, CHOOSE i \in Callbacks(fx) : \A j \in Callbacks(fx) : i <= j,
                       Len(fx))
Throw == fx' = Unwound

(* Bound: the application calls start and restart only while there is a    *)
(* task left for createTask to return.                                     *)
Starting == {i \in 1 .. Len(fx) : fx[i].op = "start"}
MayCreate == Cardinality(Starting) < Cardinality(Tasks \ created)

\* Mutant: the old task is not cancelled
CancelNothing(ops) == fx' = ops \o fx /\ UNCHANGED future

(* task.cancel(true), as the first operation of a method. *)
CancelTask(ops) ==
  IF task # None /\ future[task] = "NEW"
  THEN /\ CancelFuture(task)
       /\ fx' = CancelLambda(task) \o ops \o fx
  ELSE /\ fx' = ops \o fx
       /\ UNCHANGED future

Cancel ==
  /\ OnFx(CancelSites)
  /\ IF task # None
     THEN /\ future[task] = "NEW"
          /\ CancelTask(<<>>)
          /\ UNCHANGED ownState
     ELSE /\ ownState \notin {"CANCELLED", "SUCCEEDED"}
          /\ ownState' = "CANCELLED"
          /\ fx' = NotifyState(TRUE) \o fx
          /\ UNCHANGED future
  /\ UNCHANGED <<pc, cancelling, propVars, queue, task, bound, rest, startedOnce, created>>

Restart ==
  /\ OnFx(CallSites)
  /\ MayCreate
  /\ CancelTask((IF task # None THEN <<SvcOp("letGo")>> ELSE <<>>)
                \o <<SvcOp("reset"), SvcOp("start")>>)
  /\ UNCHANGED <<pc, cancelling, propVars, queue, svcVars>>

\* Mutant: the state goes straight to READY
LetGoToReady ==
  /\ TopSvc("letGo")
  /\ task' = None
  /\ bound' = None
  /\ ownState' = "READY"
  /\ Continue(NotifyState(serviceState # "READY"))
  /\ UNCHANGED <<taskVars, queue, rest, startedOnce, created>>

(* restart: task = null; state.unbind(); state.set(CANCELLED) *)
LetGo ==
  /\ TopSvc("letGo")
  /\ task' = None
  /\ bound' = None
  /\ ownState' = "CANCELLED"
  /\ Continue(NotifyState(serviceState # "CANCELLED"))
  /\ UNCHANGED <<taskVars, queue, rest, startedOnce, created>>

CallReset == /\ OnFx(CallSites)
             /\ serviceState \notin Active               \* else it throws
             /\ serviceState # "READY" \/ task # None    \* else nothing changes
             /\ fx' = <<SvcOp("reset")>> \o fx
             /\ UNCHANGED <<taskVars, queue, svcVars>>

(* reset: the state goes back to READY, which calls the handlers, before   *)
(* the other properties are unbound, one after the other.                  *)
Reset ==
  /\ TopSvc("reset")
  /\ \/ /\ serviceState \in Active
        /\ Throw
        /\ UNCHANGED svcVars
     \/ /\ serviceState \notin Active
        /\ task' = None
        /\ bound' = None
        /\ ownState' = "READY"
        /\ Continue(NotifyState(serviceState # "READY") \o <<SvcOp("unbindValues")>>)
        /\ UNCHANGED <<rest, startedOnce, created>>
  /\ UNCHANGED <<taskVars, queue>>

UnbindValues ==
  /\ TopSvc("unbindValues")
  /\ rest' = [rest EXCEPT !.value = None]
  /\ Continue(NotifyRest(rest.value, "valueListener") \o <<SvcOp("unbindRest")>>)
  /\ UNCHANGED <<taskVars, queue, task, bound, ownState, startedOnce, created>>

\* Mutant: the properties stay bound
UnbindNothing == /\ TopSvc("unbindRest")
                 /\ Continue(<<>>)
                 /\ UNCHANGED <<taskVars, queue, svcVars>>

UnbindRest == /\ TopSvc("unbindRest")
              /\ rest' = [rest EXCEPT !.running = None]
              /\ Continue(NotifyRest(rest.running, "runningListener"))
              /\ UNCHANGED <<taskVars, queue, task, bound, ownState, startedOnce, created>>

(* start: a new task, and every property bound to it. *)
NewTask(t) == /\ t \notin created
              /\ created' = created \cup {t}
              /\ task' = t
              /\ bound' = t
              /\ rest' = RestOf(t)
              /\ startedOnce' = TRUE
              /\ UNCHANGED ownState

ScheduleLambda == <<SvcOp("schedule"), SvcOp("execute")>>

CallStart == /\ OnFx(CallSites)
             /\ serviceState = "READY"
             /\ MayCreate
             /\ fx' = <<SvcOp("start")>> \o fx
             /\ UNCHANGED <<taskVars, queue, svcVars>>

Start ==
  /\ TopSvc("start")
  /\ \/ /\ serviceState # "READY"
        /\ Throw
        /\ UNCHANGED svcVars
     \/ /\ serviceState = "READY"
        /\ \E t \in Tasks : NewTask(t)
        /\ Continue(ScheduleLambda)
  /\ UNCHANGED <<taskVars, queue>>

(* The first start(), on a thread other than the FX thread, which does not *)
(* use the service at the same time.                                       *)
StartOnAnyThread ==
  /\ AnyThread
  /\ fx = <<>>
  /\ ~startedOnce
  /\ serviceState = "READY"
  /\ \E t \in Tasks : NewTask(t)
  /\ runLater(ScheduleLambda)
  /\ UNCHANGED <<taskVars, fx>>

(* task.setState(SCHEDULED), on the task in the field at this moment. *)
Schedule == /\ TopSvc("schedule")
            /\ IF task = None THEN Throw
               ELSE Continue(<<Op("setState", task, "SCHEDULED")>>)
            /\ UNCHANGED <<taskVars, queue, svcVars>>

\* Mutant: the task is not executed
executeNothing == /\ TopSvc("execute")
                  /\ Continue(<<>>)
                  /\ UNCHANGED <<taskVars, queue, svcVars>>

(* executeTask(task): running a FutureTask a second time does nothing. *)
executeTask == /\ TopSvc("execute")
               /\ pc' = [t \in Tasks |-> IF t = task /\ pc[t] = "new" THEN "submitted" ELSE pc[t]]
               /\ Continue(<<>>)
               /\ UNCHANGED <<future, cancelling, propVars, queue, svcVars>>
-----------------------------------------------------------------------------
TaskStep == /\ \/ \E t \in Tasks : Worker(t)
               \/ FxThread
            /\ UNCHANGED svcVars

SvcFxStep == LetGo \/ Reset \/ UnbindValues \/ UnbindRest \/ Start \/ Schedule \/ executeTask

AppCall == Cancel \/ Restart \/ CallReset \/ CallStart \/ StartOnAnyThread

SNext == TaskStep \/ SvcFxStep \/ AppCall

SSpec == SInit /\ [][SNext]_vars

(* As for a task: pool threads run what they were given and the FX thread  *)
(* serves its queue.  The application need not call anything.              *)
SFairSpec == /\ SSpec
             /\ \A t \in Tasks : /\ SF_vars(Finishing(t) /\ UNCHANGED svcVars)
                                 /\ WF_vars(PostUpdate(t) /\ UNCHANGED svcVars)
             /\ WF_vars((FxThread /\ UNCHANGED svcVars) \/ SvcFxStep)
-----------------------------------------------------------------------------
(* Type invariant of a service; startedOnce, on which checkThread relies,  *)
(* tells whether there ever was a task.                                    *)
STypeOK ==
  /\ task \in Tasks \cup {None}
  /\ bound \in Tasks \cup {None}
  /\ rest \in [value : Tasks \cup {None}, running : Tasks \cup {None}]
  /\ ownState \in States
  /\ startedOnce = (created # {})
  /\ created \subseteq Tasks

(* The worker that reusable tasks add up to: "a reusable Worker will       *)
(* transition from CANCELLED, SUCCEEDED or FAILED back to READY", and from *)
(* there in the order of a task.  "The Service specification does not      *)
(* allow to transition from a terminal state to another", and nothing but  *)
(* these does: restart() lets go of a task that succeeded or failed, or    *)
(* the task itself is cancelled after it has shown its outcome.            *)
ServiceSuccessors(s) == CASE s = "READY"     -> {"SCHEDULED", "CANCELLED"}
                          [] s = "SCHEDULED" -> {"RUNNING", "CANCELLED"}
                          [] s = "RUNNING"   -> Ended
                          [] OTHER           -> {"READY"}

CancelledAfterEnd == /\ serviceState \in {"SUCCEEDED", "FAILED"} /\ serviceState' = "CANCELLED"
                     /\ LetGo \/ future'[bound] = "CANCELLED"

ServiceInOrder == [][serviceState' # serviceState
                     => \/ serviceState' \in ServiceSuccessors(serviceState)
                        \/ CancelledAfterEnd]_vars

(* A task the service has let go of does not start or go on working        *)
(* uncancelled.                                                            *)
NoOrphan == fx = <<>> => \A t \in created \ {task} :
              pc[t] \in {"submitted", "started", "call", "postUpdate"} => future[t] = "CANCELLED"

(* All properties of the service show the same task, and running agrees    *)
(* with the state.                                                         *)
BoundTogether == fx = <<>> => /\ bound = task
                              /\ rest = RestOf(task)
                              /\ serviceRunning <=> serviceState \in Active

(* A service that is scheduled or running does not stay so: its task ends, *)
(* or it is restarted and the next one does.                               *)
ServiceConcludes == serviceState \in Active ~> serviceState \in Ended
=============================================================================
