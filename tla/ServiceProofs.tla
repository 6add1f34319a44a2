--------------------------- MODULE ServiceProofs ----------------------------
(***************************************************************************)
(* Proofs about a service, for any set of tasks, wherever cancel() is      *)
(* called and whatever thread calls start() first.                         *)
(*                                                                         *)
(* start(), restart() and reset() call listeners and handlers, which may   *)
(* call the service too.  Two things go wrong when they do so in the       *)
(* middle of such a call: a restart() made by a listener that restart()    *)
(* itself called leaves the outer call to go on with a task that is not    *)
(* its own, and the two may let go of a task that nobody cancels.          *)
(*                                                                         *)
(* The first part (NoOrphan, BoundTogether) is therefore about             *)
(* applications whose calls do not overlap: start(), restart() and reset() *)
(* are called anywhere, in listeners and handlers of a task's outcome too, *)
(* but not while one of them is still under way.  Calls in events of their *)
(* own are of this kind.  Its invariant is Base, with FlagFollows for the  *)
(* running flag.                                                           *)
(*                                                                         *)
(* The second part (ServiceInOrder, InOrder, StateAgreesWithFuture, the    *)
(* types) is about calls that overlap in any way.  Its invariant is IInv.  *)
(***************************************************************************)
EXTENDS Service, SequenceTheorems, WellFoundedInduction, TLAPS

(* The operations that are left of the methods of the service.             *)
Methods == {"letGo", "reset", "unbindValues", "unbindRest", "start", "schedule", "execute"}

Has(f, op)  == \E i \in 1 .. Len(f) : f[i].op = op
Underway(f) == \E i \in 1 .. Len(f) : f[i].op \in Methods

(* Calls that do not overlap.                                              *)
OrderlyNext ==
  \/ TaskStep \/ SvcFxStep \/ Cancel \/ StartOnAnyThread
  \/ ~Underway(fx) /\ (Restart \/ CallReset \/ CallStart)

OrderlySpec == SInit /\ [][OrderlyNext]_vars
-----------------------------------------------------------------------------
TaskOps == {"callback", "setRunning", "fireEvent", "setState", "setValue", "setException",
            "takeUpdate"}

AllOps == [op : TaskOps \cup Methods, t : Tasks \cup {None}, v : States \cup Values \cup Sites]

(* The background thread can no longer be told to stop.                    *)
Late == {"returned", "postSucceeded", "set", "threw", "setException", "done"}

(* What a task that is shown in state s, or is about to be, has behind it: *)
(* where its background thread is by p, and its future by fu.              *)
Reached(t, s, p, fu) == /\ s = "SUCCEEDED" => p[t] \in {"set", "done"}
                        /\ s = "FAILED" => p[t] \in {"setException", "done"}
                        /\ s = "CANCELLED" => fu[t] = "CANCELLED"

(* The operations on the stack and in the queue are about tasks that were  *)
(* created, and announce only states that these tasks have reached.        *)
Sound(o, cr, p, fu) ==
  /\ o.op \in TaskOps \ {"callback"} => o.t \in cr
  /\ o.t \in cr \cup {None}
  /\ o.op \in {"setState", "setRunning"} => o.v \in States \ {"READY"}
  /\ o.op = "setState" => Reached(o.t, o.v, p, fu)
  /\ o.op = "callback" => o.v # "event"

Sounds(f, cr, p, fu) == f \in Seq(AllOps) /\ \A i \in 1 .. Len(f) : Sound(f[i], cr, p, fu)

Lambda(l, cr, p, fu) == /\ Sounds(l, cr, p, fu)
                        /\ ~Has(l, "callback") /\ ~Has(l, "setRunning")
                        /\ Underway(l) => l = ScheduleLambda

Lambdas(q, cr, p, fu) == /\ q \in Seq(Seq(AllOps))
                         /\ \A i \in 1 .. Len(q) : Lambda(q[i], cr, p, fu)

Types ==
  /\ future \in [Tasks -> {"NEW", "NORMAL", "EXCEPTIONAL", "CANCELLED"}]
  /\ pc \in [Tasks -> PCs]
  /\ state \in [Tasks -> States]
  /\ running \in [Tasks -> BOOLEAN]
  /\ valueUpdate \in [Tasks -> Values]
  /\ created \subseteq Tasks
  /\ task \in created \cup {None}
  /\ bound = task
  /\ ownState \in {"READY", "CANCELLED"}

(* A task: nothing has happened to it before createTask returns it; it is  *)
(* scheduled before it is executed; and if it is not the service's any     *)
(* more, it was not executed, was cancelled, or has done its work.         *)
Works(t) ==
  /\ t \notin created => pc[t] = "new" /\ future[t] = "NEW" /\ state[t] = "READY" /\ ~running[t]
  /\ Reached(t, state[t], pc, future)
  /\ future[t] \in {"NORMAL", "EXCEPTIONAL"} => pc[t] = "done"
  /\ pc[t] # "new" => state[t] # "READY"
  /\ t \in created \ {task} => pc[t] = "new" \/ future[t] = "CANCELLED" \/ pc[t] \in Late

(* What is left of a method lies together on the stack, in the order of    *)
(* the method, and below it is the callback that called it.                *)
Before == {<<"letGo", "reset">>, <<"letGo", "start">>, <<"reset", "start">>,
           <<"unbindValues", "start">>, <<"unbindRest", "start">>, <<"schedule", "execute">>}

Ordered(f) == \A i, j \in 1 .. Len(f) :
                i < j /\ f[i].op \in Methods /\ f[j].op \in Methods
                  => <<f[i].op, f[j].op>> \in Before

OnCallback(f) == \A i \in 1 .. Len(f) :
                   f[i].op \in Methods /\ i # Len(f) => f[i + 1].op \in Methods \cup {"callback"}

Method(f) == /\ Ordered(f) /\ OnCallback(f)
             /\ Has(f, "letGo") => Has(f, "reset")
             /\ Has(f, "schedule") => /\ f[1].op = "schedule"
                                      /\ Len(f) >= 2 /\ f[2].op = "execute"

(* What the method under way relies on, while listeners run in between:    *)
(* the task that it lets go of was cancelled; reset() finds it ended or    *)
(* gone; the task that it executes was scheduled.                          *)
Stage(f, tk, st, fu) ==
  /\ Has(f, "letGo") => tk # None /\ fu[tk] # "NEW"
  /\ Has(f, "reset") => \/ Has(f, "letGo")
                        \/ tk = None
                        \/ f[1].op = "reset" /\ st[tk] \notin Active
  /\ Has(f, "unbindValues") \/ Has(f, "unbindRest") => tk = None
  /\ Has(f, "execute") => \/ tk = None
                          \/ st[tk] # "READY"
                          \/ f[1].op = "schedule"
                          \/ f[1] = Op("setState", tk, "SCHEDULED")

(* The properties other than state are those of the task, or are about to  *)
(* be unbound.                                                             *)
RestFollows(f, tk, re) ==
  /\ re \in [value : Tasks \cup {None}, running : Tasks \cup {None}]
  /\ re.value = tk \/ Has(f, "reset") \/ Has(f, "unbindValues")
  /\ re.running = tk \/ Has(f, "reset") \/ Has(f, "unbindValues") \/ Has(f, "unbindRest")

Base == /\ Types
        /\ Sounds(fx, created, pc, future)
        /\ Lambdas(queue, created, pc, future)
        /\ \A t \in Tasks : Works(t)
        /\ Method(fx)
        /\ Stage(fx, task, state, future)
        /\ RestFollows(fx, task, rest)

(* The running flag of the task is that of its state, or the operation     *)
(* that sets it is at the top of the stack: only the listeners of the      *)
(* state can come before it.                                               *)
Flags(f, tk) == \E i \in 1 .. Len(f) : f[i].op = "setRunning" /\ f[i].t = tk

FlagOnTop(f, tk, st) == /\ f # <<>> /\ f[1] = Op("setRunning", tk, st[tk])
                        /\ ~Flags(Tail(f), tk)

RunningFollows(f, tk, st, rn) ==
  tk # None /\ ~Has(f, "letGo") =>
    /\ Flags(f, tk) => \/ FlagOnTop(f, tk, st)
                       \/ f[1] = Callback(tk, "stateListener") /\ FlagOnTop(Tail(f), tk, st)
                       \/ f[1].op = "reset"
    /\ Flags(f, tk) \/ rn[tk] = IsRunning(st[tk])

FlagFollows == RunningFollows(fx, task, state, running)
-----------------------------------------------------------------------------
(* Places in a stack r on top of a stack h.                                *)
LEMMA Stacked ==
  ASSUME NEW r \in Seq(AllOps), NEW h \in Seq(AllOps)
  PROVE  LET g == r \o h
         IN  /\ g \in Seq(AllOps) /\ Len(g) = Len(r) + Len(h)
             /\ Len(r) \in Nat /\ Len(h) \in Nat
             /\ \A i \in 1 .. Len(r) : i \in 1 .. Len(g) /\ g[i] = r[i]
             /\ \A i \in 1 .. Len(h) : i + Len(r) \in 1 .. Len(g) /\ g[i + Len(r)] = h[i]
             /\ \A i \in 1 .. Len(g) : \/ i \in 1 .. Len(r) /\ g[i] = r[i]
                                       \/ /\ i - Len(r) \in 1 .. Len(h)
                                          /\ i > Len(r) /\ g[i] = h[i - Len(r)]
  <1> DEFINE g == r \o h
  <1>1. /\ g \in Seq(AllOps) /\ Len(g) = Len(r) + Len(h)
        /\ \A i \in 1 .. Len(r) + Len(h) : g[i] = IF i <= Len(r) THEN r[i] ELSE h[i - Len(r)]
    BY ConcatProperties
  <1>2. Len(r) \in Nat /\ Len(h) \in Nat
    OBVIOUS
  <1> HIDE DEF g
  <1>3. \A i \in 1 .. Len(r) : i \in 1 .. Len(g) /\ g[i] = r[i]
    BY <1>1, <1>2
  <1>4. ASSUME NEW i \in 1 .. Len(h)
        PROVE  i + Len(r) \in 1 .. Len(g) /\ g[i + Len(r)] = h[i]
    <2> DEFINE k == i + Len(r)
    <2>1. k \in 1 .. Len(r) + Len(h) /\ ~(k <= Len(r)) /\ k - Len(r) = i
      BY <1>2
    <2> HIDE DEF k
    <2>2. g[k] = h[i]
      BY <1>1, <2>1
    <2> QED BY <1>1, <2>1, <2>2 DEF k
  <1>5. ASSUME NEW i \in 1 .. Len(g)
        PROVE  \/ i \in 1 .. Len(r) /\ g[i] = r[i]
               \/ i - Len(r) \in 1 .. Len(h) /\ i > Len(r) /\ g[i] = h[i - Len(r)]
    BY <1>1, <1>2
  <1> QED BY <1>1, <1>2, <1>3, <1>4, <1>5 DEF g

(* What lies on a stack put together of two.                               *)
LEMMA StackedHas ==
  ASSUME NEW r \in Seq(AllOps), NEW h \in Seq(AllOps)
  PROVE  /\ \A op : Has(r \o h, op) <=> Has(r, op) \/ Has(h, op)
         /\ Underway(r \o h) <=> Underway(r) \/ Underway(h)
         /\ \A t : Flags(r \o h, t) <=> Flags(r, t) \/ Flags(h, t)
         /\ \A cr, p, fu : Sounds(r, cr, p, fu) /\ Sounds(h, cr, p, fu) => Sounds(r \o h, cr, p, fu)
  <1> DEFINE g == r \o h
  <1>1. /\ g \in Seq(AllOps)
        /\ \A i \in 1 .. Len(r) : i \in 1 .. Len(g) /\ g[i] = r[i]
        /\ \A i \in 1 .. Len(h) : i + Len(r) \in 1 .. Len(g) /\ g[i + Len(r)] = h[i]
        /\ \A i \in 1 .. Len(g) : \/ i \in 1 .. Len(r) /\ g[i] = r[i]
                                  \/ i - Len(r) \in 1 .. Len(h) /\ g[i] = h[i - Len(r)]
    BY Stacked
  <1> HIDE DEF g
  <1>2. \A op : Has(g, op) <=> Has(r, op) \/ Has(h, op)
    BY ZenonT(60), <1>1 DEF Has
  <1>3. Underway(g) <=> Underway(r) \/ Underway(h)
    BY <1>1 DEF Underway
  <1>4. ASSUME NEW t PROVE Flags(g, t) <=> Flags(r, t) \/ Flags(h, t)
    <2>1. Flags(g, t) => Flags(r, t) \/ Flags(h, t)
      BY ZenonT(60), <1>1 DEF Flags
    <2>2. Flags(r, t) => Flags(g, t)
      BY <1>1 DEF Flags
    <2>3. Flags(h, t) => Flags(g, t)
      BY <1>1 DEF Flags
    <2> QED BY <2>1, <2>2, <2>3
  <1>5. \A cr, p, fu : Sounds(r, cr, p, fu) /\ Sounds(h, cr, p, fu) => Sounds(g, cr, p, fu)
    BY <1>1 DEF Sounds
  <1> QED BY <1>2, <1>3, <1>4, <1>5 DEF g

(* The order of methods, where the parts fit together.                     *)
Fits(r, h) == /\ \A i \in 1 .. Len(r), j \in 1 .. Len(h) :
                   r[i].op \in Methods /\ h[j].op \in Methods => <<r[i].op, h[j].op>> \in Before
              /\ Len(r) >= 1 /\ Len(h) >= 1 /\ r[Len(r)].op \in Methods
                   => h[1].op \in Methods \cup {"callback"}

LEMMA StackedOrder ==
  ASSUME NEW r \in Seq(AllOps), NEW h \in Seq(AllOps),
         Ordered(r), Ordered(h), OnCallback(r), OnCallback(h), Fits(r, h)
  PROVE  Ordered(r \o h) /\ OnCallback(r \o h)
  <1> DEFINE g == r \o h
             n == Len(r)
  <1>1. /\ g \in Seq(AllOps) /\ Len(g) = n + Len(h) /\ n \in Nat /\ Len(h) \in Nat
        /\ \A i \in 1 .. n : i \in 1 .. Len(g) /\ g[i] = r[i]
        /\ \A i \in 1 .. Len(h) : i + n \in 1 .. Len(g) /\ g[i + n] = h[i]
        /\ \A i \in 1 .. Len(g) : \/ i \in 1 .. n /\ g[i] = r[i]
                                  \/ i - n \in 1 .. Len(h) /\ i > n /\ g[i] = h[i - n]
    BY Stacked
  <1> HIDE DEF g
  <1>2. Ordered(g)
    <2> SUFFICES ASSUME NEW i \in 1 .. Len(g), NEW j \in 1 .. Len(g), i < j,
                        g[i].op \in Methods, g[j].op \in Methods
                 PROVE  <<g[i].op, g[j].op>> \in Before
      BY DEF Ordered
    <2>1. CASE i \in 1 .. n /\ j \in 1 .. n
      BY <1>1, <2>1 DEF Ordered
    <2>2. CASE i \in 1 .. n /\ j - n \in 1 .. Len(h) /\ g[j] = h[j - n]
      BY <1>1, <2>2 DEF Fits
    <2>3. CASE i - n \in 1 .. Len(h) /\ g[i] = h[i - n] /\ j - n \in 1 .. Len(h) /\ g[j] = h[j - n]
      <3>1. i - n < j - n
        BY <1>1
      <3> QED BY <2>3, <3>1 DEF Ordered
    <2>4. ~(i > n /\ j \in 1 .. n)
      BY <1>1
    <2> QED BY <1>1, <2>1, <2>2, <2>3, <2>4
  <1>3. OnCallback(g)
    <2> SUFFICES ASSUME NEW i \in 1 .. Len(g), g[i].op \in Methods, i # Len(g)
                 PROVE  g[i + 1].op \in Methods \cup {"callback"}
      BY DEF OnCallback
    <2>1. CASE i \in 1 .. n /\ i # n
      <3>1. i + 1 \in 1 .. n
        BY <1>1, <2>1
      <3> QED BY <1>1, <2>1, <3>1 DEF OnCallback
    <2>2. CASE i \in 1 .. n /\ i = n
      <3>1. 1 \in 1 .. Len(h) /\ 1 + n = i + 1 /\ n >= 1
        BY <1>1, <2>2
      <3>2. g[1 + n] = h[1]
        BY <1>1, <3>1
      <3> QED BY <1>1, <2>2, <3>1, <3>2 DEF Fits
    <2>3. CASE i - n \in 1 .. Len(h) /\ i > n /\ g[i] = h[i - n]
      <3>1. i - n + 1 \in 1 .. Len(h) /\ i - n # Len(h) /\ i - n + 1 + n = i + 1
        BY <1>1, <2>3
      <3>2. h[i - n + 1].op \in Methods \cup {"callback"}
        BY <2>3, <3>1 DEF OnCallback
      <3>3. g[i - n + 1 + n] = h[i - n + 1]
        BY <1>1, <3>1
      <3> QED BY <3>1, <3>2, <3>3
    <2> QED BY <1>1, <2>1, <2>2, <2>3
  <1> QED BY <1>2, <1>3 DEF g

(* The stack without its top.                                              *)
LEMMA Below ==
  ASSUME NEW f \in Seq(AllOps), f # <<>>
  PROVE  /\ Tail(f) \in Seq(AllOps) /\ Head(f) = f[1] /\ Head(f) \in AllOps
         /\ Len(f) \in Nat /\ Len(f) >= 1 /\ Len(Tail(f)) = Len(f) - 1
         /\ Tail(f) # <<>> <=> Len(f) >= 2
         /\ Len(f) >= 2 => Tail(f)[1] = f[2]
         /\ \A op : Has(f, op) <=> f[1].op = op \/ Has(Tail(f), op)
         /\ Underway(f) <=> f[1].op \in Methods \/ Underway(Tail(f))
         /\ \A t : Flags(f, t) <=> (f[1].op = "setRunning" /\ f[1].t = t) \/ Flags(Tail(f), t)
         /\ \A cr, p, fu : Sounds(f, cr, p, fu) <=> Sound(f[1], cr, p, fu) /\ Sounds(Tail(f), cr, p, fu)
  <1> DEFINE h == Tail(f)
  <1>1. h \in Seq(AllOps) /\ Head(f) = f[1] /\ Head(f) \in AllOps
    OBVIOUS
  <1>2. Len(f) \in Nat /\ Len(f) >= 1 /\ Len(h) = Len(f) - 1
    BY EmptySeq
  <1>3. \A i \in 1 .. Len(h) : h[i] = f[i + 1]
    BY <1>2
  <1> HIDE DEF h
  <1>4. /\ \A i \in 1 .. Len(h) : i + 1 \in 1 .. Len(f) /\ h[i] = f[i + 1]
        /\ \A i \in 1 .. Len(f) : i = 1 \/ (i - 1 \in 1 .. Len(h) /\ f[i] = h[i - 1])
        /\ 1 \in 1 .. Len(f)
    BY <1>2, <1>3
  <1>5. h # <<>> <=> Len(f) >= 2
    BY <1>1, <1>2, EmptySeq
  <1>6. Len(f) >= 2 => h[1] = f[2]
    <2>1. Len(f) >= 2 => 1 \in 1 .. Len(h) /\ 1 + 1 = 2
      BY <1>2
    <2> QED BY <1>4, <2>1
  <1>7. \A op : Has(f, op) <=> f[1].op = op \/ Has(h, op)
    BY <1>4 DEF Has
  <1>8. Underway(f) <=> f[1].op \in Methods \/ Underway(h)
    BY <1>4 DEF Underway
  <1>9. \A t : Flags(f, t) <=> (f[1].op = "setRunning" /\ f[1].t = t) \/ Flags(h, t)
    BY ZenonT(60), <1>4 DEF Flags
  <1>10. \A cr, p, fu : Sounds(f, cr, p, fu) <=> Sound(f[1], cr, p, fu) /\ Sounds(h, cr, p, fu)
    BY <1>1, <1>4 DEF Sounds
  <1> QED BY <1>1, <1>2, <1>5, <1>6, <1>7, <1>8, <1>9, <1>10 DEF h
-----------------------------------------------------------------------------
(* The parts of a method that lie below its next operation.                *)
LEMMA MethodBelow ==
  ASSUME NEW f \in Seq(AllOps), f # <<>>, Method(f)
  PROVE  /\ Ordered(Tail(f)) /\ OnCallback(Tail(f)) /\ ~Has(Tail(f), "schedule")
         /\ f[1].op \in Methods =>
              /\ \A j \in 1 .. Len(Tail(f)) :
                   Tail(f)[j].op \in Methods => <<f[1].op, Tail(f)[j].op>> \in Before
              /\ Len(Tail(f)) >= 1 => Tail(f)[1].op \in Methods \cup {"callback"}
  <1> DEFINE h == Tail(f)
  <1>1. h \in Seq(AllOps) /\ Len(f) \in Nat /\ Len(f) >= 1 /\ Len(h) = Len(f) - 1
    BY Below
  <1>2. \A i \in 1 .. Len(h) : h[i] = f[i + 1]
    BY <1>1
  <1> HIDE DEF h
  <1>3. /\ \A i \in 1 .. Len(h) : /\ i + 1 \in 1 .. Len(f) /\ 1 < i + 1 /\ h[i] = f[i + 1]
                                  /\ i # Len(h) => i + 1 # Len(f) /\ i + 1 \in 1 .. Len(h)
        /\ 1 \in 1 .. Len(f)
    BY <1>1, <1>2
  <1>4. Ordered(h)
    <2> SUFFICES ASSUME NEW i \in 1 .. Len(h), NEW j \in 1 .. Len(h), i < j,
                        h[i].op \in Methods, h[j].op \in Methods
                 PROVE  <<h[i].op, h[j].op>> \in Before
      BY DEF Ordered
    <2>1. i + 1 < j + 1
      BY <1>1
    <2> QED BY <1>3, <2>1 DEF Method, Ordered
  <1>5. OnCallback(h)
    <2> SUFFICES ASSUME NEW i \in 1 .. Len(h), h[i].op \in Methods, i # Len(h)
                 PROVE  h[i + 1].op \in Methods \cup {"callback"}
      BY DEF OnCallback
    <2>1. i + 1 \in 1 .. Len(f) /\ i + 1 # Len(f) /\ f[i + 1].op \in Methods
      BY <1>3
    <2>2. f[i + 1 + 1].op \in Methods \cup {"callback"}
      BY <2>1 DEF Method, OnCallback
    <2> QED BY <1>3, <2>2
  <1>6. ASSUME NEW i \in 1 .. Len(h), h[i].op = "schedule" PROVE FALSE
    <2>1. f[i + 1].op = "schedule" /\ i + 1 \in 1 .. Len(f) /\ 1 < i + 1
      BY <1>3, <1>6
    <2>2. f[1].op = "schedule"
      BY <2>1 DEF Method, Has
    <2>3. <<f[1].op, f[i + 1].op>> \in Before
      BY <1>3, <2>1, <2>2 DEF Method, Ordered, Methods
    <2> QED BY <2>1, <2>2, <2>3 DEF Before
  <1>7. ASSUME f[1].op \in Methods, NEW j \in 1 .. Len(h), h[j].op \in Methods
        PROVE  <<f[1].op, h[j].op>> \in Before
    BY <1>3, <1>7 DEF Method, Ordered
  <1>8. ASSUME f[1].op \in Methods, Len(h) >= 1 PROVE h[1].op \in Methods \cup {"callback"}
    <2>1. 1 # Len(f) /\ 1 \in 1 .. Len(h)
      BY <1>1, <1>8
    <2>2. f[1 + 1].op \in Methods \cup {"callback"}
      BY <1>3, <1>8, <2>1 DEF Method, OnCallback
    <2> QED BY <1>3, <2>1, <2>2
  <1> QED BY <1>4, <1>5, <1>6, <1>7, <1>8 DEF h, Has

(* Operations that belong to no method.                                    *)
Plain(r) == r \in Seq(AllOps) /\ ~Underway(r)

LEMMA PlainOps ==
  ASSUME NEW r, Plain(r)
  PROVE  Ordered(r) /\ OnCallback(r) /\ \A op \in Methods : ~Has(r, op)
  BY DEF Plain, Underway, Ordered, OnCallback, Has

(* A step of a task, or of a callback, leaves the methods as they are.     *)
LEMMA MethodKept ==
  ASSUME NEW f \in Seq(AllOps), f # <<>>, Method(f), f[1].op \in TaskOps, NEW r, Plain(r)
  PROVE  /\ Method(r \o Tail(f))
         /\ \A op \in Methods : Has(r \o Tail(f), op) <=> Has(f, op)
         /\ ~Has(f, "schedule")
         /\ Underway(r \o Tail(f)) <=> Underway(f)
  <1> DEFINE h == Tail(f)
  <1>1. h \in Seq(AllOps) /\ r \in Seq(AllOps) /\ ~Underway(r)
    BY Below DEF Plain
  <1>2. Ordered(r) /\ OnCallback(r) /\ \A op \in Methods : ~Has(r, op)
    BY PlainOps
  <1>3. Ordered(h) /\ OnCallback(h) /\ ~Has(h, "schedule")
    BY MethodBelow
  <1>4. f[1].op \notin Methods
    BY DEF TaskOps, Methods
  <1>5. \A op \in Methods : Has(f, op) <=> Has(h, op)
    BY <1>4, Below
  <1>6. Underway(f) <=> Underway(h)
    BY <1>4, Below
  <1> HIDE DEF h
  <1>7. \A op \in Methods : Has(r \o h, op) <=> Has(f, op)
    BY <1>1, <1>2, <1>5, StackedHas
  <1>8. Fits(r, h)
    BY <1>1, Stacked DEF Fits, Underway
  <1>9. Ordered(r \o h) /\ OnCallback(r \o h)
    BY <1>1, <1>2, <1>3, <1>8, StackedOrder
  <1>10. Method(r \o h)
    BY <1>3, <1>5, <1>7, <1>9 DEF Method, Methods
  <1>11. Underway(r \o h) <=> Underway(f)
    BY <1>1, <1>6, StackedHas
  <1> QED BY <1>3, <1>5, <1>7, <1>10, <1>11 DEF h, Methods

(* Application code runs at the bottom of the stack or in a callback, and  *)
(* the parts of methods that lie there already are not schedule.           *)
Called(f) == f = <<>> \/ f[1].op = "callback"

LEMMA MethodPushed ==
  ASSUME NEW f \in Seq(AllOps), Called(f), Method(f), NEW r, Plain(r)
  PROVE  /\ Method(r \o f)
         /\ \A op \in Methods : Has(r \o f, op) <=> Has(f, op)
         /\ ~Has(f, "schedule")
  <1>1. r \in Seq(AllOps) /\ ~Underway(r)
    BY DEF Plain
  <1>2. Ordered(r) /\ OnCallback(r) /\ \A op \in Methods : ~Has(r, op)
    BY PlainOps
  <1>3. ~Has(f, "schedule")
    <2>1. CASE f = <<>>
      BY <2>1 DEF Has
    <2>2. CASE f # <<>>
      BY <2>2 DEF Called, Method
    <2> QED BY <2>1, <2>2
  <1>4. \A op \in Methods : Has(r \o f, op) <=> Has(f, op)
    BY <1>1, <1>2, StackedHas
  <1>5. Fits(r, f)
    BY <1>1, Stacked DEF Fits, Underway
  <1>6. Ordered(r \o f) /\ OnCallback(r \o f)
    BY <1>1, <1>2, <1>5, StackedOrder DEF Method
  <1> QED BY <1>3, <1>4, <1>6 DEF Method, Methods

(* A method that is called when none is under way.                         *)
LEMMA MethodCalled ==
  ASSUME NEW f \in Seq(AllOps), Called(f), ~Underway(f),
         NEW r \in Seq(AllOps), Method(r), ~Has(r, "schedule"), Len(r) >= 1
  PROVE  /\ Method(r \o f)
         /\ \A op \in Methods : Has(r \o f, op) <=> Has(r, op)
  <1>1. Ordered(f) /\ OnCallback(f) /\ \A op \in Methods : ~Has(f, op)
    BY PlainOps DEF Plain
  <1>2. \A op \in Methods : Has(r \o f, op) <=> Has(r, op)
    BY <1>1, StackedHas
  <1>3. Fits(r, f)
    <2>1. Len(f) >= 1 => f # <<>> /\ f[1].op = "callback"
      BY EmptySeq DEF Called
    <2>2. \A j \in 1 .. Len(f) : f[j].op \notin Methods
      BY DEF Underway
    <2> QED BY <2>1, <2>2 DEF Fits
  <1>4. Ordered(r \o f) /\ OnCallback(r \o f)
    BY <1>1, <1>3, StackedOrder DEF Method
  <1> QED BY <1>2, <1>4 DEF Method, Methods

(* The operations of the methods that a method has still to do.            *)
LEMMA MethodRest ==
  ASSUME NEW f \in Seq(AllOps), f # <<>>, Method(f), f[1].op \in Methods
  PROVE  /\ \A op \in Methods : Has(Tail(f), op) => <<f[1].op, op>> \in Before
         /\ f[1].op \in {"start", "execute"} => ~Underway(Tail(f)) /\ Called(Tail(f))
         /\ \A r \in Seq(AllOps) :
              /\ ~Underway(r)
              /\ f[1].op = "letGo" => Has(Tail(f), "reset")
              => Method(r \o Tail(f))
  <1> DEFINE h == Tail(f)
  <1>1. /\ h \in Seq(AllOps)
        /\ \A op : Has(f, op) <=> f[1].op = op \/ Has(h, op)
        /\ Len(h) \in Nat
    BY Below
  <1>2. /\ Ordered(h) /\ OnCallback(h) /\ ~Has(h, "schedule")
        /\ \A j \in 1 .. Len(h) : h[j].op \in Methods => <<f[1].op, h[j].op>> \in Before
        /\ Len(h) >= 1 => h[1].op \in Methods \cup {"callback"}
    BY MethodBelow
  <1>9. h # <<>> => Len(h) >= 1
    BY <1>1, EmptySeq
  <1> HIDE DEF h
  <1>3. \A op \in Methods : Has(h, op) => <<f[1].op, op>> \in Before
    BY <1>2 DEF Has
  <1>4. ASSUME f[1].op \in {"start", "execute"} PROVE ~Underway(h) /\ Called(h)
    <2>1. ASSUME NEW j \in 1 .. Len(h), h[j].op \in Methods PROVE FALSE
      BY <1>2, <1>4, <2>1 DEF Before
    <2>2. ASSUME h # <<>> PROVE h[1].op = "callback"
      <3>1. 1 \in 1 .. Len(h)
        BY <1>1, <1>9, <2>2
      <3> QED BY <1>2, <1>9, <2>1, <2>2, <3>1
    <2> QED BY <2>1, <2>2 DEF Underway, Called
  <1>5. ASSUME NEW r \in Seq(AllOps), ~Underway(r), f[1].op = "letGo" => Has(h, "reset")
        PROVE  Method(r \o h)
    <2>1. Ordered(r) /\ OnCallback(r) /\ \A op \in Methods : ~Has(r, op)
      BY <1>5, PlainOps DEF Plain
    <2>2. Fits(r, h)
      BY <1>1, <1>5, Stacked DEF Fits, Underway
    <2>3. Ordered(r \o h) /\ OnCallback(r \o h)
      BY <1>1, <1>2, <2>1, <2>2, StackedOrder
    <2>4. \A op \in Methods : Has(r \o h, op) <=> Has(h, op)
      BY <1>1, <2>1, StackedHas
    <2>5. Has(h, "letGo") => Has(h, "reset")
      BY <1>3 DEF Methods, Before
    <2> QED BY <1>2, <2>3, <2>4, <2>5 DEF Method, Methods
  <1> QED BY <1>3, <1>4, <1>5 DEF h

(* Each operation of a method and what it leaves of it.                    *)
LEMMA LetGoLeaves ==
  ASSUME NEW f \in Seq(AllOps), f # <<>>, Method(f), f[1].op = "letGo", NEW r, Plain(r)
  PROVE  LET g == r \o Tail(f)
         IN  Method(g) /\ ~Has(g, "letGo") /\ Has(g, "reset") /\ ~Has(g, "unbindRest") /\ ~Has(g, "unbindValues") /\ ~Has(g, "execute")
  <1> DEFINE h == Tail(f)
  <1>1. /\ h \in Seq(AllOps) /\ Len(f) >= 1 /\ Len(f) \in Nat
        /\ \A op : Has(f, op) <=> f[1].op = op \/ Has(h, op)
    BY Below
  <1>2. Has(f, "letGo")
    BY <1>1
  <1>3. Has(h, "reset")
    BY <1>1, <1>2 DEF Method
  <1>4. ~Has(h, "letGo") /\ ~Has(h, "unbindRest") /\ ~Has(h, "unbindValues") /\ ~Has(h, "execute") /\ Method(r \o h)
    BY <1>3, MethodRest DEF Methods, Before, Plain
  <1>5. \A op \in Methods : ~Has(r, op)
    BY PlainOps
  <1> HIDE DEF h
  <1> QED BY <1>1, <1>3, <1>4, <1>5, StackedHas DEF Methods, Plain, h

LEMMA ResetLeaves ==
  ASSUME NEW f \in Seq(AllOps), f # <<>>, Method(f), f[1].op \in {"reset", "unbindValues"}, NEW r, Plain(r),
         NEW m \in {"unbindValues", "unbindRest"}
  PROVE  LET g == (r \o <<SvcOp(m)>>) \o Tail(f)
         IN  /\ Method(g) /\ ~Has(g, "letGo") /\ ~Has(g, "reset") /\ ~Has(g, "execute")
             /\ \A op \in {"unbindValues", "unbindRest"} : Has(g, op) <=> op = m
  <1> DEFINE h == Tail(f)
             u == <<SvcOp(m)>>
             c == r \o u
  <1>1. /\ h \in Seq(AllOps) /\ Len(h) \in Nat
        /\ ~Has(h, "letGo") /\ ~Has(h, "reset") /\ ~Has(h, "unbindRest") /\ ~Has(h, "unbindValues") /\ ~Has(h, "execute")
    BY Below, MethodRest DEF Methods, Before
  <1>2. /\ Ordered(h) /\ OnCallback(h) /\ ~Has(h, "schedule")
        /\ \A j \in 1 .. Len(h) : h[j].op \in Methods => <<f[1].op, h[j].op>> \in Before
        /\ Len(h) >= 1 => h[1].op \in Methods \cup {"callback"}
    BY MethodBelow DEF Methods
  <1>3. \A j \in 1 .. Len(h) : h[j].op \in Methods => <<m, h[j].op>> \in Before
    BY <1>2 DEF Before
  <1>4. /\ u \in Seq(AllOps) /\ Len(u) = 1 /\ u[1].op = m
    BY DEF SvcOp, Op, AllOps, Methods, Values
  <1>5. r \in Seq(AllOps) /\ Ordered(r) /\ OnCallback(r) /\ (\A op \in Methods : ~Has(r, op)) /\ ~Underway(r)
    BY PlainOps DEF Plain
  <1> HIDE DEF u, h
  <1>6. /\ c \in Seq(AllOps) /\ Len(c) = Len(r) + 1 /\ Len(r) \in Nat
        /\ c[Len(r) + 1] = u[1]
        /\ \A i \in 1 .. Len(c) : c[i].op \in Methods => i = Len(r) + 1
    <2>0. c \in Seq(AllOps) /\ Len(c) = Len(r) + Len(u) /\ Len(r) \in Nat
      BY <1>4, <1>5, Stacked
    <2>1. c \in Seq(AllOps) /\ Len(c) = Len(r) + 1 /\ Len(r) \in Nat
      BY <1>4, <2>0
    <2>2. \A i \in 1 .. Len(c) : \/ i \in 1 .. Len(r) /\ c[i] = r[i]
                                 \/ i - Len(r) \in 1 .. Len(u) /\ c[i] = u[i - Len(r)]
      BY <1>4, <1>5, Stacked
    <2>3. 1 + Len(r) \in 1 .. Len(c) /\ c[1 + Len(r)] = u[1]
      <3>1. 1 \in 1 .. Len(u)
        BY <1>4
      <3> QED BY <1>4, <1>5, <3>1, Stacked
    <2>4. ASSUME NEW i \in 1 .. Len(c), c[i].op \in Methods PROVE i = Len(r) + 1
      BY <1>4, <1>5, <2>1, <2>2, <2>4 DEF Underway
    <2> QED BY <2>1, <2>3, <2>4
  <1> HIDE DEF c
  <1>7. Ordered(c) /\ OnCallback(c)
    BY <1>6 DEF Ordered, OnCallback
  <1>8. Fits(c, h)
    <2>1. ASSUME NEW i \in 1 .. Len(c), NEW j \in 1 .. Len(h), c[i].op \in Methods, h[j].op \in Methods
          PROVE  <<c[i].op, h[j].op>> \in Before
      BY <1>3, <1>4, <1>6, <2>1
    <2> QED BY <1>2, <2>1 DEF Fits
  <1>9. Ordered(c \o h) /\ OnCallback(c \o h)
    BY <1>1, <1>2, <1>6, <1>7, <1>8, StackedOrder
  <1>10. \A op \in Methods : Has(c, op) <=> op = m
    <2>1. Len(r) + 1 \in 1 .. Len(c)
      BY <1>6
    <2> QED BY <1>4, <1>6, <2>1 DEF Has
  <1>11. \A op \in Methods : Has(c \o h, op) <=> op = m \/ Has(h, op)
    BY <1>1, <1>6, <1>10, StackedHas
  <1>12. Method(c \o h)
    BY <1>1, <1>2, <1>9, <1>11 DEF Method, Methods
  <1> QED BY <1>1, <1>11, <1>12 DEF Methods, c, u, h

LEMMA UnbindLeaves ==
  ASSUME NEW f \in Seq(AllOps), f # <<>>, Method(f), f[1].op = "unbindRest", NEW r, Plain(r)
  PROVE  LET g == r \o Tail(f)
         IN  /\ Method(g) /\ ~Has(g, "letGo") /\ ~Has(g, "reset") /\ ~Has(g, "unbindRest")
             /\ ~Has(g, "unbindValues") /\ ~Has(g, "execute")
  <1> DEFINE h == Tail(f)
  <1>1. h \in Seq(AllOps) /\ \A op \in Methods : ~Has(r, op)
    BY Below, PlainOps
  <1>2. /\ ~Has(h, "letGo") /\ ~Has(h, "reset") /\ ~Has(h, "unbindRest")
        /\ ~Has(h, "unbindValues") /\ ~Has(h, "execute")
    BY MethodRest DEF Methods, Before
  <1>3. Method(r \o h)
    BY MethodRest DEF Methods, Plain
  <1> HIDE DEF h
  <1> QED BY <1>1, <1>2, <1>3, StackedHas DEF Methods, Plain, h

LEMMA ExecuteLeaves ==
  ASSUME NEW f \in Seq(AllOps), f # <<>>, Method(f), f[1].op = "execute"
  PROVE  Method(<<>> \o Tail(f)) /\ ~Underway(<<>> \o Tail(f))
  <1> DEFINE h == Tail(f)
  <1>1. h \in Seq(AllOps) /\ <<>> \in Seq(AllOps) /\ <<>> \o h = h /\ ~Underway(<<>>)
    BY Below, ConcatEmptySeq DEF Underway
  <1> QED BY <1>1, MethodRest DEF Methods

LEMMA ScheduleLambdaIs ==
  /\ ScheduleLambda \in Seq(AllOps) /\ Len(ScheduleLambda) = 2
  /\ ScheduleLambda[1].op = "schedule" /\ ScheduleLambda[2].op = "execute"
  /\ Method(ScheduleLambda)
  /\ \A op : Has(ScheduleLambda, op) <=> op \in {"schedule", "execute"}
  /\ \A t : ~Flags(ScheduleLambda, t)
  /\ \A cr, p, fu : Sounds(ScheduleLambda, cr, p, fu)
  <1> DEFINE l == ScheduleLambda
  <1>1. /\ l \in Seq(AllOps) /\ Len(l) = 2 /\ l[1].op = "schedule" /\ l[2].op = "execute"
        /\ l[1].t = None /\ l[2].t = None
    BY DEF ScheduleLambda, SvcOp, Op, AllOps, Methods, Values
  <1> HIDE DEF l
  <1>2. \A i \in 1 .. Len(l) : i = 1 \/ i = 2
    BY <1>1
  <1>3. 1 \in 1 .. Len(l) /\ 2 \in 1 .. Len(l)
    BY <1>1
  <1>4. \A op : Has(l, op) <=> op \in {"schedule", "execute"}
    BY <1>1, <1>2, <1>3 DEF Has
  <1>5. \A t : ~Flags(l, t)
    BY <1>1, <1>2 DEF Flags
  <1>6. \A cr, p, fu : Sounds(l, cr, p, fu)
    BY <1>1, <1>2 DEF Sounds, Sound, TaskOps
  <1>7. Ordered(l) /\ OnCallback(l)
    BY <1>1, <1>2 DEF Ordered, OnCallback, Before, Methods
  <1> QED BY <1>1, <1>4, <1>5, <1>6, <1>7 DEF Method, l

LEMMA StartLeaves ==
  ASSUME NEW f \in Seq(AllOps), f # <<>>, Method(f), f[1].op = "start"
  PROVE  LET g == ScheduleLambda \o Tail(f)
         IN  /\ Method(g) /\ g[1].op = "schedule" /\ ~Has(g, "letGo") /\ ~Has(g, "reset")
             /\ ~Has(g, "unbindRest") /\ ~Has(g, "unbindValues")
  <1> DEFINE h == Tail(f)
             l == ScheduleLambda
  <1>1. h \in Seq(AllOps) /\ ~Underway(h) /\ Called(h)
    BY Below, MethodRest DEF Methods
  <1>2. /\ l \in Seq(AllOps) /\ Len(l) = 2 /\ l[1].op = "schedule" /\ l[2].op = "execute" /\ Method(l)
        /\ \A op : Has(l, op) <=> op \in {"schedule", "execute"}
    BY ScheduleLambdaIs
  <1>3. Ordered(h) /\ OnCallback(h) /\ \A op \in Methods : ~Has(h, op)
    BY <1>1, PlainOps DEF Plain
  <1> HIDE DEF h, l
  <1>4. \A op \in Methods : Has(l \o h, op) <=> op \in {"schedule", "execute"}
    BY <1>1, <1>2, <1>3, StackedHas
  <1>5. Fits(l, h)
    <2>1. Len(h) >= 1 => h # <<>> /\ h[1].op = "callback"
      BY <1>1, EmptySeq DEF Called
    <2>2. \A j \in 1 .. Len(h) : h[j].op \notin Methods
      BY <1>1 DEF Underway
    <2> QED BY <2>1, <2>2 DEF Fits
  <1>6. Ordered(l \o h) /\ OnCallback(l \o h)
    BY <1>1, <1>2, <1>3, <1>5, StackedOrder DEF Method
  <1>7. Len(l \o h) >= 2 /\ (l \o h)[1] = l[1] /\ (l \o h)[2] = l[2]
    <2>0. Len(l \o h) = Len(l) + Len(h) /\ Len(h) \in Nat
      BY ZenonT(60), <1>1, <1>2, Stacked
    <2>1. Len(l \o h) = 2 + Len(h) /\ Len(h) \in Nat
      BY <1>2, <2>0
    <2>2. 1 \in 1 .. Len(l) /\ 2 \in 1 .. Len(l)
      BY <1>2
    <2> QED BY <1>1, <1>2, <2>1, <2>2, Stacked
  <1>8. Method(l \o h)
    BY <1>2, <1>4, <1>6, <1>7 DEF Method, Methods
  <1> QED BY <1>2, <1>4, <1>7, <1>8 DEF Methods, l, h

LEMMA ScheduleLeaves ==
  ASSUME NEW f \in Seq(AllOps), f # <<>>, Method(f), f[1].op = "schedule", NEW r, Plain(r)
  PROVE  LET g == r \o Tail(f)
         IN  Method(g) /\ ~Has(g, "letGo") /\ ~Has(g, "reset") /\ ~Has(g, "unbindRest") /\ ~Has(g, "unbindValues")
  <1> DEFINE h == Tail(f)
  <1>1. h \in Seq(AllOps)
    BY Below
  <1>2. ~Has(h, "letGo") /\ ~Has(h, "reset") /\ ~Has(h, "unbindRest") /\ ~Has(h, "unbindValues") /\ Method(r \o h)
    BY MethodRest DEF Methods, Before, Plain
  <1>3. \A op \in Methods : ~Has(r, op)
    BY PlainOps
  <1> HIDE DEF h
  <1> QED BY <1>1, <1>2, <1>3, StackedHas DEF Methods, Plain, h

(* An exception drops what is left of the method, down to the callback     *)
(* that called it.                                                         *)
LEMMA UnwoundIs ==
  ASSUME NEW n \in Nat, fx \in Seq(AllOps), n < Len(fx) => fx[n + 1].op = "callback",
         n <= Len(fx), \A i \in 1 .. n : fx[i].op # "callback"
  PROVE  /\ n = Len(fx) => Unwound = <<>>
         /\ n < Len(fx) => Unwound = SubSeq(fx, n + 1, Len(fx))
  <1>1. ASSUME n = Len(fx) PROVE Callbacks(fx) = {}
    BY <1>1 DEF Callbacks
  <1>2. ASSUME n < Len(fx) PROVE (CHOOSE i \in Callbacks(fx) : \A j \in Callbacks(fx) : i <= j) = n + 1
    <2>1. n + 1 \in Callbacks(fx)
      BY <1>2 DEF Callbacks
    <2>2. \A j \in Callbacks(fx) : n + 1 <= j /\ j \in Nat
      BY DEF Callbacks
    <2>3. \A i \in Callbacks(fx) : (\A j \in Callbacks(fx) : i <= j) => i = n + 1
      BY <2>1, <2>2
    <2> QED BY <2>1, <2>2, <2>3
  <1>3. ASSUME n < Len(fx) PROVE Callbacks(fx) # {}
    BY <1>3 DEF Callbacks
  <1> QED BY <1>1, <1>2, <1>3 DEF Unwound

LEMMA ThrowLeaves ==
  ASSUME fx \in Seq(AllOps), fx # <<>>, Method(fx), fx[1].op \in {"start", "schedule"}, Throw
  PROVE  /\ fx' \in Seq(AllOps) /\ ~Underway(fx') /\ Method(fx')
         /\ \A t : Flags(fx', t) => Flags(fx, t)
         /\ \A cr, p, fu : Sounds(fx, cr, p, fu) => Sounds(fx', cr, p, fu)
  <1> DEFINE n == IF fx[1].op = "start" THEN 1 ELSE 2
             f == fx'
  <1>1. n \in Nat /\ (n = 1 \/ n = 2) /\ Len(fx) \in Nat /\ Len(fx) >= 1 /\ 1 \in 1 .. Len(fx)
    BY EmptySeq
  <1>2. /\ n <= Len(fx) /\ \A i \in 1 .. n : fx[i].op \in {"start", "schedule", "execute"}
        /\ \A i \in 1 .. Len(fx) : i > n => fx[i].op \notin Methods
    <2>1. CASE fx[1].op = "start"
      BY <1>1, <2>1 DEF Method, Ordered, Methods, Before
    <2>2. CASE fx[1].op = "schedule"
      <3>1. Len(fx) >= 2 /\ fx[2].op = "execute"
        BY <1>1, <2>2 DEF Method, Has
      <3>2. ASSUME NEW i \in 1 .. Len(fx), i > 2 PROVE fx[i].op \notin Methods
        <4>1. fx[i].op \in Methods => <<fx[2].op, fx[i].op>> \in Before
          BY <1>1, <3>1, <3>2 DEF Method, Ordered, Methods
        <4> QED BY <3>1, <4>1 DEF Before
      <3> QED BY <1>1, <2>2, <3>1, <3>2
    <2> QED BY <2>1, <2>2
  <1> HIDE DEF n
  <1>3. n < Len(fx) => fx[n + 1].op = "callback"
    <2>1. ASSUME n < Len(fx)
          PROVE  n \in 1 .. Len(fx) /\ n # Len(fx) /\ n + 1 \in 1 .. Len(fx) /\ n + 1 > n /\ n \in 1 .. n
      BY <1>1, <2>1
    <2>2. ASSUME n < Len(fx) PROVE fx[n].op \in Methods
      BY <1>2, <2>1, <2>2 DEF Methods
    <2>3. ASSUME n < Len(fx) PROVE fx[n + 1].op \in Methods \cup {"callback"}
      BY <2>1, <2>2, <2>3 DEF Method, OnCallback
    <2> QED BY <1>2, <2>1, <2>3
  <1>4. \A i \in 1 .. n : fx[i].op # "callback"
    BY <1>2
  <1>5. /\ n = Len(fx) => Unwound = <<>>
        /\ n < Len(fx) => Unwound = SubSeq(fx, n + 1, Len(fx))
    BY <1>1, <1>2, <1>3, <1>4, UnwoundIs
  <1>6. f \in Seq(AllOps) /\ \A i \in 1 .. Len(f) : \E j \in 1 .. Len(fx) : j > n /\ f[i] = fx[j]
    <2>1. CASE n = Len(fx)
      BY <1>5, <2>1 DEF Throw
    <2>2. CASE n < Len(fx)
      <3>1. f = SubSeq(fx, n + 1, Len(fx))
        BY <1>5, <2>2 DEF Throw
      <3>2. f \in Seq(AllOps) /\ Len(f) = Len(fx) - n /\ \A i \in 1 .. Len(fx) - n : f[i] = fx[n + i]
        <4>1. n + 1 \in 1 .. Len(fx) + 1 /\ Len(fx) \in 0 .. Len(fx)
          BY <1>1, <2>2
        <4> QED BY <1>1, <2>2, <3>1, <4>1, SubSeqProperties
      <3>3. ASSUME NEW i \in 1 .. Len(f) PROVE \E j \in 1 .. Len(fx) : j > n /\ f[i] = fx[j]
        <4>1. n + i \in 1 .. Len(fx) /\ n + i > n /\ f[i] = fx[n + i]
          BY <1>1, <3>2
        <4> QED BY <4>1
      <3> QED BY <3>2, <3>3
    <2> QED BY <1>1, <1>2, <2>1, <2>2
  <1> HIDE DEF f
  <1>7. ~Underway(f)
    BY <1>2, <1>6 DEF Underway
  <1>8. Method(f)
    <2>1. Ordered(f) /\ OnCallback(f) /\ \A op \in Methods : ~Has(f, op)
      BY <1>6, <1>7, PlainOps DEF Plain
    <2> QED BY <2>1 DEF Method, Methods
  <1>9. \A t : Flags(f, t) => Flags(fx, t)
    BY <1>6 DEF Flags
  <1>10. \A cr, p, fu : Sounds(fx, cr, p, fu) => Sounds(f, cr, p, fu)
    BY <1>6 DEF Sounds
  <1> QED BY <1>6, <1>7, <1>8, <1>9, <1>10 DEF f
-----------------------------------------------------------------------------
(* What a step may do to the tasks while the stack is in use: futures are  *)
(* settled once, background threads go forward, tasks are created.         *)
Grows == /\ created \subseteq created' /\ created' \subseteq Tasks
         /\ \A t \in Tasks :
              /\ future[t] # "NEW" => future'[t] = future[t]
              /\ pc[t] \in {"set", "done"} => pc'[t] \in {"set", "done"}
              /\ pc[t] \in {"setException", "done"} => pc'[t] \in {"setException", "done"}

LEMMA SoundGrows ==
  ASSUME Grows
  PROVE  /\ \A t \in Tasks, s \in States : Reached(t, s, pc, future) => Reached(t, s, pc', future')
         /\ \A f : Sounds(f, created, pc, future) => Sounds(f, created', pc', future')
         /\ \A l : Lambda(l, created, pc, future) => Lambda(l, created', pc', future')
         /\ Lambdas(queue, created, pc, future) => Lambdas(queue, created', pc', future')
  <1>1. \A t \in Tasks : \A s : Reached(t, s, pc, future) => Reached(t, s, pc', future')
    BY DEF Grows, Reached
  <1>2. \A o : o \in AllOps /\ Sound(o, created, pc, future) => Sound(o, created', pc', future')
    <2> SUFFICES ASSUME NEW o \in AllOps, Sound(o, created, pc, future)
                 PROVE  Sound(o, created', pc', future')
      OBVIOUS
    <2>1. o.op \in TaskOps \ {"callback"} => o.t \in created'
      BY DEF Sound, Grows
    <2>2. o.t \in created' \cup {None}
      BY DEF Sound, Grows
    <2>3. ASSUME o.op = "setState" PROVE Reached(o.t, o.v, pc', future')
      <3>1. o.t \in Tasks /\ Reached(o.t, o.v, pc, future)
        BY <2>3 DEF Sound, TaskOps, Grows
      <3> QED BY <1>1, <3>1
    <2>4. o.op \in {"setState", "setRunning"} => o.v \in States \ {"READY"}
      BY DEF Sound
    <2> QED BY <2>1, <2>2, <2>3, <2>4 DEF Sound
  <1>3. ASSUME NEW f, Sounds(f, created, pc, future) PROVE Sounds(f, created', pc', future')
    <2>1. f \in Seq(AllOps) /\ \A i \in 1 .. Len(f) : f[i] \in AllOps
      BY <1>3 DEF Sounds
    <2> QED BY <1>2, <1>3, <2>1 DEF Sounds
  <1>4. \A l : Lambda(l, created, pc, future) => Lambda(l, created', pc', future')
    BY <1>3 DEF Lambda
  <1>5. Lambdas(queue, created, pc, future) => Lambdas(queue, created', pc', future')
    BY <1>4 DEF Lambdas
  <1> QED BY <1>1, <1>3, <1>4, <1>5

(* Single operations.                                                      *)
LEMMA EmptyIs ==
  /\ Plain(<<>>) /\ (\A op : ~Has(<<>>, op)) /\ ~Underway(<<>>) /\ (\A t : ~Flags(<<>>, t))
  /\ \A cr, p, fu : Sounds(<<>>, cr, p, fu)
  BY DEF Plain, Has, Underway, Flags, Sounds

LEMMA SingleIs ==
  ASSUME NEW o \in AllOps
  PROVE  /\ <<o>> \in Seq(AllOps) /\ Len(<<o>>) = 1 /\ <<o>>[1] = o /\ <<o>> # <<>>
         /\ \A op : Has(<<o>>, op) <=> o.op = op
         /\ Underway(<<o>>) <=> o.op \in Methods
         /\ o.op \notin Methods => Plain(<<o>>)
         /\ \A t : Flags(<<o>>, t) <=> o.op = "setRunning" /\ o.t = t
         /\ \A cr, p, fu : Sounds(<<o>>, cr, p, fu) <=> Sound(o, cr, p, fu)
  <1> DEFINE l == <<o>>
  <1>1. l \in Seq(AllOps) /\ Len(l) = 1 /\ l[1] = o /\ l # <<>>
    OBVIOUS
  <1> HIDE DEF l
  <1>2. (\A i \in 1 .. Len(l) : i = 1) /\ 1 \in 1 .. Len(l)
    BY <1>1
  <1>3. \A op : Has(l, op) <=> o.op = op
    BY <1>1, <1>2 DEF Has
  <1>4. Underway(l) <=> o.op \in Methods
    BY <1>1, <1>2 DEF Underway
  <1>5. \A t : Flags(l, t) <=> o.op = "setRunning" /\ o.t = t
    BY <1>1, <1>2 DEF Flags
  <1>6. \A cr, p, fu : Sounds(l, cr, p, fu) <=> Sound(o, cr, p, fu)
    BY <1>1, <1>2 DEF Sounds
  <1> QED BY <1>1, <1>3, <1>4, <1>5, <1>6 DEF l, Plain

LEMMA OpIs ==
  ASSUME NEW op \in TaskOps \cup Methods, NEW t \in Tasks \cup {None}, NEW v \in States \cup Values \cup Sites
  PROVE  /\ Op(op, t, v) \in AllOps
         /\ Op(op, t, v).op = op /\ Op(op, t, v).t = t /\ Op(op, t, v).v = v
  BY DEF Op, AllOps

LEMMA PairIs ==
  ASSUME NEW o \in AllOps, NEW u \in AllOps
  PROVE  /\ <<o, u>> \in Seq(AllOps) /\ <<o, u>>[1] = o
         /\ \A op : Has(<<o, u>>, op) <=> o.op = op \/ u.op = op
         /\ Underway(<<o, u>>) <=> o.op \in Methods \/ u.op \in Methods
         /\ \A t : Flags(<<o, u>>, t) <=> (o.op = "setRunning" /\ o.t = t) \/ (u.op = "setRunning" /\ u.t = t)
         /\ \A cr, p, fu : Sound(o, cr, p, fu) /\ Sound(u, cr, p, fu) => Sounds(<<o, u>>, cr, p, fu)
  <1> DEFINE l == <<o, u>>
  <1>1. l \in Seq(AllOps) /\ Len(l) = 2 /\ l[1] = o /\ l[2] = u
    OBVIOUS
  <1> HIDE DEF l
  <1>2. (\A i \in 1 .. Len(l) : i = 1 \/ i = 2) /\ 1 \in 1 .. Len(l) /\ 2 \in 1 .. Len(l)
    BY <1>1
  <1>3. \A op : Has(l, op) <=> o.op = op \/ u.op = op
    BY <1>1, <1>2 DEF Has
  <1>4. Underway(l) <=> o.op \in Methods \/ u.op \in Methods
    BY <1>1, <1>2 DEF Underway
  <1>5. \A t : Flags(l, t) <=> (o.op = "setRunning" /\ o.t = t) \/ (u.op = "setRunning" /\ u.t = t)
    BY <1>1, <1>2 DEF Flags
  <1>6. \A cr, p, fu : Sound(o, cr, p, fu) /\ Sound(u, cr, p, fu) => Sounds(l, cr, p, fu)
    BY <1>1, <1>2 DEF Sounds
  <1> QED BY <1>1, <1>3, <1>4, <1>5, <1>6 DEF l

(* The lambdas of a task, and the operations that its service pushes.      *)
LEMMA LambdasSound ==
  ASSUME NEW t \in Tasks, NEW cr, NEW p, NEW fu, t \in cr
  PROVE  /\ Lambda(StartLambda(t), cr, p, fu)
         /\ p[t] \in {"set", "done"} => Lambda(SucceedLambda(t), cr, p, fu)
         /\ p[t] \in {"setException", "done"} => Lambda(FailLambda(t), cr, p, fu)
         /\ Lambda(UpdateLambda(t), cr, p, fu)
         /\ fu[t] = "CANCELLED" => Sound(Op("setState", t, "CANCELLED"), cr, p, fu)
         /\ Sound(Op("setState", t, "SCHEDULED"), cr, p, fu)
  <1> DEFINE ss(v) == Op("setState", t, v)
             sv == Op("setValue", t, "result")
             se == Op("setException", t, "null")
             tu == Op("takeUpdate", t, "null")
  <1>1. \A v \in States : ss(v) \in AllOps /\ ss(v).op = "setState" /\ ss(v).t = t /\ ss(v).v = v
    BY OpIs DEF TaskOps
  <1>2. /\ sv \in AllOps /\ sv.op = "setValue" /\ sv.t = t
        /\ se \in AllOps /\ se.op = "setException" /\ se.t = t
        /\ tu \in AllOps /\ tu.op = "takeUpdate" /\ tu.t = t
    BY OpIs DEF TaskOps, Values
  <1> HIDE DEF ss, sv, se, tu
  <1>3. /\ Sound(sv, cr, p, fu) /\ Sound(se, cr, p, fu) /\ Sound(tu, cr, p, fu)
        /\ Sound(ss("SCHEDULED"), cr, p, fu) /\ Sound(ss("RUNNING"), cr, p, fu)
        /\ p[t] \in {"set", "done"} => Sound(ss("SUCCEEDED"), cr, p, fu)
        /\ p[t] \in {"setException", "done"} => Sound(ss("FAILED"), cr, p, fu)
        /\ fu[t] = "CANCELLED" => Sound(ss("CANCELLED"), cr, p, fu)
    BY <1>1, <1>2 DEF Sound, Reached, States
  <1>4. Lambda(<<ss("SCHEDULED"), ss("RUNNING")>>, cr, p, fu)
    BY <1>1, <1>3, PairIs DEF Lambda, States, Methods
  <1>5. p[t] \in {"set", "done"} => Lambda(<<sv, ss("SUCCEEDED")>>, cr, p, fu)
    BY <1>1, <1>2, <1>3, PairIs DEF Lambda, States, Methods
  <1>6. p[t] \in {"setException", "done"} => Lambda(<<se, ss("FAILED")>>, cr, p, fu)
    BY <1>1, <1>2, <1>3, PairIs DEF Lambda, States, Methods
  <1>7. Lambda(<<tu>>, cr, p, fu)
    BY <1>2, <1>3, SingleIs DEF Lambda, Methods
  <1> QED BY <1>3, <1>4, <1>5, <1>6, <1>7
          DEF ss, sv, se, tu, StartLambda, SucceedLambda, FailLambda, UpdateLambda
-----------------------------------------------------------------------------
(* Posting a sound lambda.                                                 *)
LEMMA QueueGrows ==
  ASSUME NEW q, NEW l, NEW cr, NEW p, NEW fu, Lambdas(q, cr, p, fu), Lambda(l, cr, p, fu)
  PROVE  Lambdas(Append(q, l), cr, p, fu)
  <1>1. q \in Seq(Seq(AllOps)) /\ l \in Seq(AllOps)
    BY DEF Lambdas, Lambda, Sounds
  <1>2. /\ Append(q, l) \in Seq(Seq(AllOps)) /\ Len(Append(q, l)) = Len(q) + 1 /\ Len(q) \in Nat
        /\ \A i \in 1 .. Len(q) : Append(q, l)[i] = q[i]
        /\ Append(q, l)[Len(q) + 1] = l
    BY <1>1, AppendProperties
  <1>3. \A i \in 1 .. Len(q) + 1 : i \in 1 .. Len(q) \/ i = Len(q) + 1
    BY <1>2
  <1> QED BY <1>2, <1>3 DEF Lambdas

(* The background thread: what it changes of its own task.                 *)
Working(t) ==
  /\ UNCHANGED <<state, running, value, fx, svcVars>>
  /\ pc[t] \notin {"new", "done"}
  /\ pc' \in [Tasks -> PCs] /\ pc'[t] # "new"
  /\ future' \in [Tasks -> {"NEW", "NORMAL", "EXCEPTIONAL", "CANCELLED"}]
  /\ valueUpdate' \in [Tasks -> Values]
  /\ \A u \in Tasks : u # t => pc'[u] = pc[u] /\ future'[u] = future[u]
  /\ future'[t] = future[t] \/ (future[t] = "NEW" /\ pc'[t] = "done")
  /\ pc[t] \in Late => pc'[t] \in Late
  /\ pc[t] = "set" => pc'[t] = "done"
  /\ pc[t] = "setException" => pc'[t] = "done"
  /\ \/ queue' = queue
     \/ \E l \in {StartLambda(t), UpdateLambda(t)} : queue' = Append(queue, l)
     \/ pc'[t] = "set" /\ queue' = Append(queue, SucceedLambda(t))
     \/ pc'[t] = "setException" /\ queue' = Append(queue, FailLambda(t))

LEMMA WorkerWorks ==
  ASSUME Types, NEW t \in Tasks, Worker(t), UNCHANGED svcVars
  PROVE  Working(t)
  <1> USE DEF Types, Goto, propVars, Working, PCs, Late
  <1>1. CASE Run(t)
    BY <1>1 DEF Run
  <1>2. CASE CallStarted(t)
    BY <1>2 DEF CallStarted, runLater
  <1>3. CASE UpdateValue(t)
    BY <1>3 DEF UpdateValue, Values
  <1>4. CASE PostUpdate(t)
    BY <1>4 DEF PostUpdate, runLater
  <1>5. CASE CallReturns(t)
    BY <1>5 DEF CallReturns
  <1>6. CASE PostSucceeded(t)
    BY <1>6 DEF PostSucceeded, runLater
  <1>7. CASE CallThrows(t)
    BY <1>7 DEF CallThrows
  <1>8. CASE PostFailed(t)
    BY <1>8 DEF PostFailed, runLater
  <1>9. CASE FutureDone(t)
    BY <1>9 DEF FutureDone, Outcome
  <1> QED BY <1>1, <1>2, <1>3, <1>4, <1>5, <1>6, <1>7, <1>8, <1>9 DEF Worker, Finishing

LEMMA WorkerStep ==
  ASSUME Base, NEW t \in Tasks, Working(t)
  PROVE  Base' /\ (FlagFollows => FlagFollows')
  <1>1. /\ state' = state /\ running' = running /\ value' = value /\ fx' = fx
        /\ task' = task /\ bound' = bound /\ rest' = rest /\ ownState' = ownState /\ created' = created
    BY DEF Working, svcVars
  <1>2. Types'
    BY <1>1 DEF Base, Types, Working
  <1>3. t \in created
    BY DEF Base, Works, Working
  <1>4. Grows
    BY <1>1 DEF Grows, Working, Base, Types, Works
  <1>5. Sounds(fx', created', pc', future')
    BY <1>1, <1>4, SoundGrows DEF Base
  <1>6. Lambdas(queue', created', pc', future')
    <2>1. Lambdas(queue, created', pc', future')
      BY <1>4, SoundGrows DEF Base
    <2>2. /\ Lambda(StartLambda(t), created', pc', future') /\ Lambda(UpdateLambda(t), created', pc', future')
          /\ pc'[t] = "set" => Lambda(SucceedLambda(t), created', pc', future')
          /\ pc'[t] = "setException" => Lambda(FailLambda(t), created', pc', future')
      BY <1>1, <1>3, LambdasSound
    <2> QED BY ZenonT(60), <2>1, <2>2, QueueGrows DEF Working
  <1>7. ASSUME NEW u \in Tasks PROVE Works(u)'
    <2>1. Works(u) /\ state[u] \in States
      BY DEF Base, Types
    <2>2. Reached(u, state'[u], pc', future')
      BY <1>1, <1>4, <2>1, SoundGrows DEF Works
    <2>3. CASE u = t
      BY <1>1, <1>3, <2>1, <2>2, <2>3 DEF Works, Working, Late
    <2>4. CASE u # t
      BY <1>1, <2>1, <2>2, <2>4 DEF Works, Working
    <2> QED BY <2>3, <2>4
  <1>8. Stage(fx', task', state', future')
    <2>1. task # None => task \in Tasks
      BY DEF Base, Types
    <2> QED BY <1>1, <1>4, <2>1 DEF Base, Stage, Grows
  <1>9. /\ Method(fx') /\ RestFollows(fx', task', rest')
        /\ RunningFollows(fx, task, state, running) => RunningFollows(fx', task', state', running')
    BY <1>1 DEF Base
  <1> QED BY <1>2, <1>5, <1>6, <1>7, <1>8, <1>9 DEF Base, FlagFollows
-----------------------------------------------------------------------------
(* A task's operation at the top of the stack is replaced by others of     *)
(* tasks: the methods below it find what they rely on.                     *)
LEMMA TopReplaced ==
  ASSUME Base, fx # <<>>, fx[1].op \in TaskOps,
         NEW r, Plain(r), Sounds(r, created, pc, future), fx' = r \o Tail(fx),
         UNCHANGED <<future, pc, queue, svcVars>>, Types', \A t \in Tasks : Works(t)',
         \A t \in Tasks : state[t] # "READY" => state'[t] # "READY",
         fx[1].op = "setState" => state'[fx[1].t] # "READY"
  PROVE  Base'
  <1>1. /\ future' = future /\ pc' = pc /\ queue' = queue /\ task' = task /\ rest' = rest
        /\ created' = created
    BY DEF svcVars
  <1>2. fx \in Seq(AllOps) /\ Method(fx) /\ Tail(fx) \in Seq(AllOps) /\ r \in Seq(AllOps)
    BY Below DEF Base, Sounds, Plain
  <1>3. /\ Method(fx') /\ ~Has(fx, "schedule")
        /\ \A op \in Methods : Has(fx', op) <=> Has(fx, op)
    BY <1>2, MethodKept
  <1>4. Sounds(fx', created', pc', future')
    <2>1. Sounds(Tail(fx), created, pc, future)
      BY <1>2, Below DEF Base
    <2> QED BY <1>1, <1>2, <2>1, StackedHas
  <1>5. Lambdas(queue', created', pc', future')
    BY <1>1 DEF Base
  <1>6. Stage(fx', task', state', future')
    <2>1. fx[1].op # "reset" /\ fx[1].op # "schedule"
      BY DEF TaskOps
    <2>2. task # None => task \in Tasks
      BY DEF Base, Types
    <2>3. Stage(fx, task, state, future)
      BY DEF Base
    <2>4. fx[1] = Op("setState", task, "SCHEDULED") => fx[1].op = "setState" /\ fx[1].t = task
      BY DEF Op
    <2>5. Has(fx', "letGo") => task # None /\ future[task] # "NEW"
      BY <1>3, <2>3 DEF Stage, Methods
    <2>6. Has(fx', "reset") => Has(fx', "letGo") \/ task = None
      BY <1>3, <2>1, <2>3 DEF Stage, Methods
    <2>7. Has(fx', "unbindValues") \/ Has(fx', "unbindRest") => task = None
      BY <1>3, <2>3 DEF Stage, Methods
    <2>8. Has(fx', "execute") => task = None \/ state'[task] # "READY"
      BY <1>3, <2>1, <2>2, <2>3, <2>4 DEF Stage, Methods
    <2> QED BY <1>1, <2>5, <2>6, <2>7, <2>8 DEF Stage
  <1>7. RestFollows(fx', task', rest')
    BY <1>1, <1>3 DEF Base, RestFollows, Methods
  <1> QED BY <1>3, <1>4, <1>5, <1>6, <1>7 DEF Base

(* The flag of the service's task is only ever set from the top.           *)
LEMMA FlagAtTop ==
  ASSUME Base, FlagFollows, task # None, ~Has(fx, "letGo"), Flags(fx, task)
  PROVE  /\ fx # <<>> /\ fx[1].op \in {"setRunning", "callback", "reset"}
         /\ fx[1].op = "setRunning" => FlagOnTop(fx, task, state)
         /\ fx[1].op = "callback" => /\ fx[1] = Callback(task, "stateListener")
                                     /\ FlagOnTop(Tail(fx), task, state)
  <1>1. fx # <<>>
    BY DEF Flags
  <1>2. \/ FlagOnTop(fx, task, state)
        \/ fx[1] = Callback(task, "stateListener") /\ FlagOnTop(Tail(fx), task, state)
        \/ fx[1].op = "reset"
    BY DEF FlagFollows, RunningFollows
  <1>3. FlagOnTop(fx, task, state) => fx[1].op = "setRunning"
    BY DEF FlagOnTop, Op
  <1>4. fx[1] = Callback(task, "stateListener") => fx[1].op = "callback"
    BY DEF Callback, Op
  <1> QED BY <1>1, <1>2, <1>3, <1>4

(* Steps that neither change the state of a task nor set a flag.           *)
LEMMA FlagKept ==
  ASSUME Base, fx # <<>>, fx[1].op \in TaskOps \ {"setRunning", "callback"},
         NEW r, Plain(r), fx' = r \o Tail(fx), \A t : ~Flags(r, t),
         UNCHANGED <<state, running, svcVars>>
  PROVE  FlagFollows => FlagFollows'
  <1> SUFFICES ASSUME FlagFollows, task # None, ~Has(fx', "letGo")
               PROVE  ~Flags(fx', task) /\ running[task] = IsRunning(state[task])
    BY DEF FlagFollows, RunningFollows, svcVars
  <1>1. fx \in Seq(AllOps) /\ Method(fx) /\ Tail(fx) \in Seq(AllOps) /\ r \in Seq(AllOps)
    BY Below DEF Base, Sounds, Plain
  <1>2. ~Has(fx, "letGo")
    BY <1>1, MethodKept DEF Methods
  <1>3. ~Flags(fx, task)
    BY <1>2, FlagAtTop DEF TaskOps
  <1>4. running[task] = IsRunning(state[task])
    BY <1>2, <1>3 DEF FlagFollows, RunningFollows
  <1>5. ~Flags(fx', task)
    BY <1>1, <1>3, StackedHas, Below
  <1> QED BY <1>4, <1>5

(* A call of listeners is at most one callback.                            *)
LEMMA NotifyIs ==
  ASSUME NEW t \in created, created \subseteq Tasks, NEW site \in Sites \ {"event"}, NEW b \in BOOLEAN
  PROVE  /\ Plain(Notify(b, t, site)) /\ (\A u : ~Flags(Notify(b, t, site), u))
         /\ Sounds(Notify(b, t, site), created, pc, future)
         /\ Plain(<<Callback(t, site)>>) /\ (\A u : ~Flags(<<Callback(t, site)>>, u))
         /\ Sounds(<<Callback(t, site)>>, created, pc, future)
  <1>1. /\ Callback(t, site) \in AllOps /\ Callback(t, site).op = "callback"
        /\ Callback(t, site).t = t /\ Callback(t, site).v = site
    BY OpIs DEF Callback, TaskOps
  <1>2. Sound(Callback(t, site), created, pc, future)
    BY <1>1 DEF Sound
  <1> HIDE DEF Callback
  <1>3. /\ Plain(<<Callback(t, site)>>) /\ (\A u : ~Flags(<<Callback(t, site)>>, u))
        /\ Sounds(<<Callback(t, site)>>, created, pc, future)
    BY <1>1, <1>2, SingleIs DEF Methods
  <1> QED BY <1>3, EmptyIs DEF Notify

(* What the top of the stack says.                                         *)
LEMMA TopIs ==
  ASSUME Base, fx # <<>>
  PROVE  /\ fx \in Seq(AllOps) /\ Tail(fx) \in Seq(AllOps) /\ Head(fx) = fx[1] /\ fx[1] \in AllOps
         /\ Sound(fx[1], created, pc, future) /\ Sounds(Tail(fx), created, pc, future)
  <1>1. fx \in Seq(AllOps) /\ Sounds(fx, created, pc, future)
    BY DEF Base, Sounds
  <1> QED BY <1>1, Below

(* The steps of a task that only call listeners or push one operation.     *)
LEMMA QuietSteps ==
  ASSUME Base, NEW t \in Tasks, fireEvent(t) \/ setValue(t) \/ _setException(t) \/ TakeUpdate(t),
         UNCHANGED svcVars
  PROVE  Base' /\ (FlagFollows => FlagFollows')
  <1>1. /\ fx # <<>> /\ fx[1].op \in TaskOps \ {"setRunning", "callback", "setState"} /\ fx[1].t = t
        /\ t \in created /\ Arg = fx[1].v
    <2>1. fx # <<>> /\ Head(fx).op \in {"fireEvent", "setValue", "setException", "takeUpdate"} /\ Head(fx).t = t
      BY DEF fireEvent, setValue, _setException, TakeUpdate, Top
    <2> QED BY <2>1, TopIs DEF TaskOps, Sound, Arg
  <1>2. /\ UNCHANGED <<future, pc, queue, state, running>>
    BY DEF fireEvent, setValue, _setException, TakeUpdate, futureVars
  <1>3. /\ created \subseteq Tasks /\ created' = created /\ task' = task
        /\ bound' = bound /\ ownState' = ownState /\ rest' = rest
    BY DEF Base, Types, svcVars
  <1>4. \A u \in Tasks : Works(u)'
    BY <1>2, <1>3 DEF Base, Works
  <1>5. ASSUME NEW r, Plain(r), Sounds(r, created, pc, future), fx' = r \o Tail(fx), \A u : ~Flags(r, u),
               Types'
        PROVE  Base' /\ (FlagFollows => FlagFollows')
    <2>1. Base'
      BY <1>1, <1>2, <1>4, <1>5, TopReplaced DEF Base, Works
    <2>2. FlagFollows => FlagFollows'
      BY <1>1, <1>2, <1>5, FlagKept
    <2> QED BY <2>1, <2>2
  <1>6. CASE fireEvent(t)
    <2>1. fx' = <<Callback(t, "handler")>> \o Tail(fx) /\ UNCHANGED <<value, valueUpdate>>
      BY <1>6 DEF fireEvent, Continue
    <2>2. Types'
      BY <1>2, <1>3, <2>1 DEF Base, Types
    <2> QED BY <1>1, <1>3, <1>5, <2>1, <2>2, NotifyIs DEF Sites
  <1>7. CASE setValue(t)
    <2>1. /\ fx' = Notify(value[t] # Arg, t, "valueListener") \o Tail(fx)
          /\ valueUpdate' = valueUpdate
      BY <1>7 DEF setValue, Continue
    <2>2. Types'
      BY <1>2, <1>3, <2>1 DEF Base, Types
    <2> QED BY <1>1, <1>3, <1>5, <2>1, <2>2, NotifyIs DEF Sites
  <1>8. CASE _setException(t)
    <2>1. fx' = <<Callback(t, "valueListener")>> \o Tail(fx) /\ UNCHANGED valueUpdate
      BY <1>8 DEF _setException, Continue
    <2>2. Types'
      BY <1>2, <1>3, <2>1 DEF Base, Types
    <2> QED BY <1>1, <1>3, <1>5, <2>1, <2>2, NotifyIs DEF Sites
  <1>9. CASE TakeUpdate(t)
    <2> DEFINE o == Op("setValue", t, valueUpdate[t])
    <2>1. fx' = <<o>> \o Tail(fx) /\ valueUpdate' = [valueUpdate EXCEPT ![t] = "null"]
      BY <1>9 DEF TakeUpdate, Continue
    <2>2. Types'
      BY <1>2, <1>3, <2>1 DEF Base, Types, Values
    <2>3. valueUpdate[t] \in Values
      BY DEF Base, Types
    <2>4. o \in AllOps /\ o.op = "setValue" /\ o.t = t
      BY <2>3, OpIs DEF TaskOps
    <2> HIDE DEF o
    <2>5. Sound(o, created, pc, future)
      BY <1>1, <2>4 DEF Sound
    <2>6. Plain(<<o>>) /\ Sounds(<<o>>, created, pc, future) /\ \A u : ~Flags(<<o>>, u)
      BY <2>4, <2>5, SingleIs DEF Methods
    <2> QED BY <1>5, <2>1, <2>2, <2>6
  <1> QED BY <1>6, <1>7, <1>8, <1>9

(* The running flag is set: it is that of the state if the task is the     *)
(* service's.                                                              *)
LEMMA SetRunningStep ==
  ASSUME Base, NEW t \in Tasks, setRunning(t), UNCHANGED svcVars
  PROVE  Base' /\ (FlagFollows => FlagFollows')
  <1> DEFINE r == Notify(running[t] # running'[t], t, "runningListener")
  <1>1. /\ fx # <<>> /\ fx[1].op = "setRunning" /\ fx[1].t = t /\ t \in created /\ Arg = fx[1].v
    <2>1. fx # <<>> /\ Head(fx).op = "setRunning" /\ Head(fx).t = t
      BY DEF setRunning, Top
    <2> QED BY <2>1, TopIs DEF TaskOps, Sound, Arg
  <1>2. /\ UNCHANGED <<future, pc, queue, state, valueUpdate>>
        /\ running' = [running EXCEPT ![t] = IsRunning(Arg)] /\ fx' = r \o Tail(fx)
    BY DEF setRunning, futureVars, Continue
  <1>3. /\ created \subseteq Tasks /\ created' = created /\ task' = task
        /\ bound' = bound /\ ownState' = ownState /\ rest' = rest
    BY DEF Base, Types, svcVars
  <1>4. Types'
    BY <1>2, <1>3 DEF Base, Types, IsRunning
  <1>5. \A u \in Tasks : Works(u)'
    BY <1>1, <1>2, <1>3 DEF Base, Types, Works
  <1>6. Plain(r) /\ Sounds(r, created, pc, future) /\ \A u : ~Flags(r, u)
    BY <1>1, <1>3, NotifyIs DEF Sites
  <1> HIDE DEF r
  <1>7. Base'
    BY <1>1, <1>2, <1>4, <1>5, <1>6, TopReplaced DEF Base, Works, TaskOps
  <1>8. ASSUME FlagFollows, task # None, ~Has(fx', "letGo")
        PROVE  ~Flags(fx', task) /\ running'[task] = IsRunning(state[task])
    <2>1. fx \in Seq(AllOps) /\ Method(fx) /\ Tail(fx) \in Seq(AllOps) /\ r \in Seq(AllOps) /\ fx[1] \in AllOps
      BY <1>1, <1>6, TopIs DEF Base, Plain
    <2>2. ~Has(fx, "letGo")
      BY <1>1, <1>2, <1>6, <1>8, <2>1, MethodKept DEF Methods, TaskOps
    <2>3. task \in Tasks
      BY <1>8 DEF Base, Types
    <2>4. CASE t = task
      <3>1. Flags(fx, task)
        BY <1>1, <2>1, <2>4, Below
      <3>2. FlagOnTop(fx, task, state)
        BY <1>1, <1>8, <2>2, <3>1, FlagAtTop
      <3>3. ~Flags(Tail(fx), task) /\ fx[1].v = state[task]
        BY <3>2 DEF FlagOnTop, Op
      <3>4. ~Flags(fx', task)
        BY <1>2, <1>6, <2>1, <3>3, StackedHas
      <3> QED BY <1>1, <1>2, <2>3, <2>4, <3>3, <3>4 DEF Base, Types
    <2>5. CASE t # task
      <3>1. ~Flags(fx, task)
        <4>1. Flags(fx, task) => FlagOnTop(fx, task, state)
          BY <1>1, <1>8, <2>2, FlagAtTop
        <4>2. FlagOnTop(fx, task, state) => fx[1].t = task
          BY DEF FlagOnTop, Op
        <4> QED BY <1>1, <2>5, <4>1, <4>2
      <3>2. ~Flags(fx', task)
        BY <1>1, <1>2, <1>6, <2>1, <3>1, StackedHas, Below
      <3>3. running[task] = IsRunning(state[task])
        BY <1>8, <2>2, <3>1 DEF FlagFollows, RunningFollows
      <3>4. running'[task] = running[task]
        BY <1>2, <2>3, <2>5 DEF Base, Types
      <3> QED BY <3>2, <3>3, <3>4
    <2> QED BY <2>4, <2>5
  <1> QED BY <1>2, <1>3, <1>7, <1>8 DEF FlagFollows, RunningFollows

(* A stack whose first operations are known.                               *)
LEMMA Pushed ==
  ASSUME NEW o \in AllOps, NEW u \in AllOps, NEW h \in Seq(AllOps)
  PROVE  /\ <<o>> \o h # <<>> /\ (<<o>> \o h)[1] = o /\ Tail(<<o>> \o h) = h
         /\ <<o, u>> \o h = <<o>> \o (<<u>> \o h)
  <1>1. /\ <<o>> \o h \in Seq(AllOps) /\ Len(<<o>> \o h) = 1 + Len(h) /\ Len(h) \in Nat
        /\ (<<o>> \o h)[1] = o /\ \A i \in 1 .. Len(h) : (<<o>> \o h)[i + 1] = h[i]
    <2> DEFINE r == <<o>>
    <2>1. r \in Seq(AllOps) /\ Len(r) = 1 /\ r[1] = o /\ 1 \in 1 .. Len(r)
      OBVIOUS
    <2> HIDE DEF r
    <2>2. /\ r \o h \in Seq(AllOps) /\ Len(r \o h) = Len(r) + Len(h) /\ Len(h) \in Nat
          /\ \A i \in 1 .. Len(r) : (r \o h)[i] = r[i]
          /\ \A i \in 1 .. Len(h) : (r \o h)[i + Len(r)] = h[i]
      BY <2>1, Stacked
    <2> QED BY <2>1, <2>2 DEF r
  <1>2. <<o>> \o h # <<>> /\ Tail(<<o>> \o h) = h
    <2> DEFINE g == <<o>> \o h
    <2>1. g \in Seq(AllOps) /\ Len(g) = 1 + Len(h) /\ Len(h) \in Nat /\ \A i \in 1 .. Len(h) : g[i + 1] = h[i]
      BY <1>1
    <2> HIDE DEF g
    <2>2. g # <<>>
      BY <2>1, EmptySeq
    <2>3. Tail(g) \in Seq(AllOps) /\ Len(Tail(g)) = Len(h) /\ \A i \in 1 .. Len(h) : Tail(g)[i] = h[i]
      BY <2>1, <2>2
    <2>4. Tail(g) = h
      BY <2>3, SeqEqual
    <2> QED BY <2>2, <2>4 DEF g
  <1>3. <<o, u>> \o h = <<o>> \o (<<u>> \o h)
    <2>1. <<o, u>> = <<o>> \o <<u>>
      <3> DEFINE g == <<o>> \o <<u>>
      <3>1. g \in Seq(AllOps) /\ Len(g) = 2 /\ g[1] = o /\ g[2] = u
        <4> DEFINE r == <<o>>
                   s == <<u>>
        <4>1. r \in Seq(AllOps) /\ s \in Seq(AllOps) /\ Len(r) = 1 /\ Len(s) = 1 /\ r[1] = o /\ s[1] = u
          OBVIOUS
        <4> HIDE DEF r, s
        <4>2. /\ r \o s \in Seq(AllOps) /\ Len(r \o s) = Len(r) + Len(s)
              /\ \A i \in 1 .. Len(r) : (r \o s)[i] = r[i]
              /\ \A i \in 1 .. Len(s) : (r \o s)[i + Len(r)] = s[i]
          BY ZenonT(60), <4>1, Stacked
        <4> QED BY <4>1, <4>2 DEF r, s
      <3>2. <<o, u>> \in Seq(AllOps) /\ Len(<<o, u>>) = 2 /\ <<o, u>>[1] = o /\ <<o, u>>[2] = u
        OBVIOUS
      <3> HIDE DEF g
      <3>3. \A i \in 1 .. 2 : g[i] = <<o, u>>[i]
        BY <3>1, <3>2
      <3>4. g = <<o, u>>
        BY <3>1, <3>2, <3>3, SeqEqual
      <3> QED BY <3>4 DEF g
    <2>2. <<o>> \in Seq(AllOps) /\ <<u>> \in Seq(AllOps)
      OBVIOUS
    <2> QED BY <2>1, <2>2, ConcatAssociative
  <1> QED BY <1>1, <1>2, <1>3

(* What setState pushes: perhaps a callback, and then the flag at the top. *)
LEMMA SetStatePushes ==
  ASSUME NEW t \in created, created \subseteq Tasks, NEW s \in States \ {"READY"},
         NEW n, n = <<>> \/ n = <<Callback(t, "stateListener")>>, NEW h \in Seq(AllOps)
  PROVE  LET r == n \o <<Op("setRunning", t, s), Op("fireEvent", t, "null")>>
         IN  /\ Plain(r) /\ Sounds(r, created, pc, future)
             /\ \A u : Flags(r, u) <=> u = t
             /\ ~Flags(h, t) => \A st : st[t] = s =>
                  \/ FlagOnTop(r \o h, t, st)
                  \/ (r \o h)[1] = Callback(t, "stateListener") /\ FlagOnTop(Tail(r \o h), t, st)
  <1> DEFINE c == Callback(t, "stateListener")
             a == Op("setRunning", t, s)
             e == Op("fireEvent", t, "null")
             r == n \o <<a, e>>
  <1>1. /\ a \in AllOps /\ a.op = "setRunning" /\ a.t = t /\ a.v = s
        /\ e \in AllOps /\ e.op = "fireEvent" /\ e.t = t
        /\ c \in AllOps /\ c.op = "callback" /\ c.t = t
    BY OpIs DEF TaskOps, Callback, Values, Sites
  <1>2. Plain(n) /\ Sounds(n, created, pc, future) /\ \A u : ~Flags(n, u)
    BY NotifyIs, EmptyIs DEF Sites
  <1>3. n = <<>> \/ n = <<c>>
    OBVIOUS
  <1> HIDE DEF c, e
  <1>4. /\ <<a, e>> \in Seq(AllOps) /\ ~Underway(<<a, e>>) /\ Sounds(<<a, e>>, created, pc, future)
        /\ \A u : Flags(<<a, e>>, u) <=> u = t
    <2> HIDE DEF a
    <2>1. Sound(a, created, pc, future) /\ Sound(e, created, pc, future)
      BY <1>1 DEF Sound
    <2> QED BY <1>1, <2>1, PairIs DEF Methods
  <1>5. Plain(r) /\ Sounds(r, created, pc, future) /\ \A u : Flags(r, u) <=> u = t
    <2> HIDE DEF a
    <2>1. n \in Seq(AllOps) /\ ~Underway(n)
      BY <1>2 DEF Plain
    <2>2. r \in Seq(AllOps)
      BY <1>4, <2>1, Stacked
    <2> QED BY <1>2, <1>4, <2>1, <2>2, StackedHas DEF Plain
  <1>6. ASSUME ~Flags(h, t), NEW st, st[t] = s
        PROVE  FlagOnTop(<<a, e>> \o h, t, st)
    <2>1. /\ <<a, e>> \o h = <<a>> \o (<<e>> \o h)
          /\ <<e>> \o h \in Seq(AllOps) /\ <<e>> \in Seq(AllOps)
      BY <1>1, Pushed, Stacked, SingleIs
    <2>2. /\ <<a>> \o (<<e>> \o h) # <<>> /\ (<<a>> \o (<<e>> \o h))[1] = a
          /\ Tail(<<a>> \o (<<e>> \o h)) = <<e>> \o h
      BY <1>1, <2>1, Pushed
    <2>3. ~Flags(<<e>> \o h, t)
      BY <1>1, <1>6, <2>1, StackedHas, SingleIs
    <2> QED BY <1>6, <2>1, <2>2, <2>3 DEF FlagOnTop
  <1>7. ASSUME ~Flags(h, t), NEW st, st[t] = s
        PROVE  \/ FlagOnTop(r \o h, t, st)
               \/ (r \o h)[1] = c /\ FlagOnTop(Tail(r \o h), t, st)
    <2>1. <<a, e>> \o h \in Seq(AllOps)
      BY <1>4, Stacked
    <2> HIDE DEF a
    <2>2. CASE n = <<>>
      BY <1>4, <1>6, <1>7, <2>2, ConcatEmptySeq
    <2>3. CASE n = <<c>>
      <3>1. r \o h = <<c>> \o (<<a, e>> \o h)
        BY <1>1, <1>4, <2>3, ConcatAssociative, SingleIs
      <3>2. (r \o h)[1] = c /\ Tail(r \o h) = <<a, e>> \o h
        BY <1>1, <2>1, <3>1, Pushed
      <3> QED BY <1>6, <1>7, <3>2
    <2> QED BY <1>3, <2>2, <2>3
  <1> QED BY <1>5, <1>7 DEF c, e

(* The state changes: to one that the task has reached, and never back to  *)
(* READY; the flag that goes with it comes to the top.                     *)
LEMMA SetStateStep ==
  ASSUME Base, NEW t \in Tasks, setState(t), UNCHANGED svcVars
  PROVE  Base' /\ (FlagFollows => FlagFollows')
  <1>1. /\ fx # <<>> /\ fx[1].op = "setState" /\ fx[1].t = t /\ t \in created /\ Arg = fx[1].v
        /\ Arg \in States \ {"READY"} /\ Reached(t, Arg, pc, future)
    <2>1. fx # <<>> /\ Head(fx).op = "setState" /\ Head(fx).t = t
      BY DEF setState, Top
    <2> QED BY <2>1, TopIs DEF TaskOps, Sound, Arg
  <1>2. UNCHANGED <<future, pc, queue, valueUpdate, running>>
    BY DEF setState, futureVars
  <1>3. /\ created \subseteq Tasks /\ created' = created /\ task' = task
        /\ bound' = bound /\ ownState' = ownState /\ rest' = rest
    BY DEF Base, Types, svcVars
  <1>4. fx[1].op \in TaskOps \ {"setRunning", "callback"}
    BY <1>1 DEF TaskOps
  <1>5. CASE Ignored(t) /\ Continue(<<>>) /\ UNCHANGED state
    <2>1. fx' = <<>> \o Tail(fx) /\ state' = state /\ state[t] = "CANCELLED"
      BY <1>5 DEF Continue, Ignored
    <2>2. Types'
      BY <1>2, <1>3, <2>1 DEF Base, Types
    <2>3. \A u \in Tasks : Works(u)'
      BY <1>2, <1>3, <2>1 DEF Base, Works
    <2>4. Base'
      BY <1>1, <1>2, <1>4, <2>1, <2>2, <2>3, TopReplaced, EmptyIs
    <2>5. FlagFollows => FlagFollows'
      BY <1>1, <1>2, <1>4, <2>1, FlagKept, EmptyIs
    <2> QED BY <2>4, <2>5
  <1>6. CASE /\ state' = [state EXCEPT ![t] = Arg]
             /\ Continue(Notify(state[t] # Arg, t, "stateListener")
                         \o <<Op("setRunning", t, Arg), Op("fireEvent", t, "null")>>)
    <2> DEFINE n == Notify(state[t] # Arg, t, "stateListener")
               s == Arg
               r == n \o <<Op("setRunning", t, s), Op("fireEvent", t, "null")>>
    <2>1. fx' = r \o Tail(fx) /\ s \in States \ {"READY"} /\ s = Arg
      BY <1>1, <1>6 DEF Continue
    <2>0. n = <<>> \/ n = <<Callback(t, "stateListener")>>
      BY DEF Notify
    <2> HIDE DEF n, s
    <2>2. fx \in Seq(AllOps) /\ Tail(fx) \in Seq(AllOps) /\ Method(fx)
      BY <1>1, TopIs DEF Base
    <2>3. Plain(r) /\ Sounds(r, created, pc, future) /\ \A u : Flags(r, u) <=> u = t
      BY <1>1, <1>3, <2>0, <2>1, <2>2, SetStatePushes
    <2>4. ~Flags(Tail(fx), t) => \A st : st[t] = s =>
                  \/ FlagOnTop(r \o Tail(fx), t, st)
                  \/ (r \o Tail(fx))[1] = Callback(t, "stateListener") /\ FlagOnTop(Tail(r \o Tail(fx)), t, st)
      <3> DEFINE h == Tail(fx)
      <3>1. h \in Seq(AllOps)
        BY <2>2
      <3> HIDE DEF h
      <3>2. ~Flags(h, t) => \A st : st[t] = s =>
                  \/ FlagOnTop(r \o h, t, st)
                  \/ (r \o h)[1] = Callback(t, "stateListener") /\ FlagOnTop(Tail(r \o h), t, st)
        BY <1>1, <1>3, <2>0, <2>1, <3>1, SetStatePushes
      <3> QED BY <3>2 DEF h
    <2> HIDE DEF r
    <2>5. state'[t] = Arg /\ (\A u \in Tasks : u # t => state'[u] = state[u]) /\ state' \in [Tasks -> States]
      BY <1>1, <1>6 DEF Base, Types
    <2>6. Types'
      BY <1>2, <1>3, <2>5 DEF Base, Types
    <2>7. \A u \in Tasks : Works(u)'
      BY <1>1, <1>2, <1>3, <2>5 DEF Base, Works
    <2>8. Base'
      BY <1>1, <1>2, <1>4, <2>1, <2>3, <2>5, <2>6, <2>7, TopReplaced
    <2>9. ASSUME FlagFollows, task # None, ~Has(fx', "letGo")
          PROVE  /\ Flags(fx', task) => \/ FlagOnTop(fx', task, state')
                                        \/ /\ fx'[1] = Callback(task, "stateListener")
                                           /\ FlagOnTop(Tail(fx'), task, state')
                 /\ Flags(fx', task) \/ running[task] = IsRunning(state'[task])
      <3>1. ~Has(fx, "letGo")
        BY <1>1, <1>4, <2>1, <2>2, <2>3, <2>9, MethodKept DEF Methods
      <3>2. ~Flags(fx, task)
        BY <1>4, <2>9, <3>1, FlagAtTop DEF TaskOps
      <3>3. running[task] = IsRunning(state[task])
        BY <2>9, <3>1, <3>2 DEF FlagFollows, RunningFollows
      <3>4. ~Flags(Tail(fx), task)
        BY <1>1, <2>2, <3>2, Below
      <3>5. Flags(fx', task) <=> task = t
        BY <2>1, <2>2, <2>3, <3>4, StackedHas DEF Plain
      <3>6. task \in Tasks
        BY <2>9 DEF Base, Types
      <3>7. CASE task = t
        BY <2>1, <2>4, <2>5, <3>4, <3>5, <3>7
      <3>8. CASE task # t
        BY <2>5, <3>3, <3>5, <3>6, <3>8
      <3> QED BY <3>7, <3>8
    <2> QED BY <1>2, <1>3, <2>8, <2>9 DEF FlagFollows, RunningFollows
  <1> QED BY <1>5, <1>6 DEF setState

(* A callback returns.                                                     *)
LEMMA ReturnStep ==
  ASSUME Base, Return, UNCHANGED svcVars
  PROVE  Base' /\ (FlagFollows => FlagFollows')
  <1>1. fx # <<>> /\ fx[1].op = "callback"
    <2>1. fx # <<>> /\ Head(fx).op = "callback"
      BY DEF Return
    <2> QED BY <2>1, TopIs
  <1>2. /\ fx' = <<>> \o Tail(fx)
        /\ UNCHANGED <<future, pc, queue, state, running, valueUpdate>>
        /\ created' = created /\ task' = task /\ bound' = bound /\ ownState' = ownState /\ rest' = rest
    BY DEF Return, Continue, taskVars, futureVars, propVars, svcVars
  <1>3. Types'
    BY <1>2 DEF Base, Types
  <1>4. \A u \in Tasks : Works(u)'
    BY <1>2 DEF Base, Works
  <1>5. Base'
    BY <1>1, <1>2, <1>3, <1>4, TopReplaced, EmptyIs DEF TaskOps
  <1>6. ASSUME FlagFollows, task # None, ~Has(fx', "letGo")
        PROVE  /\ Flags(fx', task) => FlagOnTop(fx', task, state)
               /\ Flags(fx', task) \/ running[task] = IsRunning(state[task])
    <2>1. fx \in Seq(AllOps) /\ Tail(fx) \in Seq(AllOps) /\ Method(fx) /\ fx' = Tail(fx)
      BY <1>1, <1>2, TopIs, ConcatEmptySeq DEF Base
    <2>5. Has(<<>> \o Tail(fx), "letGo") <=> Has(fx, "letGo")
      BY <1>1, <2>1, MethodKept, EmptyIs DEF Methods, TaskOps
    <2>2. ~Has(fx, "letGo")
      BY <1>2, <1>6, <2>5
    <2>3. Flags(fx', task) <=> Flags(fx, task)
      BY <1>1, <2>1, Below
    <2>4. Flags(fx, task) => FlagOnTop(fx', task, state)
      BY <1>1, <1>6, <2>1, <2>2, FlagAtTop
    <2> QED BY <1>6, <2>2, <2>3, <2>4 DEF FlagFollows, RunningFollows
  <1> QED BY <1>2, <1>5, <1>6 DEF FlagFollows, RunningFollows

(* The next lambda of the queue.                                           *)
LEMMA RunLambdaStep ==
  ASSUME Base, RunLambda, UNCHANGED svcVars
  PROVE  Base' /\ (FlagFollows => FlagFollows')
  <1>1. /\ fx = <<>> /\ queue # <<>> /\ fx' = Head(queue) /\ queue' = Tail(queue)
        /\ UNCHANGED <<future, pc, state, running, valueUpdate>>
        /\ created' = created /\ task' = task /\ bound' = bound /\ ownState' = ownState /\ rest' = rest
    BY DEF RunLambda, taskVars, futureVars, propVars, svcVars
  <1>2. /\ Lambda(fx', created, pc, future) /\ Lambdas(queue', created, pc, future)
    <2>1. queue \in Seq(Seq(AllOps)) /\ \A i \in 1 .. Len(queue) : Lambda(queue[i], created, pc, future)
      BY DEF Base, Lambdas
    <2>2. /\ Len(queue) \in Nat /\ Len(queue) >= 1 /\ Head(queue) = queue[1]
          /\ Tail(queue) \in Seq(Seq(AllOps)) /\ Len(Tail(queue)) = Len(queue) - 1
          /\ \A i \in 1 .. Len(Tail(queue)) : Tail(queue)[i] = queue[i + 1]
      BY <1>1, <2>1, EmptySeq, HeadTailProperties
    <2>3. 1 \in 1 .. Len(queue) /\ \A i \in 1 .. Len(Tail(queue)) : i + 1 \in 1 .. Len(queue)
      BY <2>2
    <2>4. Lambda(fx', created, pc, future)
      BY <1>1, <2>1, <2>2, <2>3
    <2>5. Lambdas(queue', created, pc, future)
      BY <1>1, <2>1, <2>2, <2>3 DEF Lambdas
    <2> QED BY <2>4, <2>5
  <1>3. Types' /\ \A u \in Tasks : Works(u)'
    BY <1>1 DEF Base, Types, Works
  <1>4. ~Flags(fx, task) /\ \A op : ~Has(fx, op)
    BY <1>1, EmptyIs
  <1>5. ~Flags(fx', task)
    BY <1>2 DEF Lambda, Flags, Has
  <1>6. /\ Method(fx') /\ ~Has(fx', "letGo") /\ ~Has(fx', "reset") /\ ~Has(fx', "unbindRest") /\ ~Has(fx', "unbindValues")
        /\ Has(fx', "execute") => fx'[1].op = "schedule"
    <2>1. CASE Underway(fx')
      <3>1. fx' = ScheduleLambda
        BY <1>2, <2>1 DEF Lambda
      <3> QED BY <3>1, ScheduleLambdaIs
    <2>2. CASE ~Underway(fx')
      <3>1. Plain(fx')
        BY <1>2, <2>2 DEF Plain, Lambda, Sounds
      <3>2. Ordered(fx') /\ OnCallback(fx') /\ \A op \in Methods : ~Has(fx', op)
        BY <3>1, PlainOps
      <3> QED BY <3>2 DEF Method, Methods
    <2> QED BY <2>1, <2>2
  <1>7. Stage(fx', task', state', future')
    BY <1>6 DEF Stage
  <1>8. RestFollows(fx', task', rest')
    BY <1>1, <1>4 DEF Base, RestFollows
  <1>9. Base'
    BY <1>1, <1>2, <1>3, <1>6, <1>7, <1>8 DEF Base, Lambda
  <1>10. FlagFollows => FlagFollows'
    BY <1>1, <1>4, <1>5 DEF FlagFollows, RunningFollows
  <1> QED BY <1>9, <1>10
-----------------------------------------------------------------------------
(* The steps of the service's methods.                                     *)
LEMMA NotifyStateIs ==
  ASSUME NEW b \in BOOLEAN, NEW n, n = NotifyState(b)
  PROVE  Plain(n) /\ (\A u : ~Flags(n, u)) /\ (\A cr, p, fu : Sounds(n, cr, p, fu))
  <1> DEFINE c == Callback(None, "stateListener")
  <1>1. c \in AllOps /\ c.op = "callback" /\ c.t = None /\ c.v = "stateListener"
    BY OpIs DEF Callback, TaskOps, Sites
  <1>2. n = <<>> \/ n = <<c>>
    BY DEF NotifyState
  <1> HIDE DEF c
  <1>3. \A cr, p, fu : Sound(c, cr, p, fu)
    BY <1>1 DEF Sound
  <1> QED BY <1>1, <1>2, <1>3, SingleIs, EmptyIs DEF Methods

LEMMA NotifyRestIs ==
  ASSUME NEW t, NEW site \in {"valueListener", "runningListener"}, NEW n, n = NotifyRest(t, site)
  PROVE  Plain(n) /\ (\A u : ~Flags(n, u)) /\ (\A cr, p, fu : Sounds(n, cr, p, fu))
  <1> DEFINE c == Callback(None, site)
  <1>1. c \in AllOps /\ c.op = "callback" /\ c.t = None /\ c.v = site
    BY OpIs DEF Callback, TaskOps, Sites
  <1>2. n = <<>> \/ n = <<c>>
    BY DEF NotifyRest
  <1> HIDE DEF c
  <1>3. \A cr, p, fu : Sound(c, cr, p, fu)
    BY <1>1 DEF Sound
  <1> QED BY <1>1, <1>2, <1>3, SingleIs, EmptyIs DEF Methods

LEMMA SvcOpIs ==
  ASSUME NEW m \in Methods
  PROVE  /\ SvcOp(m) \in AllOps /\ SvcOp(m).op = m /\ SvcOp(m).t = None
         /\ \A cr, p, fu : Sound(SvcOp(m), cr, p, fu)
  <1>1. SvcOp(m) \in AllOps /\ SvcOp(m).op = m /\ SvcOp(m).t = None
    BY OpIs DEF SvcOp, Values
  <1> QED BY <1>1 DEF Sound, Methods, TaskOps

(* The service's state, when its properties are bound to its task.         *)
LEMMA ServiceStateIs ==
  ASSUME Base
  PROVE  /\ task # None => task \in created /\ task \in Tasks /\ serviceState = state[task]
         /\ task = None => serviceState = ownState /\ serviceState \notin Active
  BY DEF Base, Types, serviceState, Active

(* The task that the service lets go of stays harmless.                    *)
LEMMA TaskDropped ==
  ASSUME Base, UNCHANGED <<future, pc, state, running, created>>, task' = None,
         task # None => \/ pc[task] = "new" \/ future[task] = "CANCELLED" \/ pc[task] \in Late
  PROVE  \A u \in Tasks : Works(u)'
  BY DEF Base, Types, Works

LEMMA LetGoStep ==
  ASSUME Base, LetGo
  PROVE  Base' /\ (FlagFollows => FlagFollows')
  <1> DEFINE n == NotifyState(serviceState # "CANCELLED")
  <1>1. fx # <<>> /\ fx[1].op = "letGo" /\ fx \in Seq(AllOps) /\ Tail(fx) \in Seq(AllOps) /\ Method(fx)
    <2>1. fx # <<>> /\ Head(fx).op = "letGo"
      BY DEF LetGo, TopSvc
    <2> QED BY <2>1, TopIs DEF Base
  <1>2. /\ task' = None /\ bound' = None /\ ownState' = "CANCELLED" /\ fx' = n \o Tail(fx)
        /\ UNCHANGED <<future, pc, state, running, valueUpdate, queue, rest, created>>
    BY DEF LetGo, Continue, taskVars, futureVars, propVars
  <1>3. Plain(n) /\ Sounds(n, created, pc, future)
    <2>1. (serviceState # "CANCELLED") \in BOOLEAN
      OBVIOUS
    <2> QED BY <2>1, NotifyStateIs
  <1> HIDE DEF n
  <1>4. /\ Method(fx') /\ ~Has(fx', "letGo") /\ Has(fx', "reset") /\ ~Has(fx', "unbindRest") /\ ~Has(fx', "unbindValues")
        /\ ~Has(fx', "execute")
    BY <1>1, <1>2, <1>3, LetGoLeaves
  <1>5. Types'
    BY <1>2 DEF Base, Types
  <1>6. \A u \in Tasks : Works(u)'
    <2>1. Has(fx, "letGo")
      BY <1>1, Below
    <2>2. task # None /\ future[task] # "NEW" /\ task \in Tasks
      BY <2>1 DEF Base, Stage, Types
    <2>3. future[task] = "CANCELLED" \/ pc[task] \in Late
      BY <2>2 DEF Base, Types, Works, Late
    <2> QED BY <1>2, <2>3, TaskDropped
  <1>7. Sounds(fx', created', pc', future') /\ Lambdas(queue', created', pc', future')
    BY <1>1, <1>2, <1>3, TopIs, StackedHas DEF Base, Plain
  <1>8. Stage(fx', task', state', future') /\ RestFollows(fx', task', rest')
    BY <1>2, <1>4 DEF Stage, RestFollows, Base
  <1>9. Base'
    BY <1>4, <1>5, <1>6, <1>7, <1>8 DEF Base
  <1> QED BY <1>2, <1>9 DEF FlagFollows, RunningFollows

LEMMA ResetStep ==
  ASSUME Base, Reset
  PROVE  Base' /\ (FlagFollows => FlagFollows')
  <1> DEFINE n == NotifyState(serviceState # "READY")
             u == <<SvcOp("unbindValues")>>
  <1>1. fx # <<>> /\ fx[1].op = "reset" /\ fx \in Seq(AllOps) /\ Tail(fx) \in Seq(AllOps) /\ Method(fx)
    <2>1. fx # <<>> /\ Head(fx).op = "reset"
      BY DEF Reset, TopSvc
    <2> QED BY <2>1, TopIs DEF Base
  <1>2. serviceState \notin Active
    <2>1. ~Has(fx, "letGo") /\ Has(fx, "reset")
      BY <1>1, MethodRest, Below DEF Methods, Before
    <2>2. task = None \/ state[task] \notin Active
      BY <2>1 DEF Base, Stage
    <2> QED BY <2>2, ServiceStateIs
  <1>3. /\ task' = None /\ bound' = None /\ ownState' = "READY" /\ fx' = (n \o u) \o Tail(fx)
        /\ UNCHANGED <<future, pc, state, running, valueUpdate, queue, rest, created>>
    BY <1>2 DEF Reset, Continue, taskVars, futureVars, propVars
  <1>4. Plain(n) /\ Sounds(n, created, pc, future)
    <2>1. (serviceState # "READY") \in BOOLEAN
      OBVIOUS
    <2> QED BY <2>1, NotifyStateIs
  <1>5. u \in Seq(AllOps) /\ Sounds(u, created, pc, future)
    BY SvcOpIs, SingleIs DEF Methods
  <1>6. /\ Method(fx') /\ ~Has(fx', "letGo") /\ ~Has(fx', "reset") /\ Has(fx', "unbindValues")
        /\ ~Has(fx', "execute")
    <2> HIDE DEF n
    <2> QED BY <1>1, <1>3, <1>4, ResetLeaves
  <1> HIDE DEF n, u
  <1>7. Types'
    BY <1>3 DEF Base, Types
  <1>8. \A t \in Tasks : Works(t)'
    <2>1. ASSUME task # None
          PROVE  pc[task] = "new" \/ future[task] = "CANCELLED" \/ pc[task] \in Late
      <3>1. task \in Tasks /\ state[task] \notin Active /\ state[task] \in States
        BY <1>2, <2>1, ServiceStateIs DEF Base, Types
      <3>2. Works(task)
        BY <3>1 DEF Base
      <3> QED BY <3>1, <3>2 DEF Works, Reached, States, Active, Late
    <2> QED BY <1>3, <2>1, TaskDropped
  <1>9. Sounds(fx', created', pc', future') /\ Lambdas(queue', created', pc', future')
    <2>1. n \o u \in Seq(AllOps) /\ Sounds(n \o u, created, pc, future)
      BY <1>4, <1>5, StackedHas, Stacked DEF Plain
    <2> QED BY <1>1, <1>3, <2>1, TopIs, StackedHas DEF Base
  <1>10. Stage(fx', task', state', future') /\ RestFollows(fx', task', rest')
    BY <1>3, <1>6 DEF Stage, RestFollows, Base
  <1>11. Base'
    BY <1>6, <1>7, <1>8, <1>9, <1>10 DEF Base
  <1> QED BY <1>3, <1>11 DEF FlagFollows, RunningFollows

LEMMA UnbindValuesStep ==
  ASSUME Base, UnbindValues
  PROVE  Base' /\ (FlagFollows => FlagFollows')
  <1> DEFINE n == NotifyRest(rest.value, "valueListener")
             u == <<SvcOp("unbindRest")>>
  <1>1. fx # <<>> /\ fx[1].op = "unbindValues" /\ fx \in Seq(AllOps) /\ Tail(fx) \in Seq(AllOps) /\ Method(fx)
    <2>1. fx # <<>> /\ Head(fx).op = "unbindValues"
      BY DEF UnbindValues, TopSvc
    <2> QED BY <2>1, TopIs DEF Base
  <1>2. /\ rest' = [rest EXCEPT !.value = None] /\ fx' = (n \o u) \o Tail(fx)
        /\ UNCHANGED <<future, pc, state, running, valueUpdate, queue, task, bound, ownState, created>>
    BY DEF UnbindValues, Continue, taskVars, futureVars, propVars
  <1>3. task = None
    <2>1. Has(fx, "unbindValues")
      BY <1>1, Below
    <2> QED BY <2>1 DEF Base, Stage
  <1>4. Plain(n) /\ Sounds(n, created, pc, future)
    BY NotifyRestIs
  <1>5. u \in Seq(AllOps) /\ Sounds(u, created, pc, future)
    BY SvcOpIs, SingleIs DEF Methods
  <1>6. /\ Method(fx') /\ ~Has(fx', "letGo") /\ ~Has(fx', "reset") /\ Has(fx', "unbindRest")
        /\ ~Has(fx', "execute")
    <2> HIDE DEF n
    <2> QED BY <1>1, <1>2, <1>4, ResetLeaves
  <1> HIDE DEF n, u
  <1>7. Types' /\ \A t \in Tasks : Works(t)'
    BY <1>2 DEF Base, Types, Works
  <1>8. Sounds(fx', created', pc', future') /\ Lambdas(queue', created', pc', future')
    <2>1. n \o u \in Seq(AllOps) /\ Sounds(n \o u, created, pc, future)
      BY <1>4, <1>5, StackedHas, Stacked DEF Plain
    <2> QED BY <1>1, <1>2, <2>1, TopIs, StackedHas DEF Base
  <1>9. Stage(fx', task', state', future') /\ RestFollows(fx', task', rest')
    BY <1>2, <1>3, <1>6 DEF Stage, RestFollows, Base
  <1>10. Base'
    BY <1>6, <1>7, <1>8, <1>9 DEF Base
  <1> QED BY <1>2, <1>3, <1>10 DEF FlagFollows, RunningFollows

LEMMA UnbindRestStep ==
  ASSUME Base, UnbindRest
  PROVE  Base' /\ (FlagFollows => FlagFollows')
  <1> DEFINE n == NotifyRest(rest.running, "runningListener")
  <1>1. fx # <<>> /\ fx[1].op = "unbindRest" /\ fx \in Seq(AllOps) /\ Tail(fx) \in Seq(AllOps) /\ Method(fx)
    <2>1. fx # <<>> /\ Head(fx).op = "unbindRest"
      BY DEF UnbindRest, TopSvc
    <2> QED BY <2>1, TopIs DEF Base
  <1>2. /\ rest' = [rest EXCEPT !.running = None] /\ fx' = n \o Tail(fx)
        /\ UNCHANGED <<future, pc, state, running, valueUpdate, queue, task, bound, ownState, created>>
    BY DEF UnbindRest, Continue, taskVars, futureVars, propVars
  <1>0. Has(fx, "unbindRest") /\ ~Has(fx, "unbindValues") /\ ~Has(fx, "reset")
    BY <1>1, Below, MethodRest DEF Methods, Before
  <1>3. task = None /\ rest.value = None
    BY <1>0 DEF Base, Stage, RestFollows
  <1>9. Plain(n) /\ Sounds(n, created, pc, future)
    BY NotifyRestIs
  <1> HIDE DEF n
  <1>4. /\ Method(fx') /\ ~Has(fx', "letGo") /\ ~Has(fx', "reset") /\ ~Has(fx', "execute")
        /\ ~Has(fx', "unbindValues") /\ ~Has(fx', "unbindRest")
    BY <1>1, <1>2, <1>9, UnbindLeaves
  <1>5. Types' /\ \A u \in Tasks : Works(u)'
    BY <1>2 DEF Base, Types, Works
  <1>6. Sounds(fx', created', pc', future') /\ Lambdas(queue', created', pc', future')
    BY <1>1, <1>2, <1>9, TopIs, StackedHas DEF Base, Plain
  <1>7. Stage(fx', task', state', future') /\ RestFollows(fx', task', rest')
    BY <1>2, <1>3, <1>4 DEF Stage, RestFollows, Base
  <1>8. Base'
    BY <1>4, <1>5, <1>6, <1>7 DEF Base
  <1> QED BY <1>2, <1>3, <1>8 DEF FlagFollows, RunningFollows

(* No operation is about a task that was not created.                      *)
LEMMA NoFlagYet ==
  ASSUME NEW f, NEW cr, NEW p, NEW fu, Sounds(f, cr, p, fu), NEW t, t \notin cr
  PROVE  ~Flags(f, t)
  BY DEF Flags, Sounds, Sound, TaskOps

(* A new task takes the place of one that was not executed.                *)
LEMMA TaskCreated ==
  ASSUME Base, NEW t \in Tasks, NewTask(t), serviceState = "READY",
         UNCHANGED <<future, pc, state, running, valueUpdate>>
  PROVE  /\ Types' /\ (\A u \in Tasks : Works(u)') /\ Grows
         /\ task' = t /\ rest' = RestOf(t) /\ t \notin created /\ running'[t] = IsRunning(state'[t])
  <1>1. /\ t \notin created /\ created' = created \cup {t} /\ task' = t /\ bound' = t /\ rest' = RestOf(t)
        /\ ownState' = ownState
    BY DEF NewTask
  <1>2. Types'
    BY <1>1 DEF Base, Types
  <1>3. ASSUME NEW u \in Tasks PROVE Works(u)'
    <2>1. Works(u)
      BY DEF Base
    <2>2. CASE u = t
      BY <1>1, <2>1, <2>2 DEF Works
    <2>3. CASE u # t /\ u = task
      <3>1. state[u] = "READY"
        BY <2>3, ServiceStateIs, ServiceAssumption
      <3> QED BY <1>1, <2>1, <2>3, <3>1 DEF Works
    <2>4. CASE u # t /\ u # task
      BY <1>1, <2>1, <2>4 DEF Works
    <2> QED BY <2>2, <2>3, <2>4
  <1>4. Grows
    BY <1>1 DEF Grows, Base, Types
  <1>5. running'[t] = IsRunning(state'[t])
    BY <1>1 DEF Base, Types, Works, IsRunning
  <1> QED BY <1>1, <1>2, <1>3, <1>4, <1>5

(* A method throws: the rest of it is dropped.                             *)
LEMMA ThrowStep ==
  ASSUME Base, fx # <<>>, fx[1].op \in {"start", "schedule"}, Throw,
         UNCHANGED <<taskVars, queue, svcVars>>
  PROVE  Base' /\ (FlagFollows => FlagFollows')
  <1>1. fx \in Seq(AllOps) /\ Method(fx)
    BY TopIs DEF Base
  <1>2. /\ UNCHANGED <<future, pc, state, running, valueUpdate>> /\ queue' = queue
        /\ created' = created /\ task' = task /\ bound' = bound /\ ownState' = ownState /\ rest' = rest
    BY DEF taskVars, futureVars, propVars, svcVars
  <1>3. /\ fx' \in Seq(AllOps) /\ ~Underway(fx') /\ Method(fx')
        /\ \A t : Flags(fx', t) => Flags(fx, t)
        /\ Sounds(fx', created, pc, future)
    BY <1>1, ThrowLeaves DEF Base
  <1>4. \A op \in Methods : ~Has(fx', op)
    BY <1>3, PlainOps DEF Plain
  <1>5. ~Has(fx, "reset") /\ ~Has(fx, "unbindRest") /\ ~Has(fx, "unbindValues") /\ ~Has(fx, "letGo")
    BY <1>1, MethodRest, Below DEF Methods, Before
  <1>6. Types' /\ \A u \in Tasks : Works(u)'
    BY <1>2 DEF Base, Types, Works
  <1>7. Stage(fx', task', state', future') /\ RestFollows(fx', task', rest')
    BY <1>2, <1>4, <1>5 DEF Base, Stage, RestFollows, Methods
  <1>8. Base'
    BY <1>2, <1>3, <1>6, <1>7 DEF Base
  <1>9. ASSUME FlagFollows, task # None
        PROVE  ~Flags(fx', task) /\ running[task] = IsRunning(state[task])
    <2>1. ~Flags(fx, task)
      BY <1>5, <1>9, FlagAtTop
    <2> QED BY <1>3, <1>5, <1>9, <2>1 DEF FlagFollows, RunningFollows
  <1> QED BY <1>2, <1>8, <1>9 DEF FlagFollows, RunningFollows

LEMMA StartStep ==
  ASSUME Base, Start
  PROVE  Base' /\ (FlagFollows => FlagFollows')
  <1>1. fx # <<>> /\ fx[1].op = "start" /\ fx \in Seq(AllOps) /\ Tail(fx) \in Seq(AllOps) /\ Method(fx)
        /\ Sounds(Tail(fx), created, pc, future)
    <2>1. fx # <<>> /\ Head(fx).op = "start"
      BY DEF Start, TopSvc
    <2> QED BY <2>1, TopIs DEF Base
  <1>2. CASE Throw /\ UNCHANGED svcVars
    BY <1>1, <1>2, ThrowStep DEF Start
  <1>3. CASE serviceState = "READY" /\ (\E t \in Tasks : NewTask(t)) /\ Continue(ScheduleLambda)
    <2>1. PICK t \in Tasks : NewTask(t)
      BY <1>3
    <2>2. /\ fx' = ScheduleLambda \o Tail(fx)
          /\ UNCHANGED <<future, pc, state, running, valueUpdate>> /\ queue' = queue
      BY <1>3 DEF Start, Continue, taskVars, futureVars, propVars
    <2>3. /\ Types' /\ (\A u \in Tasks : Works(u)') /\ Grows
          /\ task' = t /\ rest' = RestOf(t) /\ t \notin created /\ running'[t] = IsRunning(state'[t])
      BY <1>3, <2>1, <2>2, TaskCreated
    <2>4. /\ Method(fx') /\ fx'[1].op = "schedule" /\ ~Has(fx', "letGo") /\ ~Has(fx', "reset")
          /\ ~Has(fx', "unbindRest") /\ ~Has(fx', "unbindValues")
      BY <1>1, <2>2, StartLeaves
    <2>5. Sounds(fx', created', pc', future') /\ Lambdas(queue', created', pc', future')
      <3>1. Sounds(Tail(fx), created', pc', future') /\ Lambdas(queue, created', pc', future')
        BY <1>1, <2>3, SoundGrows DEF Base
      <3> QED BY <1>1, <2>2, <3>1, ScheduleLambdaIs, StackedHas
    <2>6. Stage(fx', task', state', future') /\ RestFollows(fx', task', rest')
      BY <2>3, <2>4 DEF Stage, RestFollows, RestOf
    <2>7. Base'
      BY <2>3, <2>4, <2>5, <2>6 DEF Base
    <2>8. ~Flags(fx', t)
      <3>1. ~Flags(Tail(fx), t)
        BY <1>1, <2>3, NoFlagYet
      <3> QED BY <1>1, <2>2, <3>1, ScheduleLambdaIs, StackedHas
    <2> QED BY <2>3, <2>7, <2>8 DEF FlagFollows, RunningFollows
  <1> QED BY <1>2, <1>3 DEF Start

LEMMA ScheduleStep ==
  ASSUME Base, Schedule
  PROVE  Base' /\ (FlagFollows => FlagFollows')
  <1>1. fx # <<>> /\ fx[1].op = "schedule" /\ fx \in Seq(AllOps) /\ Tail(fx) \in Seq(AllOps) /\ Method(fx)
        /\ Sounds(Tail(fx), created, pc, future)
    <2>1. fx # <<>> /\ Head(fx).op = "schedule"
      BY DEF Schedule, TopSvc
    <2> QED BY <2>1, TopIs DEF Base
  <1>2. CASE Throw
    BY <1>1, <1>2, ThrowStep DEF Schedule
  <1>3. CASE task # None /\ Continue(<<Op("setState", task, "SCHEDULED")>>)
    <2> DEFINE o == Op("setState", task, "SCHEDULED")
    <2>1. /\ fx' = <<o>> \o Tail(fx)
          /\ UNCHANGED <<future, pc, state, running, valueUpdate>> /\ queue' = queue
          /\ created' = created /\ task' = task /\ bound' = bound /\ ownState' = ownState /\ rest' = rest
      BY <1>3 DEF Schedule, Continue, taskVars, futureVars, propVars, svcVars
    <2>2. task \in created /\ task \in Tasks
      BY <1>3, ServiceStateIs
    <2>3. o \in AllOps /\ o.op = "setState"
      BY <2>2, OpIs DEF TaskOps, States
    <2>4. Sound(o, created, pc, future)
      BY <2>2, LambdasSound
    <2> HIDE DEF o
    <2>5. /\ <<o>> \in Seq(AllOps) /\ Plain(<<o>>) /\ Sounds(<<o>>, created, pc, future)
          /\ ~Flags(<<o>>, task)
      BY <2>3, <2>4, SingleIs DEF Methods
    <2>6. Method(fx') /\ ~Has(fx', "letGo") /\ ~Has(fx', "reset") /\ ~Has(fx', "unbindRest") /\ ~Has(fx', "unbindValues")
      BY <1>1, <2>1, <2>5, ScheduleLeaves
    <2>7. fx'[1] = o
      BY <1>1, <2>1, <2>3, Pushed
    <2>8. Sounds(fx', created', pc', future') /\ Lambdas(queue', created', pc', future')
      BY <1>1, <2>1, <2>5, StackedHas DEF Base
    <2>9. ~Has(fx, "reset") /\ ~Has(fx, "unbindRest") /\ ~Has(fx, "unbindValues") /\ ~Has(fx, "letGo")
      BY <1>1, MethodRest, Below DEF Methods, Before
    <2>10. Stage(fx', task', state', future') /\ RestFollows(fx', task', rest')
      BY <2>1, <2>6, <2>7, <2>9 DEF Base, Stage, RestFollows, o
    <2>11. Types' /\ \A u \in Tasks : Works(u)'
      BY <2>1 DEF Base, Types, Works
    <2>12. Base'
      BY <2>6, <2>8, <2>10, <2>11 DEF Base
    <2>13. ASSUME FlagFollows
           PROVE  ~Flags(fx', task) /\ running[task] = IsRunning(state[task])
      <3>1. ~Flags(fx, task)
        BY <1>1, <1>3, <2>9, <2>13, FlagAtTop
      <3>2. ~Flags(fx', task)
        BY <1>1, <2>1, <2>5, <3>1, StackedHas, Below
      <3> QED BY <1>3, <2>9, <2>13, <3>1, <3>2 DEF FlagFollows, RunningFollows
    <2> QED BY <2>1, <2>12, <2>13 DEF FlagFollows, RunningFollows
  <1> QED BY <1>2, <1>3 DEF Schedule

LEMMA ExecuteStep ==
  ASSUME Base, executeTask
  PROVE  Base' /\ (FlagFollows => FlagFollows')
  <1>1. fx # <<>> /\ fx[1].op = "execute" /\ fx \in Seq(AllOps) /\ Tail(fx) \in Seq(AllOps) /\ Method(fx)
        /\ Sounds(Tail(fx), created, pc, future)
    <2>1. fx # <<>> /\ Head(fx).op = "execute"
      BY DEF executeTask, TopSvc
    <2> QED BY <2>1, TopIs DEF Base
  <1>2. /\ fx' = <<>> \o Tail(fx) /\ fx' = Tail(fx)
        /\ pc' = [t \in Tasks |-> IF t = task /\ pc[t] = "new" THEN "submitted" ELSE pc[t]]
        /\ UNCHANGED <<future, state, running, valueUpdate>> /\ queue' = queue
        /\ created' = created /\ task' = task /\ bound' = bound /\ ownState' = ownState /\ rest' = rest
    BY <1>1, ConcatEmptySeq DEF executeTask, Continue, propVars, svcVars
  <1>3. Method(fx') /\ ~Underway(fx')
    BY <1>1, <1>2, ExecuteLeaves
  <1>4. \A op \in Methods : ~Has(fx', op)
    BY <1>1, <1>2, <1>3, PlainOps DEF Plain
  <1>5. ~Has(fx, "reset") /\ ~Has(fx, "unbindRest") /\ ~Has(fx, "unbindValues") /\ ~Has(fx, "letGo") /\ Has(fx, "execute")
    BY <1>1, MethodRest, Below DEF Methods, Before
  <1>6. task = None \/ state[task] # "READY"
    <2>1. fx[1] # Op("setState", task, "SCHEDULED")
      BY <1>1 DEF Op
    <2> QED BY <1>1, <1>5, <2>1 DEF Base, Stage
  <1>7. Types'
    BY <1>2 DEF Base, Types, PCs
  <1>8. Grows
    BY <1>2 DEF Base, Types, Grows
  <1>9. ASSUME NEW u \in Tasks PROVE Works(u)'
    <2>1. Works(u) /\ state[u] \in States
      BY DEF Base, Types
    <2>2. Reached(u, state'[u], pc', future')
      BY <1>2, <1>8, <2>1, SoundGrows DEF Works
    <2>3. CASE u = task
      BY <1>2, <1>6, <2>1, <2>2, <2>3, ServiceAssumption DEF Base, Types, Works
    <2>4. CASE u # task
      BY <1>2, <2>1, <2>2, <2>4 DEF Works
    <2> QED BY <2>3, <2>4
  <1>10. Sounds(fx', created', pc', future') /\ Lambdas(queue', created', pc', future')
    BY <1>1, <1>2, <1>8, SoundGrows DEF Base
  <1>11. Stage(fx', task', state', future') /\ RestFollows(fx', task', rest')
    BY <1>2, <1>4, <1>5 DEF Base, Stage, RestFollows, Methods
  <1>12. Base'
    BY <1>3, <1>7, <1>9, <1>10, <1>11 DEF Base
  <1>13. ASSUME FlagFollows, task # None
         PROVE  ~Flags(fx', task) /\ running[task] = IsRunning(state[task])
    <2>1. ~Flags(fx, task)
      BY <1>1, <1>5, <1>13, FlagAtTop
    <2>2. ~Flags(fx', task)
      BY <1>1, <1>2, <2>1, Below
    <2> QED BY <1>5, <1>13, <2>1, <2>2 DEF FlagFollows, RunningFollows
  <1> QED BY <1>2, <1>12, <1>13 DEF FlagFollows, RunningFollows

(* Calls of the application come from a callback or an event of their own. *)
LEMMA CalledOnFx ==
  ASSUME Base, NEW sites, OnFx(sites)
  PROVE  /\ fx \in Seq(AllOps) /\ Called(fx) /\ Method(fx) /\ Sounds(fx, created, pc, future)
         /\ fx # <<>> => fx[1].op = "callback" /\ fx[1].v \in sites
         /\ \A op \in Methods : Has(fx, op) => fx # <<>>
  <1>1. fx \in Seq(AllOps) /\ Method(fx) /\ Sounds(fx, created, pc, future)
    BY DEF Base, Sounds
  <1>2. fx # <<>> => fx[1].op = "callback" /\ fx[1].v \in sites
    BY TopIs DEF OnFx
  <1> QED BY <1>1, <1>2, EmptyIs DEF Called

(* While a callback runs, the method under way needs nothing of the top.   *)
LEMMA StageCalled ==
  ASSUME Base, Called(fx), fx \in Seq(AllOps), NEW g,
         \A op \in Methods : Has(g, op) <=> Has(fx, op), NEW fu,
         task # None => (future[task] # "NEW" => fu[task] # "NEW")
  PROVE  Stage(g, task, state, fu)
  <1>1. \A op \in Methods : Has(fx, op) => fx # <<>>
    BY EmptyIs
  <1>2. fx # <<>> => fx[1].op \notin {"reset", "schedule", "setState"}
    BY DEF Called
  <1>3. \A t, v : Op("setState", t, v).op = "setState"
    BY DEF Op
  <1>4. Stage(fx, task, state, future)
    BY DEF Base
  <1> QED BY <1>1, <1>2, <1>3, <1>4 DEF Stage, Methods

(* A cancelled future.                                                     *)
LEMMA FutureCancelled ==
  ASSUME Base, (task # None /\ CancelFuture(task)) \/ future' = future,
         UNCHANGED <<pc, state, running, valueUpdate, created, task, bound>>,
         ownState' \in {"READY", "CANCELLED"}
  PROVE  /\ Types' /\ (\A u \in Tasks : Works(u)') /\ Grows
         /\ task # None /\ CancelFuture(task) => future'[task] = "CANCELLED"
         /\ task # None => (future[task] # "NEW" => future'[task] # "NEW")
  <1>1. task # None => task \in Tasks /\ task \in created
    BY ServiceStateIs
  <1>2. CASE task # None /\ CancelFuture(task)
    <2>1. /\ future[task] = "NEW" /\ future' = [future EXCEPT ![task] = "CANCELLED"]
      BY <1>2 DEF CancelFuture
    <2>2. future'[task] = "CANCELLED" /\ \A u \in Tasks : u # task => future'[u] = future[u]
      BY <1>1, <1>2, <2>1 DEF Base, Types
    <2>3. Types'
      BY <2>1 DEF Base, Types
    <2>4. ASSUME NEW u \in Tasks PROVE Works(u)'
      <3>1. Works(u)
        BY DEF Base
      <3>2. CASE u = task
        BY <1>1, <1>2, <2>1, <2>2, <3>1, <3>2 DEF Works, Reached
      <3>3. CASE u # task
        BY <2>2, <3>1, <3>3 DEF Works, Reached
      <3> QED BY <3>2, <3>3
    <2>5. Grows
      BY <2>1, <2>2 DEF Grows, Base, Types
    <2> QED BY <1>2, <2>1, <2>2, <2>3, <2>4, <2>5
  <1>3. CASE future' = future
    <2>1. Types' /\ Grows
      BY <1>3 DEF Base, Types, Grows
    <2>2. \A u \in Tasks : Works(u)'
      BY <1>3 DEF Base, Works
    <2>3. ~(task # None /\ CancelFuture(task))
      BY <1>1, <1>3 DEF CancelFuture, Base, Types
    <2> QED BY <1>3, <2>1, <2>2, <2>3
  <1> QED BY <1>2, <1>3

LEMMA CancelStep ==
  ASSUME Base, Cancel
  PROVE  Base' /\ ("stateListener" \notin CancelSites => (FlagFollows => FlagFollows'))
  <1>1. /\ fx \in Seq(AllOps) /\ Called(fx) /\ Method(fx) /\ Sounds(fx, created, pc, future)
        /\ fx # <<>> => fx[1].op = "callback" /\ fx[1].v \in CancelSites
    BY CalledOnFx DEF Cancel
  <1>2. /\ UNCHANGED <<pc, state, running, valueUpdate, created, task, bound>>
        /\ queue' = queue /\ rest' = rest
    BY DEF Cancel, propVars
  <1>3. /\ (task # None /\ CancelFuture(task)) \/ future' = future
        /\ ownState' \in {"READY", "CANCELLED"}
    BY DEF Cancel, CancelTask, Base, Types
  <1>4. /\ Types' /\ (\A u \in Tasks : Works(u)') /\ Grows
        /\ task # None /\ CancelFuture(task) => future'[task] = "CANCELLED"
        /\ task # None => (future[task] # "NEW" => future'[task] # "NEW")
    BY <1>2, <1>3, FutureCancelled
  <1>5. PICK r : /\ Plain(r) /\ (\A u : ~Flags(r, u)) /\ Sounds(r, created', pc', future')
                 /\ fx' = r \o fx
    <2>1. CASE task # None
      <3> DEFINE o == Op("setState", task, "CANCELLED")
      <3>1. CancelFuture(task) /\ fx' = <<o>> \o <<>> \o fx
        BY <2>1 DEF Cancel, CancelTask, CancelLambda
      <3>2. task \in Tasks /\ task \in created'
        BY <1>2, <2>1, ServiceStateIs
      <3>3. o \in AllOps /\ o.op = "setState"
        BY <3>2, OpIs DEF TaskOps, States
      <3>4. Sound(o, created', pc', future')
        BY <1>4, <2>1, <3>1, <3>2, LambdasSound
      <3> HIDE DEF o
      <3>5. <<o>> \in Seq(AllOps) /\ <<o>> \o <<>> = <<o>>
        BY <3>3, SingleIs, ConcatEmptySeq
      <3>6. Plain(<<o>>) /\ (\A u : ~Flags(<<o>>, u)) /\ Sounds(<<o>>, created', pc', future')
        BY <3>3, <3>4, SingleIs DEF Methods
      <3> QED BY <3>1, <3>5, <3>6
    <2>2. CASE task = None
      <3> DEFINE n == NotifyState(TRUE)
      <3>1. fx' = n \o fx
        BY <2>2 DEF Cancel
      <3>2. Plain(n) /\ (\A u : ~Flags(n, u)) /\ (\A cr, p, fu : Sounds(n, cr, p, fu))
        BY NotifyStateIs
      <3> HIDE DEF n
      <3> QED BY <3>1, <3>2
    <2> QED BY <2>1, <2>2
  <1>6. Method(fx') /\ \A op \in Methods : Has(fx', op) <=> Has(fx, op)
    BY <1>1, <1>5, MethodPushed
  <1>7. Sounds(fx', created', pc', future') /\ Lambdas(queue', created', pc', future')
    <2>1. Sounds(fx, created', pc', future') /\ Lambdas(queue, created', pc', future')
      BY <1>1, <1>4, SoundGrows DEF Base
    <2> QED BY <1>1, <1>2, <1>5, <2>1, StackedHas DEF Plain
  <1>8. Stage(fx', task', state', future')
    BY <1>1, <1>2, <1>4, <1>6, StageCalled
  <1>9. RestFollows(fx', task', rest')
    BY <1>2, <1>6 DEF Base, RestFollows, Methods
  <1>10. Base'
    BY <1>4, <1>6, <1>7, <1>8, <1>9 DEF Base
  <1>11. ASSUME "stateListener" \notin CancelSites, FlagFollows, task # None, ~Has(fx', "letGo")
         PROVE  ~Flags(fx', task) /\ running[task] = IsRunning(state[task])
    <2>1. ~Has(fx, "letGo")
      BY <1>6, <1>11 DEF Methods
    <2>2. ~Flags(fx, task)
      <3>1. Callback(task, "stateListener").v = "stateListener"
        BY DEF Callback, Op
      <3> QED BY <1>1, <1>11, <2>1, <3>1, FlagAtTop
    <2>3. ~Flags(fx', task)
      BY <1>1, <1>5, <2>2, StackedHas DEF Plain
    <2> QED BY <1>11, <2>1, <2>2, <2>3 DEF FlagFollows, RunningFollows
  <1> QED BY <1>2, <1>10, <1>11 DEF FlagFollows, RunningFollows

(* The operations that the methods begin with.                             *)
LEMMA RestartIs ==
  /\ Method(<<SvcOp("reset"), SvcOp("start")>>)
  /\ Method(<<SvcOp("letGo")>> \o <<SvcOp("reset"), SvcOp("start")>>)
  /\ Method(<<SvcOp("reset")>>) /\ Method(<<SvcOp("start")>>)
  <1> DEFINE l == SvcOp("letGo")
             e == SvcOp("reset")
             s == SvcOp("start")
  <1>1. /\ l \in AllOps /\ e \in AllOps /\ s \in AllOps
        /\ l.op = "letGo" /\ e.op = "reset" /\ s.op = "start"
    BY SvcOpIs DEF Methods
  <1> HIDE DEF l, e, s
  <1>2. Method(<<e, s>>)
    BY <1>1 DEF Method, Ordered, OnCallback, Has, Before, Methods
  <1>3. Method(<<l>> \o <<e, s>>)
    <2> DEFINE a == <<l>>
               c == <<e, s>>
               g == a \o c
    <2>1. /\ a \in Seq(AllOps) /\ Len(a) = 1 /\ a[1].op = "letGo"
          /\ c \in Seq(AllOps) /\ Len(c) = 2 /\ c[1].op = "reset" /\ c[2].op = "start"
      BY <1>1
    <2>2. Ordered(c) /\ OnCallback(c) /\ Has(c, "reset") /\ ~Has(c, "schedule")
      BY <1>1, <1>2 DEF Method, Has
    <2> HIDE DEF a, c
    <2>3. Ordered(a) /\ OnCallback(a) /\ ~Has(a, "schedule")
      BY <2>1 DEF Ordered, OnCallback, Has
    <2>4. Fits(a, c)
      BY <2>1 DEF Fits, Before, Methods
    <2>5. Ordered(g) /\ OnCallback(g)
      BY <2>1, <2>2, <2>3, <2>4, StackedOrder
    <2>6. Has(g, "reset") /\ ~Has(g, "schedule")
      BY <2>1, <2>2, <2>3, StackedHas
    <2> QED BY <2>5, <2>6 DEF Method, a, c
  <1>4. Method(<<e>>) /\ Method(<<s>>)
    BY <1>1 DEF Method, Ordered, OnCallback, Has, Before, Methods
  <1> QED BY <1>2, <1>3, <1>4 DEF l, e, s

LEMMA PlainPushed ==
  ASSUME NEW f \in Seq(AllOps), Method(f), ~Has(f, "schedule"), NEW r, Plain(r)
  PROVE  Method(r \o f) /\ \A op \in Methods : Has(r \o f, op) <=> Has(f, op)
  <1>1. r \in Seq(AllOps) /\ Ordered(r) /\ OnCallback(r) /\ \A op \in Methods : ~Has(r, op)
    BY PlainOps DEF Plain
  <1>2. \A op \in Methods : Has(r \o f, op) <=> Has(f, op)
    BY <1>1, StackedHas
  <1>3. \A i \in 1 .. Len(r) : r[i].op \notin Methods
    BY DEF Plain, Underway
  <1>4. Fits(r, f)
    BY <1>1, <1>3 DEF Fits
  <1>5. Ordered(r \o f) /\ OnCallback(r \o f)
    BY <1>1, <1>4, StackedOrder DEF Method
  <1> QED BY <1>2, <1>5 DEF Method, Methods

(* What restart() still has to do once it has cancelled its task.          *)
RestOfRestart == (IF task # None THEN <<SvcOp("letGo")>> ELSE <<>>)
                 \o <<SvcOp("reset"), SvcOp("start")>>

LEMMA RestOfRestartIs ==
  LET b == RestOfRestart
  IN  /\ b \in Seq(AllOps) /\ Method(b) /\ Len(b) >= 1
      /\ Has(b, "letGo") <=> task # None
      /\ Has(b, "reset") /\ ~Has(b, "unbindRest") /\ ~Has(b, "unbindValues") /\ ~Has(b, "execute") /\ ~Has(b, "schedule")
      /\ ~Has(b, "setState")
      /\ \A cr, p, fu : Sounds(b, cr, p, fu)
  <1> DEFINE l == SvcOp("letGo")
             e == SvcOp("reset")
             s == SvcOp("start")
             b == RestOfRestart
  <1>1. /\ l \in AllOps /\ e \in AllOps /\ s \in AllOps
        /\ l.op = "letGo" /\ e.op = "reset" /\ s.op = "start"
        /\ \A cr, p, fu : Sound(l, cr, p, fu) /\ Sound(e, cr, p, fu) /\ Sound(s, cr, p, fu)
    BY SvcOpIs DEF Methods
  <1>2. Method(<<e, s>>) /\ Method(<<l>> \o <<e, s>>)
    BY RestartIs
  <1>3. b = IF task # None THEN <<l>> \o <<e, s>> ELSE <<>> \o <<e, s>>
    BY DEF RestOfRestart
  <1> HIDE DEF l, e, s, b
  <1>4. /\ <<e, s>> \in Seq(AllOps) /\ \A cr, p, fu : Sounds(<<e, s>>, cr, p, fu)
        /\ \A op : Has(<<e, s>>, op) <=> op = "reset" \/ op = "start"
    BY <1>1, PairIs
  <1>5. CASE task = None
    <2>1. b = <<e, s>>
      BY <1>3, <1>4, <1>5, ConcatEmptySeq
    <2> QED BY <1>2, <1>4, <1>5, <2>1 DEF b
  <1>6. CASE task # None
    <2>1. b = <<l>> \o <<e, s>>
      BY <1>3, <1>6
    <2>2. /\ <<l>> \in Seq(AllOps) /\ (\A cr, p, fu : Sounds(<<l>>, cr, p, fu))
          /\ \A op : Has(<<l>>, op) <=> op = "letGo"
      BY <1>1, SingleIs
    <2>3. b \in Seq(AllOps) /\ Len(b) >= 1
      BY <1>1, <1>4, <2>1, <2>2, Stacked
    <2>4. \A cr, p, fu : Sounds(b, cr, p, fu)
      BY <1>4, <2>1, <2>2, StackedHas
    <2>5. \A op : Has(b, op) <=> Has(<<l>>, op) \/ Has(<<e, s>>, op)
      BY <1>4, <2>1, <2>2, StackedHas
    <2>6. /\ Has(b, "letGo") /\ Has(b, "reset") /\ ~Has(b, "unbindRest") /\ ~Has(b, "unbindValues") /\ ~Has(b, "execute")
          /\ ~Has(b, "schedule") /\ ~Has(b, "setState")
      BY <1>4, <2>2, <2>5
    <2> QED BY <1>2, <1>6, <2>1, <2>3, <2>4, <2>6 DEF b
  <1> QED BY <1>5, <1>6

LEMMA RestartStep ==
  ASSUME Base, ~Underway(fx), Restart
  PROVE  Base' /\ FlagFollows'
  <1> DEFINE b == RestOfRestart
  <1>1. fx \in Seq(AllOps) /\ Called(fx) /\ Method(fx) /\ Sounds(fx, created, pc, future)
    BY CalledOnFx DEF Restart
  <1>2. /\ UNCHANGED <<pc, state, running, valueUpdate, created, task, bound>>
        /\ queue' = queue /\ rest' = rest /\ ownState' = ownState /\ CancelTask(b)
    BY DEF Restart, propVars, svcVars, RestOfRestart
  <1>3. /\ b \in Seq(AllOps) /\ Method(b) /\ Len(b) >= 1
        /\ Has(b, "letGo") <=> task # None
        /\ Has(b, "reset") /\ ~Has(b, "unbindRest") /\ ~Has(b, "unbindValues") /\ ~Has(b, "execute") /\ ~Has(b, "schedule")
        /\ \A cr, p, fu : Sounds(b, cr, p, fu)
    BY RestOfRestartIs
  <1> HIDE DEF b
  <1>4. /\ (task # None /\ CancelFuture(task)) \/ future' = future
        /\ ownState' \in {"READY", "CANCELLED"}
    BY <1>2 DEF CancelTask, Base, Types
  <1>5. /\ Types' /\ (\A u \in Tasks : Works(u)') /\ Grows
        /\ task # None /\ CancelFuture(task) => future'[task] = "CANCELLED"
        /\ task # None => (future[task] # "NEW" => future'[task] # "NEW")
    BY <1>2, <1>4, FutureCancelled
  <1>6. task # None => future'[task] # "NEW"
    BY <1>2, <1>5 DEF CancelTask
  <1>7. b \o fx \in Seq(AllOps) /\ Method(b \o fx) /\ \A op \in Methods : Has(b \o fx, op) <=> Has(b, op)
    BY <1>1, <1>3, MethodCalled
  <1>8. PICK r : /\ Plain(r) /\ Sounds(r, created', pc', future')
                 /\ fx' = r \o (b \o fx)
    <2>1. CASE task # None /\ future[task] = "NEW"
      <3> DEFINE o == Op("setState", task, "CANCELLED")
      <3>1. CancelFuture(task) /\ fx' = <<o>> \o b \o fx
        BY <1>2, <2>1 DEF CancelTask, CancelLambda
      <3>2. task \in Tasks /\ task \in created'
        BY <1>2, <2>1, ServiceStateIs
      <3>3. o \in AllOps /\ o.op = "setState"
        BY <3>2, OpIs DEF TaskOps, States
      <3>4. Sound(o, created', pc', future')
        BY <1>5, <2>1, <3>1, <3>2, LambdasSound
      <3> HIDE DEF o
      <3>5. <<o>> \in Seq(AllOps) /\ (<<o>> \o b) \o fx = <<o>> \o (b \o fx)
        BY <1>1, <1>3, <3>3, SingleIs, ConcatAssociative
      <3>6. Plain(<<o>>) /\ Sounds(<<o>>, created', pc', future')
        BY <3>3, <3>4, SingleIs DEF Methods
      <3> QED BY <3>1, <3>5, <3>6
    <2>2. CASE ~(task # None /\ future[task] = "NEW")
      <3>1. fx' = b \o fx
        BY <1>2, <2>2 DEF CancelTask
      <3>2. <<>> \o (b \o fx) = b \o fx
        BY <1>7, ConcatEmptySeq
      <3> QED BY <3>1, <3>2, EmptyIs
    <2> QED BY <2>1, <2>2
  <1>9. Method(fx') /\ \A op \in Methods : Has(fx', op) <=> Has(b, op)
    <2> DEFINE g == b \o fx
    <2>1. g \in Seq(AllOps) /\ Method(g) /\ ~Has(g, "schedule") /\ fx' = r \o g
      BY <1>3, <1>7, <1>8 DEF Methods
    <2>2. \A op \in Methods : Has(g, op) <=> Has(b, op)
      BY <1>7
    <2> HIDE DEF g
    <2>3. Method(r \o g) /\ \A op \in Methods : Has(r \o g, op) <=> Has(g, op)
      BY <1>8, <2>1, PlainPushed
    <2> QED BY <2>1, <2>2, <2>3
  <1>10. Sounds(fx', created', pc', future') /\ Lambdas(queue', created', pc', future')
    <2>1. Sounds(fx, created', pc', future') /\ Lambdas(queue, created', pc', future')
      BY <1>1, <1>5, SoundGrows DEF Base
    <2>2. Sounds(b \o fx, created', pc', future')
      BY <1>1, <1>3, <2>1, StackedHas
    <2> QED BY <1>2, <1>7, <1>8, <2>1, <2>2, StackedHas DEF Plain
  <1>11. Stage(fx', task', state', future')
    BY <1>2, <1>3, <1>6, <1>9 DEF Stage, Methods
  <1>12. RestFollows(fx', task', rest')
    BY <1>2, <1>3, <1>9 DEF RestFollows, Methods, Base
  <1>13. Base'
    BY <1>5, <1>9, <1>10, <1>11, <1>12 DEF Base
  <1>14. FlagFollows'
    BY <1>2, <1>3, <1>9 DEF FlagFollows, RunningFollows, Methods
  <1> QED BY <1>13, <1>14

LEMMA CallResetStep ==
  ASSUME Base, ~Underway(fx), CallReset
  PROVE  Base' /\ (FlagFollows => FlagFollows')
  <1> DEFINE e == SvcOp("reset")
  <1>1. fx \in Seq(AllOps) /\ Called(fx) /\ Method(fx) /\ Sounds(fx, created, pc, future)
    BY CalledOnFx DEF CallReset
  <1>2. /\ fx' = <<e>> \o fx /\ serviceState \notin Active
        /\ UNCHANGED <<future, pc, state, running, valueUpdate>> /\ queue' = queue
        /\ created' = created /\ task' = task /\ bound' = bound /\ ownState' = ownState /\ rest' = rest
    BY DEF CallReset, taskVars, futureVars, propVars, svcVars
  <1>3. /\ e \in AllOps /\ e.op = "reset" /\ \A cr, p, fu : Sound(e, cr, p, fu)
    BY SvcOpIs DEF Methods
  <1>4. Method(<<e>>)
    BY RestartIs
  <1> HIDE DEF e
  <1>5. /\ <<e>> \in Seq(AllOps) /\ Len(<<e>>) >= 1 /\ (\A cr, p, fu : Sounds(<<e>>, cr, p, fu))
        /\ \A op : Has(<<e>>, op) <=> op = "reset"
        /\ \A t : ~Flags(<<e>>, t)
    BY <1>3, SingleIs
  <1>6. Method(fx') /\ \A op \in Methods : Has(fx', op) <=> op = "reset"
    BY <1>1, <1>2, <1>4, <1>5, MethodCalled
  <1>7. fx'[1] = e
    BY <1>1, <1>2, <1>3, Pushed
  <1>8. Sounds(fx', created', pc', future') /\ Lambdas(queue', created', pc', future')
    BY <1>1, <1>2, <1>5, StackedHas DEF Base
  <1>9. Types' /\ \A u \in Tasks : Works(u)'
    BY <1>2 DEF Base, Types, Works
  <1>10. Stage(fx', task', state', future') /\ RestFollows(fx', task', rest')
    <2>1. task # None => state[task] \notin Active
      BY <1>2, ServiceStateIs
    <2>2. Stage(fx', task', state', future')
      BY <1>2, <1>3, <1>6, <1>7, <2>1 DEF Stage, Methods
    <2>3. Has(fx', "reset")
      BY <1>3, <1>6, <1>7 DEF Methods
    <2> QED BY <1>2, <2>2, <2>3 DEF RestFollows, Base
  <1>11. Base'
    BY <1>6, <1>8, <1>9, <1>10 DEF Base
  <1>12. ~Has(fx, "letGo")
    BY DEF Underway, Has, Methods
  <1>13. Flags(fx', task) <=> Flags(fx, task)
    BY <1>1, <1>2, <1>5, StackedHas
  <1> QED BY <1>2, <1>3, <1>7, <1>11, <1>12, <1>13 DEF FlagFollows, RunningFollows

LEMMA CallStartStep ==
  ASSUME Base, ~Underway(fx), CallStart
  PROVE  Base' /\ (FlagFollows => FlagFollows')
  <1> DEFINE s == SvcOp("start")
  <1>1. fx \in Seq(AllOps) /\ Called(fx) /\ Method(fx) /\ Sounds(fx, created, pc, future)
    BY CalledOnFx DEF CallStart
  <1>2. /\ fx' = <<s>> \o fx /\ serviceState = "READY"
        /\ UNCHANGED <<future, pc, state, running, valueUpdate>> /\ queue' = queue
        /\ created' = created /\ task' = task /\ bound' = bound /\ ownState' = ownState /\ rest' = rest
    BY DEF CallStart, taskVars, futureVars, propVars, svcVars
  <1>3. /\ s \in AllOps /\ s.op = "start" /\ \A cr, p, fu : Sound(s, cr, p, fu)
    BY SvcOpIs DEF Methods
  <1>4. Method(<<s>>)
    BY RestartIs
  <1> HIDE DEF s
  <1>5. /\ <<s>> \in Seq(AllOps) /\ Len(<<s>>) >= 1 /\ (\A cr, p, fu : Sounds(<<s>>, cr, p, fu))
        /\ \A op : Has(<<s>>, op) <=> op = "start"
        /\ \A t : ~Flags(<<s>>, t)
    BY <1>3, SingleIs
  <1>6. Method(fx') /\ \A op \in Methods : Has(fx', op) <=> op = "start"
    BY <1>1, <1>2, <1>4, <1>5, MethodCalled
  <1>7. \A op \in Methods : ~Has(fx, op)
    BY DEF Underway, Has
  <1>8. Sounds(fx', created', pc', future') /\ Lambdas(queue', created', pc', future')
    BY <1>1, <1>2, <1>5, StackedHas DEF Base
  <1>9. Types' /\ \A u \in Tasks : Works(u)'
    BY <1>2 DEF Base, Types, Works
  <1>10. Stage(fx', task', state', future') /\ RestFollows(fx', task', rest')
    BY <1>2, <1>6, <1>7 DEF Base, Stage, RestFollows, Methods
  <1>11. Base'
    BY <1>6, <1>8, <1>9, <1>10 DEF Base
  <1>12. ASSUME FlagFollows, task # None
         PROVE  ~Flags(fx', task) /\ running[task] = IsRunning(state[task])
    <2>1. ~Has(fx, "letGo")
      BY <1>7 DEF Methods
    <2>2. state[task] = "READY"
      BY <1>2, <1>12, ServiceStateIs
    <2>3. ASSUME Flags(fx, task) PROVE FALSE
      <3>1. fx # <<>> /\ FlagOnTop(Tail(fx), task, state)
        BY <1>1, <1>12, <2>1, <2>3, FlagAtTop DEF Called
      <3>2. Tail(fx) # <<>> /\ Tail(fx)[1] = Op("setRunning", task, "READY")
        BY <2>2, <3>1 DEF FlagOnTop
      <3>3. Sounds(Tail(fx), created, pc, future) /\ Tail(fx) \in Seq(AllOps)
        BY <3>1, TopIs
      <3>4. Sound(Tail(fx)[1], created, pc, future)
        BY <3>2, <3>3, Below
      <3>5. Tail(fx)[1].op = "setRunning" /\ Tail(fx)[1].v = "READY"
        BY <3>2 DEF Op
      <3> QED BY <3>4, <3>5 DEF Sound
    <2>4. ~Flags(fx', task)
      BY <1>1, <1>2, <1>5, <2>3, StackedHas
    <2> QED BY <1>12, <2>1, <2>3, <2>4 DEF FlagFollows, RunningFollows
  <1> QED BY <1>2, <1>11, <1>12 DEF FlagFollows, RunningFollows

LEMMA StartOnAnyThreadStep ==
  ASSUME Base, StartOnAnyThread
  PROVE  Base' /\ FlagFollows'
  <1>1. PICK t \in Tasks : NewTask(t)
    BY DEF StartOnAnyThread
  <1>2. /\ fx = <<>> /\ fx' = <<>> /\ serviceState = "READY" /\ queue' = Append(queue, ScheduleLambda)
        /\ UNCHANGED <<future, pc, state, running, valueUpdate>>
    BY DEF StartOnAnyThread, runLater, taskVars, futureVars, propVars
  <1>3. /\ Types' /\ (\A u \in Tasks : Works(u)') /\ Grows
        /\ task' = t /\ rest' = RestOf(t) /\ t \notin created /\ running'[t] = IsRunning(state'[t])
    BY <1>1, <1>2, TaskCreated
  <1>4. Lambda(ScheduleLambda, created', pc', future')
    BY ScheduleLambdaIs DEF Lambda
  <1>5. Lambdas(queue', created', pc', future')
    BY <1>2, <1>3, <1>4, SoundGrows, QueueGrows DEF Base
  <1>6. Sounds(fx', created', pc', future') /\ Method(fx') /\ (\A op : ~Has(fx', op)) /\ ~Flags(fx', t)
    BY <1>2, EmptyIs DEF Base
  <1>7. Stage(fx', task', state', future') /\ RestFollows(fx', task', rest')
    BY <1>3, <1>6 DEF Stage, RestFollows, RestOf
  <1>8. Base'
    BY <1>3, <1>5, <1>6, <1>7 DEF Base
  <1> QED BY <1>3, <1>6, <1>8 DEF FlagFollows, RunningFollows
-----------------------------------------------------------------------------
LEMMA InitBase == SInit => Base /\ FlagFollows
  <1> SUFFICES ASSUME SInit PROVE Base /\ FlagFollows
    OBVIOUS
  <1>1. /\ fx = <<>> /\ queue = <<>> /\ task = None /\ rest = RestOf(None)
    BY DEF SInit, TInit
  <1>2. Types
    BY DEF SInit, TInit, Types, PCs, States, Values
  <1>3. \A t \in Tasks : Works(t)
    BY DEF SInit, TInit, Works, Reached
  <1>4. Sounds(fx, created, pc, future)
    BY <1>1, EmptyIs
  <1>5. Lambdas(queue, created, pc, future)
    BY <1>1 DEF Lambdas
  <1>6. \A op : ~Has(fx, op)
    BY <1>1, EmptyIs
  <1>7. Method(fx)
    BY <1>1, <1>6 DEF Method, Ordered, OnCallback
  <1>8. Stage(fx, task, state, future) /\ RestFollows(fx, task, rest)
    BY <1>1, <1>6 DEF Stage, RestFollows, RestOf
  <1> QED BY <1>1, <1>2, <1>3, <1>4, <1>5, <1>7, <1>8 DEF Base, FlagFollows, RunningFollows

LEMMA StutterStep ==
  ASSUME Base, UNCHANGED vars
  PROVE  Base' /\ (FlagFollows => FlagFollows')
  <1>1. /\ UNCHANGED <<future, pc, state, running, valueUpdate>> /\ queue' = queue /\ fx' = fx
        /\ created' = created /\ task' = task /\ bound' = bound /\ ownState' = ownState /\ rest' = rest
    BY DEF vars, tvars, taskVars, futureVars, propVars, svcVars
  <1>2. Types' /\ \A u \in Tasks : Works(u)'
    BY <1>1 DEF Base, Types, Works
  <1> QED BY <1>1, <1>2 DEF Base, FlagFollows

(* Base is inductive, and the running flag follows the state, too, if no   *)
(* listener of the state cancels.                                          *)
LEMMA BaseStep ==
  ASSUME Base, [OrderlyNext]_vars
  PROVE  Base' /\ ("stateListener" \notin CancelSites => (FlagFollows => FlagFollows'))
  <1>1. ASSUME TaskStep PROVE Base' /\ (FlagFollows => FlagFollows')
    <2>1. UNCHANGED svcVars
      BY <1>1 DEF TaskStep
    <2>2. ASSUME NEW t \in Tasks, Worker(t) PROVE Base' /\ (FlagFollows => FlagFollows')
      <3>1. Working(t)
        BY <2>1, <2>2, WorkerWorks DEF Base
      <3> QED BY <3>1, WorkerStep
    <2>3. ASSUME NEW t \in Tasks, FxStep(t) PROVE Base' /\ (FlagFollows => FlagFollows')
      BY <2>1, <2>3, SetStateStep, SetRunningStep, QuietSteps DEF FxStep
    <2> QED BY <1>1, <2>1, <2>2, <2>3, RunLambdaStep, ReturnStep DEF TaskStep, FxThread
  <1>2. ASSUME SvcFxStep PROVE Base' /\ (FlagFollows => FlagFollows')
    BY <1>2, LetGoStep, ResetStep, UnbindValuesStep, UnbindRestStep, StartStep, ScheduleStep, ExecuteStep DEF SvcFxStep
  <1>3. ASSUME Cancel
        PROVE  Base' /\ ("stateListener" \notin CancelSites => (FlagFollows => FlagFollows'))
    BY <1>3, CancelStep
  <1>4. ASSUME StartOnAnyThread PROVE Base' /\ (FlagFollows => FlagFollows')
    BY <1>4, StartOnAnyThreadStep
  <1>5. ASSUME ~Underway(fx), Restart \/ CallReset \/ CallStart
        PROVE  Base' /\ (FlagFollows => FlagFollows')
    BY <1>5, RestartStep, CallResetStep, CallStartStep
  <1>6. ASSUME UNCHANGED vars PROVE Base' /\ (FlagFollows => FlagFollows')
    BY <1>6, StutterStep
  <1> QED BY <1>1, <1>2, <1>3, <1>4, <1>5, <1>6 DEF OrderlyNext

(* Calls made in events of their own do not overlap.                       *)
LEMMA EventsAreOrderly ==
  ASSUME Base, CallSites \subseteq {"event"}
  PROVE  [SNext]_vars => [OrderlyNext]_vars
  <1>1. ASSUME OnFx(CallSites) PROVE fx = <<>>
    <2> SUFFICES ASSUME fx # <<>> PROVE FALSE
      OBVIOUS
    <2>1. Head(fx).op = "callback" /\ Head(fx).v = "event"
      BY <1>1 DEF OnFx
    <2> QED BY <2>1, TopIs DEF Sound
  <1>2. Restart \/ CallReset \/ CallStart => ~Underway(fx)
    BY <1>1, EmptyIs DEF Restart, CallReset, CallStart
  <1> QED BY <1>2 DEF SNext, AppCall, OrderlyNext

LEMMA BaseHolds == OrderlySpec => []Base
  <1>1. SInit => Base
    BY InitBase
  <1>2. Base /\ [OrderlyNext]_vars => Base'
    BY BaseStep
  <1> QED BY <1>1, <1>2, PTL DEF OrderlySpec

(* With restart(), reset() and start() called in events of their own the   *)
(* specification is one of calls that do not overlap.                      *)
LEMMA BaseHoldsForEvents ==
  ASSUME CallSites \subseteq {"event"}
  PROVE  SSpec => []Base
  <1>1. SInit => Base
    BY InitBase
  <1>2. Base /\ [SNext]_vars => Base'
    BY EventsAreOrderly, BaseStep
  <1> QED BY <1>1, <1>2, PTL DEF SSpec

LEMMA FlagHolds ==
  ASSUME "stateListener" \notin CancelSites
  PROVE  OrderlySpec => [](Base /\ FlagFollows)
  <1>1. SInit => Base /\ FlagFollows
    BY InitBase
  <1>2. Base /\ FlagFollows /\ [OrderlyNext]_vars => Base' /\ FlagFollows'
    BY BaseStep
  <1> QED BY <1>1, <1>2, PTL DEF OrderlySpec

LEMMA FlagHoldsForEvents ==
  ASSUME CallSites \subseteq {"event"}, "stateListener" \notin CancelSites
  PROVE  SSpec => [](Base /\ FlagFollows)
  <1>1. SInit => Base /\ FlagFollows
    BY InitBase
  <1>2. Base /\ FlagFollows /\ [SNext]_vars => Base' /\ FlagFollows'
    BY EventsAreOrderly, BaseStep
  <1> QED BY <1>1, <1>2, PTL DEF SSpec

LEMMA NoOrphanThen == Base => NoOrphan
  <1> SUFFICES ASSUME Base, NEW t \in created \ {task},
                      pc[t] \in {"submitted", "started", "call", "postUpdate"}
               PROVE  future[t] = "CANCELLED"
    BY DEF NoOrphan
  <1>1. Works(t)
    BY DEF Base, Types
  <1> QED BY <1>1 DEF Works, Late

LEMMA BoundTogetherThen == Base /\ FlagFollows => BoundTogether
  <1> SUFFICES ASSUME Base, FlagFollows, fx = <<>>
               PROVE  bound = task /\ rest = RestOf(task) /\ (serviceRunning <=> serviceState \in Active)
    BY DEF BoundTogether
  <1>1. (\A op : ~Has(fx, op)) /\ ~Flags(fx, task)
    BY EmptyIs
  <1>2. bound = task /\ rest = RestOf(task)
    BY <1>1 DEF Base, Types, RestFollows, RestOf
  <1>3. CASE task = None
    BY <1>2, <1>3, ServiceStateIs DEF serviceRunning, RestOf
  <1>4. CASE task # None
    <2>1. running[task] = IsRunning(state[task])
      BY <1>1, <1>4 DEF FlagFollows, RunningFollows
    <2>2. serviceState = state[task]
      BY <1>4, ServiceStateIs
    <2> QED BY <1>2, <1>4, <2>1, <2>2 DEF serviceRunning, RestOf, IsRunning, Active
  <1> QED BY <1>2, <1>3, <1>4

(* A task that the service has let go of was not executed, was cancelled   *)
(* or has done its work: restart() cancels before it forgets, reset()      *)
(* refuses while the task is active.  So it is wherever start(), restart() *)
(* and reset() are called, as long as they are not called while one of     *)
(* them is under way.                                                      *)
THEOREM NothingOrphaned == OrderlySpec => []NoOrphan
  BY BaseHolds, NoOrphanThen, PTL

(* The same, of the service that is called in FX events of its own.        *)
THEOREM NothingOrphanedByEvents == CallSites \subseteq {"event"} => (SSpec => []NoOrphan)
  <1> SUFFICES ASSUME CallSites \subseteq {"event"} PROVE SSpec => []NoOrphan
    OBVIOUS
  <1> QED BY BaseHoldsForEvents, NoOrphanThen, PTL

(* Between events all properties of the service are those of its task, and *)
(* running is TRUE in SCHEDULED and RUNNING only, if the calls of start(), *)
(* restart() and reset() do not overlap and no listener of the state       *)
(* cancels (its cancel() would be done before the running flag of the      *)
(* state that it was told of is set).                                      *)
THEOREM PropertiesTogether ==
  "stateListener" \notin CancelSites => (OrderlySpec => []BoundTogether)
  <1> SUFFICES ASSUME "stateListener" \notin CancelSites PROVE OrderlySpec => []BoundTogether
    OBVIOUS
  <1> QED BY FlagHolds, BoundTogetherThen, PTL

(* The same, of the service that is called in FX events of its own.        *)
THEOREM PropertiesTogetherInEvents ==
  CallSites \subseteq {"event"} /\ "stateListener" \notin CancelSites => (SSpec => []BoundTogether)
  <1> SUFFICES ASSUME CallSites \subseteq {"event"}, "stateListener" \notin CancelSites
               PROVE  SSpec => []BoundTogether
    OBVIOUS
  <1> QED BY FlagHoldsForEvents, BoundTogetherThen, PTL
-----------------------------------------------------------------------------
(* From here on calls may overlap: start(), restart() and reset() are      *)
(* called anywhere, also while one of them is under way.  What the service *)
(* shows, and what happens to each of its tasks, is in order all the same. *)

Finals == {"RUNNING", "SUCCEEDED", "FAILED"}    \* the states that end a lambda of call()
Calm   == {"READY", "SCHEDULED", "CANCELLED"}   \* the states before RUNNING, and CANCELLED
Early  == {"new", "submitted", "started"}       \* before call() posts its start ...
Mid    == {"call", "postUpdate", "returned", "postSucceeded", "threw"}  \* ... and its end

Sets(o, t, s)    == o.op = "setState" /\ o.t = t /\ o.v = s
On(f, t, s)      == \E i \in 1 .. Len(f) : Sets(f[i], t, s)
LastOp(l)        == l[Len(l)]
InQueue(q, t, s) == \E i \in 1 .. Len(q) : Sets(LastOp(q[i]), t, s)
Due(t, s)        == InQueue(queue, t, s) \/ On(fx, t, s)

(* What is left of a lambda of call() is at the bottom of the stack.       *)
FinalLast(f) == \A i \in 1 .. Len(f) : f[i].op = "setState" /\ f[i].v \in Finals => i = Len(f)

(* start() goes on to schedule its task without a callback in between.     *)
ScheduleFirst(f) == \A i \in 1 .. Len(f) :
                      f[i].op = "schedule" => i = 1 /\ Len(f) >= 2 /\ f[2].op = "execute"

Posted == {ScheduleLambda} \cup
          UNION {{StartLambda(t), SucceedLambda(t), FailLambda(t), UpdateLambda(t)} : t \in Tasks}

(* The queue: call() posts its lambdas in order and each once, and the     *)
(* start on another thread posts before any task does.                     *)
Posts(q) ==
  /\ q \in Seq(Posted)
  /\ \A i \in 1 .. Len(q) : q[i] = ScheduleLambda => i = 1
  /\ \A t \in Tasks : \A i, j \in 1 .. Len(q) :
       /\ \A s \in Finals : Sets(LastOp(q[i]), t, s) /\ Sets(LastOp(q[j]), t, s) => i = j
       /\ \A s \in {"SUCCEEDED", "FAILED"} :
            Sets(LastOp(q[i]), t, "RUNNING") /\ Sets(LastOp(q[j]), t, s) => i < j

Scheduling(q) == \E i \in 1 .. Len(q) : q[i] = ScheduleLambda

Lives(t) == /\ t \notin created => pc[t] = "new" /\ future[t] = "NEW" /\ state[t] = "READY"
            /\ Reached(t, state[t], pc, future)
            /\ future[t] \in {"NORMAL", "EXCEPTIONAL"} => pc[t] = "done"

(* What there is, whoever calls.                                           *)
Core == /\ Types
        /\ Sounds(fx, created, pc, future)
        /\ Lambdas(queue, created, pc, future)
        /\ \A t \in Tasks : Lives(t)
        /\ OnCallback(fx) /\ ScheduleFirst(fx) /\ FinalLast(fx)
        /\ Posts(queue)
        /\ startedOnce = (created # {})
        /\ created = {} => queue = <<>>

(* How far a task has come: which lambdas are still to run, and the state  *)
(* that goes with it.                                                      *)
Progress(t) ==
  /\ pc[t] \in Early => (\A s \in Finals : ~Due(t, s)) /\ state[t] \in Calm
  /\ pc[t] \in Mid => ~Due(t, "SUCCEEDED") /\ ~Due(t, "FAILED")
  /\ ~(Due(t, "SUCCEEDED") /\ Due(t, "FAILED"))
  /\ \A s \in Finals : ~(InQueue(queue, t, s) /\ On(fx, t, s))
  /\ InQueue(queue, t, "RUNNING") =>
       state[t] \in Calm /\ ~On(fx, t, "SUCCEEDED") /\ ~On(fx, t, "FAILED")
  /\ On(fx, t, "RUNNING") =>
       state[t] \in Calm /\ (On(fx, t, "SCHEDULED") \/ state[t] # "READY")
  /\ (pc[t] \in Mid \/ Due(t, "SUCCEEDED") \/ Due(t, "FAILED")) /\ ~Due(t, "RUNNING")
       => state[t] \in {"RUNNING", "CANCELLED"}
  /\ On(fx, t, "SCHEDULED") => state[t] \in Calm

(* The task that is to be scheduled is not further than that.              *)
ToSchedule ==
  /\ Has(fx, "schedule") => task = None \/ state[task] \in Calm
  /\ Scheduling(queue) => \A t \in Tasks : /\ state[t] \in Calm
                                           /\ \A s \in Finals : ~On(fx, t, s)

(* The next method's operation on the stack is the execution of the task.  *)
Executes(f) == \E p \in 1 .. Len(f) : /\ f[p].op = "execute"
                                      /\ \A i \in 1 .. Len(f) : i < p => f[i].op \notin Methods

(* The future and what of its outcome is still to be shown.                *)
Shown(t) ==
  /\ future[t] = "CANCELLED" => On(fx, t, "CANCELLED") \/ state[t] = "CANCELLED"
  /\ pc[t] = "done" => future[t] # "NEW"
  /\ pc[t] = "set" \/ future[t] = "NORMAL"
       => Due(t, "SUCCEEDED") \/ state[t] \in {"SUCCEEDED", "CANCELLED"}
  /\ pc[t] = "setException" \/ future[t] = "EXCEPTIONAL"
       => Due(t, "FAILED") \/ state[t] \in {"FAILED", "CANCELLED"}

(* A task that was scheduled is executed, unless it is cancelled first.    *)
ToExecute(t) ==
  /\ pc[t] = "new" /\ On(fx, t, "SCHEDULED")
       => /\ fx # <<>> /\ Sets(fx[1], t, "SCHEDULED") /\ ~On(Tail(fx), t, "SCHEDULED")
          /\ task = t /\ Executes(fx)
  /\ pc[t] = "new" /\ future[t] = "NEW" /\ state[t] = "SCHEDULED" => task = t /\ Executes(fx)

IInv == Core /\ ToSchedule /\ \A t \in Tasks : Progress(t) /\ Shown(t) /\ ToExecute(t)
-----------------------------------------------------------------------------
NoState(r) == \A i \in 1 .. Len(r) : r[i].op # "setState"
NoFinal(r) == \A i \in 1 .. Len(r) : ~(r[i].op = "setState" /\ r[i].v \in Finals)

(* States announced on a stack put together of two.                        *)
LEMMA StackedOn ==
  ASSUME NEW r \in Seq(AllOps), NEW h \in Seq(AllOps)
  PROVE  /\ \A t, s : On(r \o h, t, s) <=> On(r, t, s) \/ On(h, t, s)
         /\ NoFinal(r) /\ FinalLast(h) => FinalLast(r \o h)
         /\ ~Underway(r) /\ Executes(h) => Executes(r \o h)
  <1> DEFINE g == r \o h
             n == Len(r)
  <1>1. /\ g \in Seq(AllOps) /\ Len(g) = n + Len(h) /\ n \in Nat /\ Len(h) \in Nat
        /\ \A i \in 1 .. n : i \in 1 .. Len(g) /\ g[i] = r[i]
        /\ \A i \in 1 .. Len(h) : i + n \in 1 .. Len(g) /\ g[i + n] = h[i]
        /\ \A i \in 1 .. Len(g) : \/ i \in 1 .. n /\ g[i] = r[i]
                                  \/ i - n \in 1 .. Len(h) /\ i > n /\ g[i] = h[i - n]
    BY Stacked
  <1> HIDE DEF g
  <1>2. ASSUME NEW t, NEW s PROVE On(g, t, s) <=> On(r, t, s) \/ On(h, t, s)
    <2>1. On(g, t, s) => On(r, t, s) \/ On(h, t, s)
      BY <1>1 DEF On
    <2>2. On(r, t, s) => On(g, t, s)
      BY <1>1 DEF On
    <2>3. On(h, t, s) => On(g, t, s)
      BY <1>1 DEF On
    <2> QED BY <2>1, <2>2, <2>3
  <1>3. ASSUME NoFinal(r), FinalLast(h) PROVE FinalLast(g)
    <2> SUFFICES ASSUME NEW i \in 1 .. Len(g), g[i].op = "setState", g[i].v \in Finals
                 PROVE  i = Len(g)
      BY DEF FinalLast
    <2>1. ~(i \in 1 .. n /\ g[i] = r[i])
      BY <1>3 DEF NoFinal
    <2>2. i - n \in 1 .. Len(h) /\ g[i] = h[i - n]
      BY <1>1, <2>1
    <2>3. i - n = Len(h)
      BY <1>3, <2>2 DEF FinalLast
    <2> QED BY <1>1, <2>3
  <1>4. ASSUME ~Underway(r), Executes(h) PROVE Executes(g)
    <2>1. PICK p \in 1 .. Len(h) : /\ h[p].op = "execute"
                                   /\ \A i \in 1 .. Len(h) : i < p => h[i].op \notin Methods
      BY <1>4 DEF Executes
    <2>2. p + n \in 1 .. Len(g) /\ g[p + n].op = "execute"
      BY <1>1, <2>1
    <2>3. ASSUME NEW i \in 1 .. Len(g), i < p + n PROVE g[i].op \notin Methods
      <3>1. CASE i \in 1 .. n /\ g[i] = r[i]
        BY <1>4, <3>1 DEF Underway
      <3>2. CASE i - n \in 1 .. Len(h) /\ i > n /\ g[i] = h[i - n]
        <4>1. i - n < p
          BY <1>1, <2>3
        <4> QED BY <2>1, <3>2, <4>1
      <3> QED BY <1>1, <3>1, <3>2
    <2> QED BY <2>2, <2>3 DEF Executes
  <1> QED BY <1>2, <1>3, <1>4 DEF g

(* ... on the stack without its top.                                       *)
LEMMA BelowOn ==
  ASSUME NEW f \in Seq(AllOps), f # <<>>
  PROVE  /\ \A t, s : On(f, t, s) <=> Sets(f[1], t, s) \/ On(Tail(f), t, s)
         /\ FinalLast(f) => FinalLast(Tail(f))
         /\ FinalLast(f) /\ f[1].op = "setState" /\ f[1].v \in Finals => Tail(f) = <<>>
         /\ Executes(f) => f[1].op = "execute" \/ (f[1].op \notin Methods /\ Executes(Tail(f)))
         /\ f[1].op = "execute" => Executes(f)
         /\ ScheduleFirst(f) =>
              /\ ~Has(Tail(f), "schedule")
              /\ f[1].op = "schedule" => Tail(f) # <<>> /\ Tail(f)[1].op = "execute"
         /\ OnCallback(f) => /\ OnCallback(Tail(f))
                             /\ f[1].op \in Methods /\ Len(Tail(f)) >= 1 =>
                                  Tail(f)[1].op \in Methods \cup {"callback"}
  <1> DEFINE h == Tail(f)
  <1>1. h \in Seq(AllOps)
    OBVIOUS
  <1>2. Len(f) \in Nat /\ Len(f) >= 1 /\ Len(h) = Len(f) - 1
    BY EmptySeq
  <1>3. \A i \in 1 .. Len(h) : h[i] = f[i + 1]
    BY <1>2
  <1> HIDE DEF h
  <1>4. /\ \A i \in 1 .. Len(h) : i + 1 \in 1 .. Len(f) /\ h[i] = f[i + 1]
        /\ \A i \in 1 .. Len(f) : i = 1 \/ (i - 1 \in 1 .. Len(h) /\ f[i] = h[i - 1])
        /\ 1 \in 1 .. Len(f)
    BY <1>2, <1>3
  <1>5. \A t, s : On(f, t, s) <=> Sets(f[1], t, s) \/ On(h, t, s)
    BY <1>4 DEF On
  <1>6. FinalLast(f) => FinalLast(h)
    BY <1>2, <1>4 DEF FinalLast
  <1>7. ASSUME FinalLast(f), f[1].op = "setState", f[1].v \in Finals PROVE h = <<>>
    <2>1. Len(f) = 1
      BY <1>4, <1>7 DEF FinalLast
    <2> QED BY <1>1, <1>2, <2>1, EmptySeq
  <1>8. ASSUME Executes(f), f[1].op # "execute" PROVE f[1].op \notin Methods /\ Executes(h)
    <2>1. PICK p \in 1 .. Len(f) : /\ f[p].op = "execute"
                                   /\ \A i \in 1 .. Len(f) : i < p => f[i].op \notin Methods
      BY <1>8 DEF Executes
    <2>2. p # 1 /\ p > 1
      BY <1>2, <1>8, <2>1
    <2>3. p - 1 \in 1 .. Len(h) /\ h[p - 1].op = "execute" /\ f[1].op \notin Methods
      BY <1>4, <2>1, <2>2
    <2>4. ASSUME NEW i \in 1 .. Len(h), i < p - 1 PROVE h[i].op \notin Methods
      <3>1. i + 1 \in 1 .. Len(f) /\ i + 1 < p /\ h[i] = f[i + 1]
        BY <1>4, <2>4
      <3> QED BY <2>1, <3>1
    <2> QED BY <2>3, <2>4 DEF Executes
  <1>9. f[1].op = "execute" => Executes(f)
    <2>1. \A i \in 1 .. Len(f) : ~(i < 1)
      BY <1>2
    <2> QED BY <1>4, <2>1 DEF Executes
  <1>10. ASSUME OnCallback(f)
         PROVE  /\ OnCallback(h)
                /\ f[1].op \in Methods /\ Len(h) >= 1 => h[1].op \in Methods \cup {"callback"}
    <2>1. ASSUME NEW i \in 1 .. Len(h), h[i].op \in Methods, i # Len(h)
          PROVE  h[i + 1].op \in Methods \cup {"callback"}
      <3>1. i + 1 \in 1 .. Len(f) /\ i + 1 # Len(f) /\ h[i] = f[i + 1]
        BY <1>2, <1>4, <2>1
      <3>2. f[(i + 1) + 1].op \in Methods \cup {"callback"}
        BY <1>10, <2>1, <3>1 DEF OnCallback
      <3>3. i + 1 \in 1 .. Len(h)
        BY <1>2, <2>1
      <3>4. h[i + 1] = f[(i + 1) + 1]
        BY <1>4, <3>3
      <3> QED BY <3>2, <3>4
    <2>2. ASSUME f[1].op \in Methods, Len(h) >= 1 PROVE h[1].op \in Methods \cup {"callback"}
      <3>1. 1 \in 1 .. Len(h) /\ 1 # Len(f) /\ 1 + 1 = 2
        BY <1>2, <2>2
      <3>2. f[2].op \in Methods \cup {"callback"}
        BY <1>4, <1>10, <2>2, <3>1 DEF OnCallback
      <3>3. h[1] = f[2]
        BY <1>4, <3>1
      <3> QED BY <3>2, <3>3
    <2> QED BY <2>1, <2>2 DEF OnCallback
  <1>11. ASSUME ScheduleFirst(f)
         PROVE  /\ ~Has(h, "schedule")
                /\ f[1].op = "schedule" => h # <<>> /\ h[1].op = "execute"
    <2>1. ~Has(h, "schedule")
      <3> SUFFICES ASSUME NEW i \in 1 .. Len(h), h[i].op = "schedule" PROVE FALSE
        BY DEF Has
      <3>1. i + 1 = 1
        BY <1>4, <1>11 DEF ScheduleFirst
      <3> QED BY <3>1
    <2>2. ASSUME f[1].op = "schedule" PROVE h # <<>> /\ h[1].op = "execute"
      <3>1. Len(f) >= 2 /\ f[2].op = "execute"
        BY <1>4, <1>11, <2>2 DEF ScheduleFirst
      <3>2. 1 \in 1 .. Len(h) /\ 1 + 1 = 2
        BY <1>2, <3>1
      <3>3. h[1] = f[2]
        BY <1>4, <3>2
      <3> QED BY <3>1, <3>2, <3>3
    <2> QED BY <2>1, <2>2
  <1> QED BY <1>5, <1>6, <1>7, <1>8, <1>9, <1>10, <1>11 DEF h

(* Methods on callbacks, on a stack put together of two.                   *)
LEMMA StackedCallback ==
  ASSUME NEW r \in Seq(AllOps), NEW h \in Seq(AllOps), OnCallback(r), OnCallback(h),
         Len(r) >= 1 /\ Len(h) >= 1 /\ r[Len(r)].op \in Methods
           => h[1].op \in Methods \cup {"callback"}
  PROVE  OnCallback(r \o h)
  <1> DEFINE g == r \o h
             n == Len(r)
  <1>1. /\ g \in Seq(AllOps) /\ Len(g) = n + Len(h) /\ n \in Nat /\ Len(h) \in Nat
        /\ \A i \in 1 .. n : i \in 1 .. Len(g) /\ g[i] = r[i]
        /\ \A i \in 1 .. Len(h) : i + n \in 1 .. Len(g) /\ g[i + n] = h[i]
        /\ \A i \in 1 .. Len(g) : \/ i \in 1 .. n /\ g[i] = r[i]
                                  \/ i - n \in 1 .. Len(h) /\ i > n /\ g[i] = h[i - n]
    BY Stacked
  <1> HIDE DEF g
  <1> SUFFICES ASSUME NEW i \in 1 .. Len(g), g[i].op \in Methods, i # Len(g)
               PROVE  g[i + 1].op \in Methods \cup {"callback"}
    BY DEF OnCallback, g
  <1>2. CASE i \in 1 .. n /\ i # n
    <2>1. i + 1 \in 1 .. n
      BY <1>1, <1>2
    <2> QED BY <1>1, <1>2, <2>1 DEF OnCallback
  <1>3. CASE i \in 1 .. n /\ i = n
    <2>1. 1 \in 1 .. Len(h) /\ 1 + n = i + 1 /\ n >= 1 /\ Len(h) >= 1
      BY <1>1, <1>3
    <2>2. g[1 + n] = h[1]
      BY <1>1, <2>1
    <2> QED BY <1>1, <1>3, <2>1, <2>2
  <1>4. CASE i - n \in 1 .. Len(h) /\ i > n /\ g[i] = h[i - n]
    <2>1. i - n + 1 \in 1 .. Len(h) /\ i - n # Len(h) /\ i - n + 1 + n = i + 1
      BY <1>1, <1>4
    <2>2. h[i - n + 1].op \in Methods \cup {"callback"}
      BY <1>4, <2>1 DEF OnCallback
    <2>3. g[i - n + 1 + n] = h[i - n + 1]
      BY <1>1, <2>1
    <2> QED BY <2>1, <2>2, <2>3
  <1> QED BY <1>1, <1>2, <1>3, <1>4

LEMMA Least ==
  ASSUME NEW S \in SUBSET Nat, S # {}
  PROVE  \E m \in S : \A n \in S : m <= n
  <1> DEFINE R == OpToRel(<, Nat)
  <1>1. IsWellFoundedOn(R, Nat)
    BY NatLessThanWellFounded
  <1>2. \A m, n \in Nat : n < m => <<n, m>> \in R
    BY DEF OpToRel
  <1> HIDE DEF R
  <1>3. PICK m \in S : \A n \in S : ~(<<n, m>> \in R)
    BY <1>1, WFMin
  <1>4. ASSUME NEW n \in S PROVE m <= n
    <2>1. m \in Nat /\ n \in Nat
      OBVIOUS
    <2>2. ~(n < m)
      BY <1>2, <1>3, <2>1
    <2> QED BY <2>1, <2>2
  <1> QED BY <1>4

(* Up to the next callback there are only operations of methods.           *)
LEMMA MethodsAbove ==
  ASSUME NEW f \in Seq(AllOps), OnCallback(f), NEW n \in 0 .. Len(f), f # <<>>, f[1].op \in Methods,
         \A i \in 1 .. n : f[i].op # "callback"
  PROVE  \A i \in 1 .. n : f[i].op \in Methods
  <1> DEFINE S == {i \in 1 .. n : f[i].op \notin Methods}
  <1> SUFFICES ASSUME S # {} PROVE FALSE
    OBVIOUS
  <1>1. S \in SUBSET Nat /\ Len(f) \in Nat
    OBVIOUS
  <1>2. PICK m \in S : \A i \in S : m <= i
    BY <1>1, Least
  <1>3. m \in 1 .. n /\ f[m].op \notin Methods /\ m # 1
    BY <1>2
  <1> HIDE DEF S
  <1>4. m - 1 \in 1 .. n /\ ~(m <= m - 1) /\ m - 1 \in 1 .. Len(f) /\ m - 1 # Len(f) /\ (m - 1) + 1 = m
    BY <1>1, <1>3
  <1>5. f[m - 1].op \in Methods
    BY <1>2, <1>4 DEF S
  <1>6. f[m].op \in Methods \cup {"callback"}
    BY <1>4, <1>5 DEF OnCallback
  <1> QED BY <1>3, <1>6

(* A method that throws drops operations of methods only.                  *)
LEMMA ThrowDrops ==
  ASSUME fx \in Seq(AllOps), OnCallback(fx), fx # <<>>, fx[1].op \in Methods, Throw
  PROVE  \E n \in 1 .. Len(fx) :
           /\ \A i \in 1 .. n : fx[i].op \in Methods
           /\ fx' \in Seq(AllOps) /\ Len(fx') = Len(fx) - n
           /\ \A i \in 1 .. Len(fx') : fx'[i] = fx[n + i]
           /\ fx' # <<>> => fx'[1].op = "callback"
  <1> DEFINE C == Callbacks(fx)
             f == fx'
  <1>1. C \in SUBSET Nat /\ Len(fx) \in Nat /\ Len(fx) >= 1
    BY EmptySeq DEF Callbacks
  <1>2. CASE C = {}
    <2>1. f = <<>>
      BY <1>2 DEF Throw, Unwound
    <2>2. \A i \in 1 .. Len(fx) : fx[i].op \in Methods
      <3>1. Len(fx) \in 0 .. Len(fx) /\ \A i \in 1 .. Len(fx) : fx[i].op # "callback"
        BY <1>1, <1>2 DEF Callbacks
      <3> QED BY <3>1, MethodsAbove
    <2>3. f \in Seq(AllOps) /\ Len(f) = 0 /\ Len(fx) - Len(fx) = 0 /\ Len(fx) \in 1 .. Len(fx)
      BY <1>1, <2>1
    <2> HIDE DEF f
    <2>4. f \in Seq(AllOps) /\ Len(f) = Len(fx) - Len(fx) /\ (\A i \in 1 .. Len(f) : f[i] = fx[Len(fx) + i])
      BY <2>3
    <2> QED BY <2>1, <2>2, <2>3, <2>4 DEF f
  <1>3. CASE C # {}
    <2>1. PICK k \in C : \A j \in C : k <= j
      BY <1>1, <1>3, Least
    <2>2. k \in 1 .. Len(fx) /\ fx[k].op = "callback" /\ k # 1
      BY <2>1 DEF Callbacks, Methods
    <2> DEFINE n == k - 1
    <2>3. n \in 1 .. Len(fx) /\ n \in 0 .. Len(fx) /\ n \in Nat /\ n < Len(fx) /\ n <= Len(fx) /\ n + 1 = k
      BY <1>1, <2>2
    <2>4. \A i \in 1 .. n : fx[i].op # "callback"
      BY <1>1, <2>1, <2>2 DEF Callbacks
    <2> HIDE DEF n
    <2>5. \A i \in 1 .. n : fx[i].op \in Methods
      BY <2>3, <2>4, MethodsAbove
    <2>6. f = SubSeq(fx, n + 1, Len(fx))
      BY <2>2, <2>3, <2>4, UnwoundIs DEF Throw
    <2>7. f \in Seq(AllOps) /\ Len(f) = Len(fx) - n /\ \A i \in 1 .. Len(fx) - n : f[i] = fx[n + i]
      <3>1. n + 1 \in 1 .. Len(fx) + 1 /\ Len(fx) \in 0 .. Len(fx)
        BY <1>1, <2>3
      <3> QED BY <1>1, <2>3, <2>6, <3>1, SubSeqProperties
    <2> HIDE DEF f
    <2>8. f[1].op = "callback"
      <3>1. 1 \in 1 .. Len(fx) - n
        BY <1>1, <2>3
      <3> QED BY <2>2, <2>3, <2>7, <3>1
    <2> QED BY <2>3, <2>5, <2>7, <2>8 DEF f
  <1> QED BY <1>2, <1>3

(* So nothing that tasks have to do is lost.                               *)
LEMMA ThrowKeeps ==
  ASSUME fx \in Seq(AllOps), OnCallback(fx), FinalLast(fx), ScheduleFirst(fx),
         fx # <<>>, fx[1].op \in Methods, Throw
  PROVE  /\ fx' \in Seq(AllOps) /\ OnCallback(fx') /\ FinalLast(fx') /\ ~Has(fx', "schedule")
         /\ \A t, s : On(fx', t, s) <=> On(fx, t, s)
         /\ \A cr, p, fu : Sounds(fx, cr, p, fu) => Sounds(fx', cr, p, fu)
  <1> DEFINE f == fx'
  <1>1. PICK n \in 1 .. Len(fx) :
          /\ \A i \in 1 .. n : fx[i].op \in Methods
          /\ f \in Seq(AllOps) /\ Len(f) = Len(fx) - n
          /\ \A i \in 1 .. Len(f) : f[i] = fx[n + i]
          /\ f # <<>> => f[1].op = "callback"
    BY ThrowDrops
  <1> HIDE DEF f
  <1>2. Len(fx) \in Nat /\ n \in Nat /\ n >= 1 /\ Len(f) \in Nat /\ Len(f) = Len(fx) - n
    BY <1>1
  <1>3. /\ \A i \in 1 .. Len(f) : n + i \in 1 .. Len(fx) /\ f[i] = fx[n + i]
        /\ \A i \in 1 .. Len(fx) : i \in 1 .. n \/ (i - n \in 1 .. Len(f) /\ f[i - n] = fx[i])
    BY <1>1, <1>2
  <1>4. OnCallback(f)
    <2> SUFFICES ASSUME NEW i \in 1 .. Len(f), f[i].op \in Methods, i # Len(f)
                 PROVE  f[i + 1].op \in Methods \cup {"callback"}
      BY DEF OnCallback
    <2>1. n + i \in 1 .. Len(fx) /\ n + i # Len(fx) /\ i \in Nat /\ i + 1 \in 1 .. Len(f) /\ n + (i + 1) = (n + i) + 1
      BY <1>2
    <2>2. fx[(n + i) + 1].op \in Methods \cup {"callback"}
      BY <1>3, <2>1 DEF OnCallback
    <2>3. f[i + 1] = fx[n + (i + 1)]
      BY <1>3, <2>1
    <2> QED BY <2>1, <2>2, <2>3
  <1>5. FinalLast(f)
    <2> SUFFICES ASSUME NEW i \in 1 .. Len(f), f[i].op = "setState", f[i].v \in Finals
                 PROVE  i = Len(f)
      BY DEF FinalLast
    <2>1. n + i = Len(fx)
      BY <1>3 DEF FinalLast
    <2> QED BY <1>2, <2>1
  <1>6. ASSUME NEW t, NEW s PROVE On(f, t, s) <=> On(fx, t, s)
    <2>1. On(f, t, s) => On(fx, t, s)
      BY <1>3 DEF On
    <2>2. ASSUME NEW i \in 1 .. Len(fx), Sets(fx[i], t, s) PROVE i \notin 1 .. n
      BY <1>1, <2>2 DEF Sets, Methods
    <2>3. On(fx, t, s) => On(f, t, s)
      BY <1>3, <2>2 DEF On
    <2> QED BY <2>1, <2>3
  <1>7. \A cr, p, fu : Sounds(fx, cr, p, fu) => Sounds(f, cr, p, fu)
    BY <1>1, <1>3 DEF Sounds
  <1>8. ~Has(f, "schedule")
    <2> SUFFICES ASSUME Has(f, "schedule") PROVE FALSE
      OBVIOUS
    <2>1. PICK i \in 1 .. Len(f) : f[i].op = "schedule"
      BY DEF Has
    <2>2. n + i = 1
      BY <1>3, <2>1 DEF ScheduleFirst
    <2> QED BY <1>2, <2>2
  <1> QED BY <1>1, <1>4, <1>5, <1>6, <1>7, <1>8 DEF f
-----------------------------------------------------------------------------
LEMMA CoreTop ==
  ASSUME Core, fx # <<>>
  PROVE  /\ fx \in Seq(AllOps) /\ Tail(fx) \in Seq(AllOps) /\ Head(fx) = fx[1] /\ fx[1] \in AllOps
         /\ Sound(fx[1], created, pc, future) /\ Sounds(Tail(fx), created, pc, future)
         /\ OnCallback(Tail(fx)) /\ FinalLast(Tail(fx)) /\ ~Has(Tail(fx), "schedule")
         /\ Has(fx, "schedule") <=> fx[1].op = "schedule"
  <1>1. fx \in Seq(AllOps) /\ Sounds(fx, created, pc, future)
    BY DEF Core, Sounds
  <1>2. OnCallback(fx) /\ ScheduleFirst(fx) /\ FinalLast(fx)
    BY DEF Core
  <1>3. OnCallback(Tail(fx)) /\ FinalLast(Tail(fx)) /\ ~Has(Tail(fx), "schedule")
    BY <1>1, <1>2, BelowOn
  <1> QED BY <1>1, <1>3, Below

LEMMA ServiceStateOf ==
  ASSUME Types
  PROVE  /\ task # None => task \in created /\ task \in Tasks /\ serviceState = state[task]
         /\ task = None => serviceState = ownState /\ serviceState \in {"READY", "CANCELLED"}
  BY DEF Types, serviceState

(* Operations put on a stack that set no state but CANCELLED.              *)
OnlyCancels(r) == \A i \in 1 .. Len(r) : r[i].op = "setState" => r[i].v = "CANCELLED"

LEMMA Restacked ==
  ASSUME NEW r \in Seq(AllOps), NEW h \in Seq(AllOps), OnlyCancels(r), OnCallback(r),
         OnCallback(h), FinalLast(h), ~Has(r, "schedule"), ~Has(h, "schedule"),
         Len(r) >= 1 /\ Len(h) >= 1 /\ r[Len(r)].op \in Methods
           => h[1].op \in Methods \cup {"callback"},
         NEW g, g = r \o h
  PROVE  /\ g \in Seq(AllOps) /\ OnCallback(g) /\ ScheduleFirst(g) /\ FinalLast(g) /\ ~Has(g, "schedule")
         /\ \A t : \A s \in Finals \cup {"SCHEDULED"} : On(g, t, s) <=> On(h, t, s)
         /\ \A t : On(h, t, "CANCELLED") => On(g, t, "CANCELLED")
  <1>1. g \in Seq(AllOps) /\ OnCallback(g)
    BY Stacked, StackedCallback
  <1>2. ~Has(g, "schedule")
    BY StackedHas
  <1>3. NoFinal(r) /\ \A t : \A s \in Finals \cup {"SCHEDULED"} : ~On(r, t, s)
    BY DEF OnlyCancels, NoFinal, On, Sets, Finals
  <1>4. /\ FinalLast(g)
        /\ \A t : \A s \in Finals \cup {"SCHEDULED"} : On(g, t, s) <=> On(h, t, s)
        /\ \A t : On(h, t, "CANCELLED") => On(g, t, "CANCELLED")
    BY <1>3, StackedOn
  <1>5. ScheduleFirst(g)
    BY <1>2 DEF ScheduleFirst, Has
  <1> QED BY <1>1, <1>2, <1>4, <1>5

(* The stack changes and the states of the tasks do not.                   *)
LEMMA StackChanged ==
  ASSUME IInv, Types', \A t \in Tasks : Lives(t)', Grows,
         UNCHANGED <<state, queue>>,
         startedOnce' = (created' # {}), created' = {} => created = {},
         \A t \in Tasks : pc'[t] = pc[t] \/ (pc[t] = "new" /\ pc'[t] = "submitted"),
         \A t \in Tasks : \/ future'[t] = future[t]
                          \/ future'[t] = "CANCELLED" /\ On(fx', t, "CANCELLED"),
         Sounds(fx', created', pc', future'), OnCallback(fx'), ScheduleFirst(fx'), FinalLast(fx'),
         \A t \in Tasks : \A s \in Finals \cup {"SCHEDULED"} : On(fx', t, s) <=> On(fx, t, s),
         \A t \in Tasks : On(fx, t, "CANCELLED") => On(fx', t, "CANCELLED"),
         Has(fx', "schedule") => task' = None \/ state[task'] \in Calm,
         \A t \in Tasks : ToExecute(t)'
  PROVE  IInv'
  <1>1. Core'
    <2>1. Lambdas(queue', created', pc', future')
      BY SoundGrows DEF IInv, Core
    <2>2. Posts(queue') /\ (created' = {} => queue' = <<>>)
      BY DEF IInv, Core
    <2> QED BY <2>1, <2>2 DEF Core
  <1>2. ToSchedule'
    BY DEF IInv, ToSchedule
  <1>3. ASSUME NEW t \in Tasks PROVE Progress(t)' /\ Shown(t)'
    <2>1. Progress(t) /\ Shown(t)
      BY DEF IInv
    <2>2. \A s \in Finals : Due(t, s)' <=> Due(t, s)
      BY DEF Due
    <2>3. pc'[t] = pc[t] \/ (pc[t] \in Early /\ pc'[t] \in Early)
      BY DEF Early
    <2>4. Progress(t)'
      <3>1. /\ pc'[t] \in Early => pc[t] \in Early
            /\ pc'[t] \in Mid => pc[t] \in Mid
        BY <2>3 DEF Early, Mid
      <3> QED BY <2>1, <2>2, <3>1 DEF Progress, Finals
    <2>5. Shown(t)'
      <3>1. /\ pc'[t] = "done" => pc[t] = "done"
            /\ pc'[t] = "set" => pc[t] = "set"
            /\ pc'[t] = "setException" => pc[t] = "setException"
        OBVIOUS
      <3>2. future'[t] # "CANCELLED" => future'[t] = future[t]
        OBVIOUS
      <3> QED BY <2>1, <2>2, <3>1, <3>2 DEF Shown, Finals
    <2> QED BY <2>4, <2>5
  <1> QED BY <1>1, <1>2, <1>3 DEF IInv

(* The operation at the top is done, which was not one that sets a state.  *)
LEMMA LightTop ==
  ASSUME IInv, fx # <<>>, fx[1].op \in TaskOps \ {"setState"},
         NEW r, Plain(r), NoState(r), Sounds(r, created, pc, future), fx' = r \o Tail(fx),
         UNCHANGED <<future, pc, state, queue, svcVars>>, Types'
  PROVE  IInv'
  <1> DEFINE h == Tail(fx)
  <1>1. /\ fx \in Seq(AllOps) /\ h \in Seq(AllOps) /\ fx[1] \in AllOps
        /\ Sounds(h, created, pc, future) /\ OnCallback(h) /\ FinalLast(h) /\ ~Has(h, "schedule")
    BY CoreTop DEF IInv
  <1>2. r \in Seq(AllOps) /\ OnCallback(r) /\ ~Has(r, "schedule")
    BY PlainOps DEF Plain, Methods
  <1>3. OnlyCancels(r) /\ (Len(r) >= 1 => r[Len(r)].op \notin Methods)
    BY <1>2 DEF NoState, OnlyCancels, Plain, Underway
  <1>4. \A t, s : On(fx, t, s) <=> On(h, t, s)
    BY <1>1, BelowOn DEF Sets
  <1> HIDE DEF h
  <1>5. fx' = r \o h
    BY DEF h
  <1>6. /\ OnCallback(fx') /\ ScheduleFirst(fx') /\ FinalLast(fx') /\ ~Has(fx', "schedule")
        /\ \A t : \A s \in Finals \cup {"SCHEDULED"} : On(fx', t, s) <=> On(h, t, s)
        /\ \A t : On(h, t, "CANCELLED") => On(fx', t, "CANCELLED")
    BY <1>1, <1>2, <1>3, <1>5, Restacked
  <1>7. Sounds(fx', created, pc, future)
    BY <1>1, <1>2, <1>5, StackedHas
  <1>8. /\ task' = task /\ created' = created /\ startedOnce' = startedOnce
    BY DEF svcVars
  <1>9. ASSUME NEW t \in Tasks PROVE ToExecute(t)' /\ Lives(t)'
    <2>1. ToExecute(t) /\ Lives(t)
      BY DEF IInv, Core
    <2>2. ~Sets(fx[1], t, "SCHEDULED")
      BY DEF Sets
    <2>3. pc[t] = "new" => ~On(fx', t, "SCHEDULED")
      BY <1>4, <1>6, <2>1, <2>2 DEF ToExecute
    <2>4. Executes(fx) => Executes(fx')
      <3>1. Executes(fx) => Executes(h)
        BY <1>1, BelowOn DEF h, TaskOps, Methods
      <3> QED BY <1>1, <1>2, <1>5, <3>1, StackedOn DEF Plain
    <2> QED BY <1>8, <2>1, <2>3, <2>4 DEF ToExecute, Lives
  <1>10. Grows /\ startedOnce' = (created' # {})
    BY <1>8 DEF Grows, IInv, Core, Types
  <1> QED BY <1>4, <1>6, <1>7, <1>8, <1>9, <1>10, StackChanged

LEMMA NoStateIs ==
  /\ NoState(<<>>)
  /\ \A o \in AllOps : o.op # "setState" => NoState(<<o>>)
  <1>1. NoState(<<>>)
    BY DEF NoState
  <1>2. ASSUME NEW o \in AllOps, o.op # "setState" PROVE NoState(<<o>>)
    <2>1. Len(<<o>>) = 1 /\ <<o>>[1] = o
      BY SingleIs
    <2> QED BY <1>2, <2>1 DEF NoState
  <1> QED BY <1>1, <1>2

(* The steps of a task that set no state.                                  *)
LEMMA LightSteps ==
  ASSUME IInv, NEW t \in Tasks,
         setRunning(t) \/ fireEvent(t) \/ setValue(t) \/ _setException(t) \/ TakeUpdate(t),
         UNCHANGED svcVars
  PROVE  IInv' /\ state' = state
  <1>1. /\ fx # <<>> /\ fx[1].op \in TaskOps \ {"callback", "setState"} /\ fx[1].t = t
        /\ t \in created /\ Arg = fx[1].v
    <2>1. /\ fx # <<>> /\ Head(fx).t = t
          /\ Head(fx).op \in {"setRunning", "fireEvent", "setValue", "setException", "takeUpdate"}
      BY DEF setRunning, fireEvent, setValue, _setException, TakeUpdate, Top
    <2> QED BY <2>1, CoreTop DEF TaskOps, Sound, Arg, IInv
  <1>2. UNCHANGED <<future, pc, queue, state>>
    BY DEF setRunning, fireEvent, setValue, _setException, TakeUpdate, futureVars
  <1>3. /\ created \subseteq Tasks /\ created' = created /\ task' = task
        /\ bound' = bound /\ ownState' = ownState
    BY DEF IInv, Core, Types, svcVars
  <1>4. ASSUME NEW r, Plain(r), NoState(r), Sounds(r, created, pc, future), fx' = r \o Tail(fx), Types'
        PROVE  IInv'
    BY <1>1, <1>2, <1>4, LightTop
  <1>5. ASSUME NEW site \in Sites \ {"event"}, NEW r, r = <<>> \/ r = <<Callback(t, site)>>,
               fx' = r \o Tail(fx), Types'
        PROVE  IInv'
    <2> DEFINE c == Callback(t, site)
    <2>1. c \in AllOps /\ c.op = "callback"
      BY OpIs DEF Callback, TaskOps
    <2>2. Plain(<<c>>) /\ Sounds(<<c>>, created, pc, future)
      BY <1>1, <1>3, NotifyIs
    <2> HIDE DEF c
    <2>3. NoState(<<c>>)
      BY <2>1, NoStateIs
    <2>4. Plain(r) /\ NoState(r) /\ Sounds(r, created, pc, future)
      BY <1>5, <2>2, <2>3, EmptyIs, NoStateIs DEF c
    <2> QED BY <1>4, <1>5, <2>4
  <1>6. CASE setRunning(t)
    <2> DEFINE r == Notify(running[t] # running'[t], t, "runningListener")
    <2>1. /\ fx' = r \o Tail(fx)
          /\ valueUpdate' = valueUpdate /\ running' = [running EXCEPT ![t] = IsRunning(Arg)]
      BY <1>6 DEF setRunning, Continue
    <2>2. Types'
      BY <1>2, <1>3, <2>1 DEF IInv, Core, Types, IsRunning
    <2>3. r = <<>> \/ r = <<Callback(t, "runningListener")>>
      BY DEF Notify
    <2> HIDE DEF r
    <2> QED BY <1>2, <1>5, <2>1, <2>2, <2>3 DEF Sites
  <1>7. CASE fireEvent(t)
    <2>1. fx' = <<Callback(t, "handler")>> \o Tail(fx) /\ UNCHANGED <<running, valueUpdate>>
      BY <1>7 DEF fireEvent, Continue
    <2>2. Types'
      BY <1>2, <1>3, <2>1 DEF IInv, Core, Types
    <2> QED BY <1>2, <1>5, <2>1, <2>2 DEF Sites
  <1>8. CASE setValue(t)
    <2> DEFINE r == Notify(value[t] # Arg, t, "valueListener")
    <2>1. fx' = r \o Tail(fx) /\ UNCHANGED <<running, valueUpdate>>
      BY <1>8 DEF setValue, Continue
    <2>2. Types'
      BY <1>2, <1>3, <2>1 DEF IInv, Core, Types
    <2>3. r = <<>> \/ r = <<Callback(t, "valueListener")>>
      BY DEF Notify
    <2> HIDE DEF r
    <2> QED BY <1>2, <1>5, <2>1, <2>2, <2>3 DEF Sites
  <1>9. CASE _setException(t)
    <2>1. fx' = <<Callback(t, "valueListener")>> \o Tail(fx) /\ UNCHANGED <<running, valueUpdate>>
      BY <1>9 DEF _setException, Continue
    <2>2. Types'
      BY <1>2, <1>3, <2>1 DEF IInv, Core, Types
    <2> QED BY <1>2, <1>5, <2>1, <2>2 DEF Sites
  <1>10. CASE TakeUpdate(t)
    <2> DEFINE o == Op("setValue", t, valueUpdate[t])
    <2>1. /\ fx' = <<o>> \o Tail(fx) /\ valueUpdate' = [valueUpdate EXCEPT ![t] = "null"]
          /\ running' = running
      BY <1>10 DEF TakeUpdate, Continue
    <2>2. Types'
      BY <1>2, <1>3, <2>1 DEF IInv, Core, Types, Values
    <2>3. valueUpdate[t] \in Values
      BY DEF IInv, Core, Types
    <2>4. o \in AllOps /\ o.op = "setValue" /\ o.t = t
      BY <2>3, OpIs DEF TaskOps
    <2> HIDE DEF o
    <2>5. Sound(o, created, pc, future)
      BY <1>1, <2>4 DEF Sound
    <2>6. Plain(<<o>>) /\ Sounds(<<o>>, created, pc, future) /\ NoState(<<o>>)
      BY <2>4, <2>5, SingleIs, NoStateIs DEF Methods
    <2> QED BY <1>2, <1>4, <2>1, <2>2, <2>6
  <1> QED BY <1>2, <1>6, <1>7, <1>8, <1>9, <1>10

LEMMA CallbackReturns ==
  ASSUME IInv, Return, UNCHANGED svcVars
  PROVE  IInv' /\ state' = state
  <1>1. fx # <<>> /\ fx[1].op = "callback"
    <2>1. fx # <<>> /\ Head(fx).op = "callback"
      BY DEF Return
    <2> QED BY <2>1, CoreTop DEF IInv
  <1>2. /\ fx' = <<>> \o Tail(fx)
        /\ UNCHANGED <<future, pc, queue, state, running, valueUpdate>>
        /\ created' = created /\ task' = task /\ bound' = bound /\ ownState' = ownState
    BY DEF Return, Continue, taskVars, futureVars, propVars, svcVars
  <1>3. Types'
    BY <1>2 DEF IInv, Core, Types
  <1> QED BY <1>1, <1>2, <1>3, LightTop, EmptyIs, NoStateIs DEF TaskOps

LEMMA SuccessorsAre ==
  /\ Successors("READY") = {"SCHEDULED", "CANCELLED"}
  /\ Successors("SCHEDULED") = {"RUNNING", "CANCELLED"}
  /\ Successors("RUNNING") = {"SUCCEEDED", "CANCELLED", "FAILED"}
  /\ \A s \in States \ {"CANCELLED"} : "CANCELLED" \in Successors(s)
  BY DEF Successors, Ended, States

(* The operation that sets a state finds the task in the state before.     *)
LEMMA SetStateFinds ==
  ASSUME IInv, NEW t \in Tasks, setState(t)
  PROVE  /\ fx # <<>> /\ fx \in Seq(AllOps) /\ fx[1].op = "setState" /\ fx[1].t = t /\ Arg = fx[1].v
         /\ t \in created /\ Arg \in States \ {"READY"} /\ Reached(t, Arg, pc, future)
         /\ On(fx, t, Arg)
         /\ Arg \in Finals => Tail(fx) = <<>>
         /\ ~Ignored(t) => /\ state[t] # Arg => Arg \in Successors(state[t])
                           /\ Arg = "SCHEDULED" => state[t] \in {"READY", "SCHEDULED"}
                           /\ Arg = "RUNNING" => state[t] = "SCHEDULED"
                           /\ Arg \in {"SUCCEEDED", "FAILED"} => state[t] = "RUNNING"
  <1>1. Core /\ Progress(t) /\ Types
    BY DEF IInv, Core
  <1>2. fx # <<>> /\ Head(fx).op = "setState" /\ Head(fx).t = t
    BY DEF setState, Top
  <1>3. /\ fx \in Seq(AllOps) /\ fx[1].op = "setState" /\ fx[1].t = t /\ Arg = fx[1].v
        /\ t \in created /\ Arg \in States \ {"READY"} /\ Reached(t, Arg, pc, future)
    BY <1>1, <1>2, CoreTop DEF Arg, Sound, TaskOps
  <1>4. Sets(fx[1], t, Arg) /\ \A s : Sets(fx[1], t, s) <=> s = Arg
    BY <1>3 DEF Sets
  <1>5. On(fx, t, Arg) /\ \A s : On(fx, t, s) <=> s = Arg \/ On(Tail(fx), t, s)
    BY <1>2, <1>3, <1>4, BelowOn
  <1>6. Arg \in Finals => Tail(fx) = <<>>
    BY <1>1, <1>2, <1>3, BelowOn DEF Core
  <1>7. Tail(fx) = <<>> => \A s : ~On(Tail(fx), t, s)
    BY DEF On
  <1>8. state[t] \in States /\ (~Ignored(t) => state[t] # "CANCELLED")
    BY <1>1 DEF Types, Ignored
  <1>9. ASSUME ~Ignored(t)
        PROVE  /\ Arg = "SCHEDULED" => state[t] \in {"READY", "SCHEDULED"}
               /\ Arg = "RUNNING" => state[t] = "SCHEDULED"
               /\ Arg \in {"SUCCEEDED", "FAILED"} => state[t] = "RUNNING"
    <2>1. Arg = "SCHEDULED" => state[t] \in {"READY", "SCHEDULED"}
      BY <1>1, <1>5, <1>8, <1>9 DEF Progress, Calm
    <2>2. ASSUME Arg = "RUNNING" PROVE state[t] = "SCHEDULED"
      <3>1. ~On(fx, t, "SCHEDULED")
        BY <1>5, <1>6, <1>7, <2>2 DEF Finals
      <3> QED BY <1>1, <1>5, <1>8, <1>9, <2>2, <3>1 DEF Progress, Calm
    <2>3. ASSUME Arg \in {"SUCCEEDED", "FAILED"} PROVE state[t] = "RUNNING"
      <3>1. ~On(fx, t, "RUNNING")
        BY <1>5, <1>6, <1>7, <2>3 DEF Finals
      <3>2. ~InQueue(queue, t, "RUNNING")
        BY <1>1, <1>5, <2>3 DEF Progress
      <3> QED BY <1>1, <1>5, <1>8, <1>9, <2>3, <3>1, <3>2 DEF Progress, Due
    <2> QED BY <2>1, <2>2, <2>3
  <1>10. ~Ignored(t) /\ state[t] # Arg => Arg \in Successors(state[t])
    <2>1. Arg \in {"SCHEDULED", "RUNNING", "SUCCEEDED", "CANCELLED", "FAILED"}
      BY <1>3 DEF States
    <2> QED BY <1>8, <1>9, <2>1, SuccessorsAre
  <1> QED BY <1>2, <1>3, <1>5, <1>6, <1>9, <1>10

(* A state is set, or ignored: the task goes on from there.                *)
LEMMA StateGoesOn ==
  ASSUME IInv, NEW t \in Tasks, setState(t), NEW h, h = Tail(fx),
         \A u \in Tasks : \A s : On(fx', u, s) <=> On(h, u, s), Executes(fx) => Executes(fx'),
         UNCHANGED <<future, pc, queue, svcVars>>,
         state' \in [Tasks -> States], \A u \in Tasks : u # t => state'[u] = state[u],
         \/ Ignored(t) /\ state'[t] = "CANCELLED"
         \/ ~Ignored(t) /\ state'[t] = Arg
  PROVE  \A u \in Tasks : Progress(u)' /\ Shown(u)' /\ ToExecute(u)' /\ Lives(u)'
  <1>1. Core /\ Types /\ task' = task /\ created' = created
    BY DEF IInv, Core, svcVars
  <1>2. /\ fx # <<>> /\ fx \in Seq(AllOps) /\ fx[1].op = "setState" /\ fx[1].t = t /\ Arg = fx[1].v
        /\ t \in created /\ Arg \in States \ {"READY"} /\ Reached(t, Arg, pc, future)
        /\ On(fx, t, Arg)
        /\ Arg \in Finals => h = <<>>
        /\ ~Ignored(t) => /\ Arg = "SCHEDULED" => state[t] \in {"READY", "SCHEDULED"}
                          /\ Arg = "RUNNING" => state[t] = "SCHEDULED"
                          /\ Arg \in {"SUCCEEDED", "FAILED"} => state[t] = "RUNNING"
    BY SetStateFinds
  <1>3. \A u, s : On(fx, u, s) <=> (u = t /\ s = Arg) \/ On(h, u, s)
    BY <1>2, BelowOn DEF Sets
  <1>4. h = <<>> => \A s : ~On(h, t, s)
    BY DEF On
  <1> HIDE DEF Arg
  <1>5. ASSUME NEW u \in Tasks, u # t PROVE Progress(u)' /\ Shown(u)' /\ ToExecute(u)' /\ Lives(u)'
    <2>1. Progress(u) /\ Shown(u) /\ ToExecute(u) /\ Lives(u)
      BY DEF IInv, Core
    <2>2. \A s : (On(fx', u, s) <=> On(fx, u, s)) /\ (Due(u, s)' <=> Due(u, s))
      BY <1>3, <1>5 DEF Due
    <2>3. state'[u] = state[u] /\ future' = future /\ pc' = pc /\ queue' = queue
      BY <1>5
    <2>4. pc[u] = "new" => ~On(fx, u, "SCHEDULED")
      BY <1>2, <1>5, <2>1 DEF ToExecute, Sets
    <2>5. Progress(u)'
      BY <2>1, <2>2, <2>3 DEF Progress
    <2>6. Shown(u)'
      BY <2>1, <2>2, <2>3 DEF Shown
    <2>7. ToExecute(u)'
      BY <1>1, <2>1, <2>2, <2>3, <2>4 DEF ToExecute
    <2>8. Lives(u)'
      BY <1>1, <2>1, <2>3 DEF Lives
    <2> QED BY <2>5, <2>6, <2>7, <2>8
  <1>6. Progress(t)' /\ Shown(t)' /\ ToExecute(t)' /\ Lives(t)'
    <2>1. Progress(t) /\ Shown(t) /\ ToExecute(t) /\ Lives(t)
      BY DEF IInv, Core
    <2>2. \A s : On(fx', t, s) => On(fx, t, s)
      BY <1>3
    <2>3. \A s : s # Arg => (On(fx', t, s) <=> On(fx, t, s))
      BY <1>3
    <2>4. future' = future /\ pc' = pc /\ queue' = queue
      OBVIOUS
    <2>5. \A s : (Due(t, s)' => Due(t, s)) /\ (s # Arg => (Due(t, s)' <=> Due(t, s)))
      BY <2>2, <2>3 DEF Due
    <2>6. Progress(t)'
      <3>1. CASE state'[t] = "CANCELLED"
        BY <2>1, <2>2, <2>4, <2>5, <3>1 DEF Progress, Calm
      <3>2. CASE ~Ignored(t) /\ state'[t] = Arg /\ Arg = "SCHEDULED"
        <4>1. state[t] \in {"READY", "SCHEDULED"}
          BY <1>2, <3>2
        <4>2. \A s \in Finals : Due(t, s)' <=> Due(t, s)
          BY <2>5, <3>2 DEF Finals
        <4> QED BY <2>1, <2>2, <2>4, <3>2, <4>1, <4>2 DEF Progress, Calm, Finals
      <3>3. CASE ~Ignored(t) /\ state'[t] = Arg /\ Arg = "RUNNING"
        <4>1. (\A s : ~On(fx', t, s)) /\ Due(t, "RUNNING")
          BY <1>2, <1>4, <3>3 DEF Finals, Due
        <4>2. ~InQueue(queue, t, "RUNNING") /\ pc[t] \notin Early
          BY <1>2, <2>1, <3>3, <4>1 DEF Progress, Finals
        <4> QED BY <2>1, <2>4, <2>5, <3>3, <4>1, <4>2 DEF Progress
      <3>4. CASE ~Ignored(t) /\ state'[t] = Arg /\ Arg \in {"SUCCEEDED", "FAILED"}
        <4>1. (\A s : ~On(fx', t, s)) /\ Due(t, Arg) /\ Arg \in Finals
          BY <1>2, <1>4, <3>4 DEF Finals, Due
        <4>2. /\ pc[t] \notin Early /\ pc[t] \notin Mid /\ ~InQueue(queue, t, "RUNNING")
              /\ ~InQueue(queue, t, Arg)
          BY <1>2, <2>1, <3>4, <4>1 DEF Progress
        <4>3. ~Due(t, "SUCCEEDED")' /\ ~Due(t, "FAILED")'
          BY <2>1, <2>4, <3>4, <4>1, <4>2 DEF Progress, Due
        <4> QED BY <2>1, <2>4, <2>5, <3>4, <4>1, <4>2, <4>3 DEF Progress
      <3>5. Arg \in {"SCHEDULED", "RUNNING", "SUCCEEDED", "CANCELLED", "FAILED"}
        BY <1>2 DEF States
      <3> QED BY <3>1, <3>2, <3>3, <3>4, <3>5
    <2>7. Shown(t)'
      <3>1. future[t] = "CANCELLED" => On(fx', t, "CANCELLED") \/ state'[t] = "CANCELLED"
        BY <2>1, <2>3 DEF Shown, Ignored
      <3>2. ASSUME NEW s \in {"SUCCEEDED", "FAILED"}, Due(t, s) \/ state[t] \in {s, "CANCELLED"}
            PROVE  Due(t, s)' \/ state'[t] \in {s, "CANCELLED"}
        <4>1. CASE Due(t, s)
          BY <2>5, <4>1
        <4>2. CASE state[t] = "CANCELLED"
          BY <4>2 DEF Ignored
        <4>3. CASE state[t] = s /\ ~Ignored(t)
          <5>1. Arg \in {"SCHEDULED", "RUNNING", "SUCCEEDED", "CANCELLED", "FAILED"}
            BY <1>2 DEF States
          <5> QED BY <1>2, <4>3, <5>1
        <4>4. CASE state[t] = s /\ Ignored(t)
          BY <4>4
        <4> QED BY <3>2, <4>1, <4>2, <4>3, <4>4
      <3> QED BY <2>1, <2>4, <3>1, <3>2 DEF Shown
    <2>8. ToExecute(t)'
      <3>1. pc[t] = "new" => ~On(fx', t, "SCHEDULED")
        BY <2>1, <2>2 DEF ToExecute
      <3>2. ASSUME pc[t] = "new", state'[t] = "SCHEDULED" PROVE task = t /\ Executes(fx')
        <4>1. Arg = "SCHEDULED"
          BY <3>2
        <4> QED BY <1>2, <2>1, <3>2, <4>1 DEF ToExecute
      <3> QED BY <1>1, <2>4, <3>1, <3>2 DEF ToExecute
    <2>9. Lives(t)'
      <3>1. Reached(t, state'[t], pc, future)
        BY <1>2, <2>1 DEF Lives, Ignored
      <3> QED BY <1>1, <1>2, <2>1, <2>4, <3>1 DEF Lives
    <2> QED BY <2>6, <2>7, <2>8, <2>9
  <1> QED BY <1>5, <1>6

LEMMA StateSet ==
  ASSUME IInv, NEW t \in Tasks, setState(t), UNCHANGED svcVars
  PROVE  /\ IInv'
         /\ \A u \in Tasks : state'[u] # state[u] => state'[u] \in Successors(state[u])
  <1> DEFINE h == Tail(fx)
  <1>1. Core /\ Types
    BY DEF IInv, Core
  <1>2. /\ fx # <<>> /\ fx[1].op = "setState" /\ t \in created /\ Arg \in States \ {"READY"}
        /\ On(fx, t, Arg)
        /\ ~Ignored(t) => (state[t] # Arg => Arg \in Successors(state[t]))
    BY SetStateFinds
  <1>3. UNCHANGED <<future, pc, queue, valueUpdate, running>>
    BY DEF setState, futureVars
  <1>4. /\ created \subseteq Tasks /\ created' = created /\ task' = task /\ startedOnce' = startedOnce
        /\ bound' = bound /\ ownState' = ownState
    BY <1>1 DEF Types, svcVars
  <1>5. PICK r : /\ Plain(r) /\ NoState(r) /\ Sounds(r, created, pc, future) /\ fx' = r \o Tail(fx)
                 /\ \/ Ignored(t) /\ state' = state
                    \/ ~Ignored(t) /\ state' = [state EXCEPT ![t] = Arg]
    <2>1. CASE Ignored(t) /\ Continue(<<>>) /\ UNCHANGED state
      BY <2>1, EmptyIs, NoStateIs DEF Continue
    <2>2. CASE /\ ~Ignored(t) /\ state' = [state EXCEPT ![t] = Arg]
               /\ Continue(Notify(state[t] # Arg, t, "stateListener")
                           \o <<Op("setRunning", t, Arg), Op("fireEvent", t, "null")>>)
      <3> DEFINE n == Notify(state[t] # Arg, t, "stateListener")
                 s == Arg
                 a == Op("setRunning", t, s)
                 e == Op("fireEvent", t, "null")
                 r == n \o <<a, e>>
      <3>1. fx' = r \o Tail(fx) /\ s \in States \ {"READY"}
        BY <1>2, <2>2 DEF Continue
      <3>2. n = <<>> \/ n = <<Callback(t, "stateListener")>>
        BY DEF Notify
      <3> HIDE DEF n, s
      <3>3. Plain(r) /\ Sounds(r, created, pc, future)
        BY <1>2, <1>4, <3>1, <3>2, SetStatePushes, EmptySeq
      <3>4. NoState(r)
        <4>1. a \in AllOps /\ a.op = "setRunning" /\ e \in AllOps /\ e.op = "fireEvent"
          BY <1>2, <1>4, <3>1, OpIs DEF TaskOps, Values
        <4>2. Callback(t, "stateListener") \in AllOps /\ Callback(t, "stateListener").op = "callback"
          BY <1>2, <1>4, OpIs DEF TaskOps, Sites, Callback
        <4> HIDE DEF a, e, Callback
        <4>3. n \in Seq(AllOps) /\ ~Has(n, "setState")
          <5>1. CASE n = <<>>
            BY <5>1, EmptyIs DEF Plain
          <5>2. CASE n = <<Callback(t, "stateListener")>>
            BY <4>2, <5>2, SingleIs
          <5> QED BY <3>2, <5>1, <5>2
        <4>4. <<a, e>> \in Seq(AllOps) /\ ~Has(<<a, e>>, "setState")
          BY <4>1, PairIs
        <4>5. ~Has(r, "setState")
          BY <4>3, <4>4, StackedHas
        <4> QED BY <4>5 DEF Has, NoState
      <3> QED BY <2>2, <3>1, <3>3, <3>4
    <2> QED BY <2>1, <2>2 DEF setState
  <1>6. /\ fx \in Seq(AllOps) /\ h \in Seq(AllOps)
        /\ Sounds(h, created, pc, future) /\ OnCallback(h) /\ FinalLast(h) /\ ~Has(h, "schedule")
    BY <1>1, <1>2, CoreTop
  <1>7. r \in Seq(AllOps) /\ OnCallback(r) /\ ~Has(r, "schedule") /\ ~Underway(r)
    BY <1>5, PlainOps DEF Plain, Methods
  <1>8. OnlyCancels(r) /\ (Len(r) >= 1 => r[Len(r)].op \notin Methods) /\ \A u, s : ~On(r, u, s)
    BY <1>5, <1>7 DEF NoState, OnlyCancels, Underway, On, Sets
  <1>9. Executes(fx) => Executes(h)
    BY <1>2, <1>6, BelowOn DEF Methods
  <1>10. fx' = r \o h
    BY <1>5
  <1>11. state' \in [Tasks -> States] /\ Types'
    <2>1. state' \in [Tasks -> States]
      BY <1>1, <1>2, <1>5 DEF Types
    <2> QED BY <1>1, <1>3, <1>4, <2>1 DEF Types
  <1>12. /\ \A u \in Tasks : u # t => state'[u] = state[u]
         /\ \/ Ignored(t) /\ state'[t] = "CANCELLED" /\ state'[t] = state[t]
            \/ ~Ignored(t) /\ state'[t] = Arg
    BY <1>1, <1>5 DEF Types, Ignored
  <1> HIDE DEF h
  <1>13. /\ OnCallback(fx') /\ ScheduleFirst(fx') /\ FinalLast(fx') /\ ~Has(fx', "schedule")
    BY <1>6, <1>7, <1>8, <1>10, Restacked
  <1>14. (\A u, s : On(fx', u, s) <=> On(h, u, s)) /\ (Executes(fx) => Executes(fx'))
    BY <1>6, <1>7, <1>8, <1>9, <1>10, StackedOn
  <1>15. h = Tail(fx)
    BY DEF h
  <1>16. \A u \in Tasks : Progress(u)' /\ Shown(u)' /\ ToExecute(u)' /\ Lives(u)'
    BY <1>3, <1>11, <1>12, <1>14, <1>15, StateGoesOn
  <1>17. Core'
    <2>0. Sounds(r, created, pc, future) /\ r \in Seq(AllOps)
      BY <1>5, <1>7
    <2>1. Sounds(fx', created, pc, future)
      BY <1>6, <1>10, <2>0, StackedHas
    <2> QED BY <1>1, <1>3, <1>4, <1>11, <1>13, <1>16, <2>1 DEF Core
  <1>18. ToSchedule'
    <2>1. ASSUME Scheduling(queue), NEW u \in Tasks
          PROVE  state'[u] \in Calm /\ \A s \in Finals : ~On(fx', u, s)
      <3>1. state[u] \in Calm /\ \A s \in Finals : ~On(fx, u, s)
        BY <2>1 DEF IInv, ToSchedule
      <3>2. \A s : On(h, u, s) => On(fx, u, s)
        BY <1>2, <1>6, <1>15, BelowOn
      <3>3. state'[u] \in Calm
        <4>1. Arg \notin Finals
          BY <1>2, <2>1 DEF IInv, ToSchedule
        <4> QED BY <1>2, <1>12, <3>1, <4>1 DEF Calm, Finals, States
      <3> QED BY <1>14, <3>1, <3>2, <3>3
    <2> QED BY <1>3, <1>13, <2>1 DEF ToSchedule
  <1>19. ASSUME NEW u \in Tasks, state'[u] # state[u] PROVE state'[u] \in Successors(state[u])
    BY <1>2, <1>12, <1>19
  <1> QED BY <1>16, <1>17, <1>18, <1>19 DEF IInv
-----------------------------------------------------------------------------
(* While another operation of a method than execute is at the top, no task *)
(* is between its scheduling and its execution.                            *)
LEMMA NoneBetween ==
  ASSUME IInv, fx # <<>>, fx[1].op \in Methods \ {"execute"}, NEW t \in Tasks, pc[t] = "new"
  PROVE  ~On(fx, t, "SCHEDULED") /\ ~(future[t] = "NEW" /\ state[t] = "SCHEDULED")
  <1>1. fx \in Seq(AllOps) /\ ToExecute(t)
    BY CoreTop DEF IInv
  <1>2. ~Executes(fx)
    BY <1>1, BelowOn
  <1> QED BY <1>1, <1>2 DEF ToExecute

LEMMA NoneBetweenCalled ==
  ASSUME IInv, fx = <<>> \/ fx[1].op # "setState", NEW t \in Tasks, pc[t] = "new"
  PROVE  ~On(fx, t, "SCHEDULED")
  BY DEF IInv, ToExecute, Sets

(* An operation of a method is done, and leaves others of it.              *)
LEMMA MethodTop ==
  ASSUME IInv, fx # <<>>, fx[1].op \in Methods \ {"execute"},
         NEW r \in Seq(AllOps), NoState(r), OnCallback(r), ~Has(r, "schedule"),
         Sounds(r, created, pc, future), fx' = r \o Tail(fx),
         UNCHANGED <<future, pc, state, queue, created, startedOnce>>, Types'
  PROVE  IInv'
  <1> DEFINE h == Tail(fx)
  <1>1. /\ fx \in Seq(AllOps) /\ h \in Seq(AllOps)
        /\ Sounds(h, created, pc, future) /\ OnCallback(h) /\ FinalLast(h) /\ ~Has(h, "schedule")
    BY CoreTop DEF IInv
  <1>2. OnlyCancels(r)
    BY DEF NoState, OnlyCancels
  <1>3. \A t, s : On(fx, t, s) <=> On(h, t, s)
    BY <1>1, BelowOn DEF Sets, Methods
  <1>4. Len(h) >= 1 => h[1].op \in Methods \cup {"callback"}
    BY <1>1, BelowOn DEF IInv, Core
  <1> HIDE DEF h
  <1>5. fx' = r \o h
    BY DEF h
  <1>6. /\ OnCallback(fx') /\ ScheduleFirst(fx') /\ FinalLast(fx') /\ ~Has(fx', "schedule")
        /\ \A t : \A s \in Finals \cup {"SCHEDULED"} : On(fx', t, s) <=> On(h, t, s)
        /\ \A t : On(h, t, "CANCELLED") => On(fx', t, "CANCELLED")
    BY <1>1, <1>2, <1>4, <1>5, Restacked
  <1>7. Sounds(fx', created, pc, future)
    BY <1>1, <1>5, StackedHas
  <1>8. ASSUME NEW t \in Tasks PROVE ToExecute(t)' /\ Lives(t)'
    <2>1. Lives(t)
      BY DEF IInv, Core
    <2>2. pc[t] = "new" => ~On(fx', t, "SCHEDULED") /\ ~(future[t] = "NEW" /\ state[t] = "SCHEDULED")
      BY <1>3, <1>6, NoneBetween
    <2> QED BY <2>1, <2>2 DEF ToExecute, Lives
  <1>9. Grows /\ startedOnce' = (created' # {})
    BY DEF Grows, IInv, Core, Types
  <1> QED BY <1>3, <1>6, <1>7, <1>8, <1>9, StackChanged

LEMMA MethodThrows ==
  ASSUME IInv, fx # <<>>, fx[1].op \in Methods \ {"execute"}, Throw,
         UNCHANGED <<taskVars, queue, svcVars>>
  PROVE  IInv'
  <1>1. /\ fx \in Seq(AllOps) /\ OnCallback(fx) /\ FinalLast(fx) /\ ScheduleFirst(fx)
        /\ Sounds(fx, created, pc, future)
    BY CoreTop DEF IInv, Core
  <1>2. /\ UNCHANGED <<future, pc, state, running, valueUpdate, queue>>
        /\ created' = created /\ task' = task /\ bound' = bound /\ ownState' = ownState
        /\ startedOnce' = startedOnce
    BY DEF taskVars, futureVars, propVars, svcVars
  <1>3. /\ OnCallback(fx') /\ FinalLast(fx') /\ ~Has(fx', "schedule")
        /\ \A t, s : On(fx', t, s) <=> On(fx, t, s)
        /\ Sounds(fx', created, pc, future)
    BY <1>1, ThrowKeeps
  <1>4. ScheduleFirst(fx')
    BY <1>3 DEF ScheduleFirst, Has
  <1>5. Types'
    BY <1>2 DEF IInv, Core, Types
  <1>6. ASSUME NEW t \in Tasks PROVE ToExecute(t)' /\ Lives(t)'
    <2>1. Lives(t)
      BY DEF IInv, Core
    <2>2. pc[t] = "new" => ~On(fx', t, "SCHEDULED") /\ ~(future[t] = "NEW" /\ state[t] = "SCHEDULED")
      BY <1>3, NoneBetween
    <2> QED BY <1>2, <2>1, <2>2 DEF ToExecute, Lives
  <1>7. Grows /\ startedOnce' = (created' # {})
    BY <1>2 DEF Grows, IInv, Core, Types
  <1> QED BY <1>2, <1>3, <1>4, <1>5, <1>6, <1>7, StackChanged

LEMMA NotifiesState ==
  ASSUME NEW site \in Sites \ {"event"}, NEW n, n = <<>> \/ n = <<Callback(None, site)>>
  PROVE  /\ n \in Seq(AllOps) /\ NoState(n) /\ OnCallback(n) /\ ~Underway(n) /\ ~Has(n, "schedule")
         /\ \A cr, p, fu : Sounds(n, cr, p, fu)
  <1> DEFINE c == Callback(None, site)
  <1>1. c \in AllOps /\ c.op = "callback" /\ c.t = None /\ c.v = site
    BY OpIs DEF Callback, TaskOps
  <1>2. n = <<>> \/ n = <<c>>
    OBVIOUS
  <1> HIDE DEF c
  <1>3. \A cr, p, fu : Sound(c, cr, p, fu)
    BY <1>1 DEF Sound
  <1>4. Plain(n) /\ NoState(n) /\ \A cr, p, fu : Sounds(n, cr, p, fu)
    <2>1. CASE n = <<>>
      BY <2>1, EmptyIs, NoStateIs
    <2>2. CASE n = <<c>>
      BY <1>1, <1>3, <2>2, SingleIs, NoStateIs DEF Methods
    <2> QED BY <1>2, <2>1, <2>2
  <1> QED BY <1>4, PlainOps DEF Plain, Methods

LEMMA LetsGo ==
  ASSUME IInv, LetGo
  PROVE  IInv' /\ state' = state
  <1> DEFINE n == NotifyState(serviceState # "CANCELLED")
  <1>1. fx # <<>> /\ fx[1].op = "letGo"
    <2>1. fx # <<>> /\ Head(fx).op = "letGo"
      BY DEF LetGo, TopSvc
    <2> QED BY <2>1, CoreTop DEF IInv
  <1>2. /\ task' = None /\ bound' = None /\ ownState' = "CANCELLED" /\ fx' = n \o Tail(fx)
        /\ UNCHANGED <<future, pc, state, running, valueUpdate, queue, created, startedOnce>>
    BY DEF LetGo, Continue, taskVars, futureVars, propVars
  <1>3. n = <<>> \/ n = <<Callback(None, "stateListener")>>
    BY DEF NotifyState
  <1> HIDE DEF n
  <1>4. Types'
    BY <1>2 DEF IInv, Core, Types
  <1>5. /\ n \in Seq(AllOps) /\ NoState(n) /\ OnCallback(n) /\ ~Has(n, "schedule")
        /\ Sounds(n, created, pc, future)
    BY <1>3, NotifiesState DEF Sites
  <1> QED BY <1>1, <1>2, <1>4, <1>5, MethodTop DEF Methods

(* An operation of a method leaves another one below its listeners.        *)
LEMMA GoesOn ==
  ASSUME IInv, fx # <<>>, fx[1].op \in {"reset", "unbindValues"},
         NEW site \in Sites \ {"event"}, NEW n, n = <<>> \/ n = <<Callback(None, site)>>,
         NEW m \in {"unbindValues", "unbindRest"}, fx' = (n \o <<SvcOp(m)>>) \o Tail(fx),
         UNCHANGED <<future, pc, state, queue, created, startedOnce>>, Types'
  PROVE  IInv'
  <1> DEFINE u == <<SvcOp(m)>>
             r == n \o u
  <1>1. /\ u \in Seq(AllOps) /\ Len(u) = 1 /\ u[1].op = m /\ ~Has(u, "schedule")
        /\ ~Has(u, "setState") /\ \A cr, p, fu : Sounds(u, cr, p, fu)
    BY SvcOpIs, SingleIs DEF Methods
  <1>2. fx' = r \o Tail(fx)
    OBVIOUS
  <1> HIDE DEF u
  <1>3. /\ n \in Seq(AllOps) /\ NoState(n) /\ OnCallback(n) /\ ~Underway(n) /\ ~Has(n, "schedule")
        /\ \A cr, p, fu : Sounds(n, cr, p, fu)
    BY NotifiesState
  <1>4. r \in Seq(AllOps) /\ ~Has(r, "schedule") /\ Sounds(r, created, pc, future)
    BY <1>1, <1>3, Stacked, StackedHas
  <1>5. NoState(r)
    <2>1. ~Has(n, "setState")
      BY <1>3 DEF NoState, Has
    <2>2. ~Has(r, "setState")
      BY <1>1, <1>3, <2>1, StackedHas
    <2> QED BY <2>2 DEF NoState, Has
  <1>6. OnCallback(r)
    <2>1. OnCallback(u)
      BY <1>1 DEF OnCallback
    <2>2. Len(n) >= 1 => n[Len(n)].op \notin Methods
      BY <1>3 DEF Underway
    <2> QED BY <1>1, <1>3, <2>1, <2>2, StackedCallback
  <1> HIDE DEF r
  <1> QED BY <1>2, <1>4, <1>5, <1>6, MethodTop DEF Methods

LEMMA Resets ==
  ASSUME IInv, Reset
  PROVE  IInv' /\ state' = state
  <1>1. fx # <<>> /\ fx[1].op = "reset"
    <2>1. fx # <<>> /\ Head(fx).op = "reset"
      BY DEF Reset, TopSvc
    <2> QED BY <2>1, CoreTop DEF IInv
  <1>2. CASE Throw /\ UNCHANGED svcVars /\ UNCHANGED <<taskVars, queue>>
    <2>1. IInv'
      BY <1>1, <1>2, MethodThrows DEF Methods
    <2> QED BY <1>2, <2>1 DEF taskVars, propVars
  <1>3. CASE /\ task' = None /\ bound' = None /\ ownState' = "READY"
             /\ Continue(NotifyState(serviceState # "READY") \o <<SvcOp("unbindValues")>>)
             /\ UNCHANGED <<rest, startedOnce, created>> /\ UNCHANGED <<taskVars, queue>>
    <2> DEFINE n == NotifyState(serviceState # "READY")
    <2>1. /\ UNCHANGED <<future, pc, state, running, valueUpdate, queue, created, startedOnce>>
          /\ fx' = (n \o <<SvcOp("unbindValues")>>) \o Tail(fx)
      BY <1>3 DEF Continue, taskVars, futureVars, propVars
    <2>2. n = <<>> \/ n = <<Callback(None, "stateListener")>>
      BY DEF NotifyState
    <2> HIDE DEF n
    <2>3. Types'
      BY <1>3, <2>1 DEF IInv, Core, Types
    <2>4. IInv'
      BY <1>1, <2>1, <2>2, <2>3, GoesOn DEF Sites
    <2> QED BY <2>1, <2>4
  <1> QED BY <1>2, <1>3 DEF Reset

LEMMA UnbindsValues ==
  ASSUME IInv, UnbindValues
  PROVE  IInv' /\ state' = state
  <1> DEFINE n == NotifyRest(rest.value, "valueListener")
  <1>1. fx # <<>> /\ fx[1].op = "unbindValues"
    <2>1. fx # <<>> /\ Head(fx).op = "unbindValues"
      BY DEF UnbindValues, TopSvc
    <2> QED BY <2>1, CoreTop DEF IInv
  <1>2. /\ fx' = (n \o <<SvcOp("unbindRest")>>) \o Tail(fx)
        /\ UNCHANGED <<future, pc, state, running, valueUpdate, queue, task, bound, ownState, created,
                       startedOnce>>
    BY DEF UnbindValues, Continue, taskVars, futureVars, propVars
  <1>3. n = <<>> \/ n = <<Callback(None, "valueListener")>>
    BY DEF NotifyRest
  <1> HIDE DEF n
  <1>4. Types'
    BY <1>2 DEF IInv, Core, Types
  <1>5. IInv'
    BY <1>1, <1>2, <1>3, <1>4, GoesOn DEF Sites
  <1> QED BY <1>2, <1>5

LEMMA UnbindsRest ==
  ASSUME IInv, UnbindRest
  PROVE  IInv' /\ state' = state
  <1> DEFINE n == NotifyRest(rest.running, "runningListener")
  <1>1. fx # <<>> /\ fx[1].op = "unbindRest"
    <2>1. fx # <<>> /\ Head(fx).op = "unbindRest"
      BY DEF UnbindRest, TopSvc
    <2> QED BY <2>1, CoreTop DEF IInv
  <1>2. /\ fx' = n \o Tail(fx)
        /\ UNCHANGED <<future, pc, state, running, valueUpdate, queue, task, bound, ownState, created,
                       startedOnce>>
    BY DEF UnbindRest, Continue, taskVars, futureVars, propVars
  <1>3. n = <<>> \/ n = <<Callback(None, "runningListener")>>
    BY DEF NotifyRest
  <1> HIDE DEF n
  <1>4. Types'
    BY <1>2 DEF IInv, Core, Types
  <1>5. /\ n \in Seq(AllOps) /\ NoState(n) /\ OnCallback(n) /\ ~Has(n, "schedule")
        /\ Sounds(n, created, pc, future)
    BY <1>3, NotifiesState DEF Sites
  <1>6. IInv'
    BY <1>1, <1>2, <1>4, <1>5, MethodTop DEF Methods
  <1> QED BY <1>2, <1>6

(* A task is created: nothing has happened to it yet.                      *)
LEMMA TaskIsNew ==
  ASSUME Types, \A u \in Tasks : Lives(u), NEW t \in Tasks, NewTask(t),
         UNCHANGED <<future, pc, state, running, valueUpdate>>
  PROVE  /\ Types' /\ (\A u \in Tasks : Lives(u)') /\ Grows
         /\ task' = t /\ t \notin created /\ state[t] = "READY"
         /\ startedOnce' = (created' # {}) /\ created' # {}
  <1>1. /\ t \notin created /\ created' = created \cup {t} /\ task' = t /\ bound' = t /\ rest' = RestOf(t)
        /\ ownState' = ownState /\ startedOnce' = TRUE
    BY DEF NewTask
  <1>2. Types'
    BY <1>1 DEF Types
  <1>3. \A u \in Tasks : Lives(u)'
    BY <1>1 DEF Lives
  <1>4. Grows
    BY <1>1 DEF Grows, Types
  <1>5. created' # {}
    BY <1>1
  <1> QED BY <1>1, <1>2, <1>3, <1>4, <1>5 DEF Lives

LEMMA ScheduleLambdaOn ==
  ASSUME NEW h \in Seq(AllOps), OnCallback(h), FinalLast(h), ~Has(h, "schedule"),
         Len(h) >= 1 => h[1].op \in Methods \cup {"callback"}, NEW g, g = ScheduleLambda \o h
  PROVE  /\ g \in Seq(AllOps) /\ OnCallback(g) /\ ScheduleFirst(g) /\ FinalLast(g)
         /\ \A t, s : On(g, t, s) <=> On(h, t, s)
  <1> DEFINE l == ScheduleLambda
  <1>1. /\ l \in Seq(AllOps) /\ Len(l) = 2 /\ l[1].op = "schedule" /\ l[2].op = "execute" /\ Method(l)
        /\ \A op : Has(l, op) <=> op \in {"schedule", "execute"}
    BY ScheduleLambdaIs
  <1>2. g = l \o h
    OBVIOUS
  <1> HIDE DEF l
  <1>3. NoFinal(l) /\ \A t, s : ~On(l, t, s)
    BY <1>1 DEF NoFinal, On, Sets, Has
  <1>4. /\ FinalLast(g) /\ \A t, s : On(g, t, s) <=> On(h, t, s)
    BY <1>1, <1>2, <1>3, StackedOn
  <1>5. OnCallback(g)
    BY <1>1, <1>2, StackedCallback DEF Method
  <1>6. /\ g \in Seq(AllOps) /\ Len(g) = Len(l) + Len(h) /\ Len(h) \in Nat
        /\ \A i \in 1 .. Len(l) : g[i] = l[i]
        /\ \A i \in 1 .. Len(g) : i \in 1 .. Len(l) \/ (i - Len(l) \in 1 .. Len(h) /\ g[i] = h[i - Len(l)])
    <2> DEFINE k == l \o h
    <2>0. l \in Seq(AllOps)
      BY <1>1
    <2>1. /\ k \in Seq(AllOps) /\ Len(k) = Len(l) + Len(h) /\ Len(l) \in Nat /\ Len(h) \in Nat
          /\ \A i \in 1 .. Len(l) : i \in 1 .. Len(k) /\ k[i] = l[i]
          /\ \A i \in 1 .. Len(k) : \/ i \in 1 .. Len(l) /\ k[i] = l[i]
                                    \/ /\ i - Len(l) \in 1 .. Len(h)
                                       /\ i > Len(l) /\ k[i] = h[i - Len(l)]
      BY <2>0, Stacked
    <2>2. g = k
      BY <1>2
    <2> HIDE DEF k
    <2> QED BY <2>1, <2>2
  <1>7. Len(g) >= 2 /\ 1 \in 1 .. Len(l) /\ 2 \in 1 .. Len(l) /\ \A i \in 1 .. Len(l) : i = 1 \/ i = 2
    BY <1>1, <1>6
  <1>8. g[2].op = "execute"
    BY <1>1, <1>6, <1>7
  <1>9. ScheduleFirst(g)
    <2> SUFFICES ASSUME NEW i \in 1 .. Len(g), g[i].op = "schedule" PROVE i = 1
      BY <1>7, <1>8 DEF ScheduleFirst
    <2>1. i \in 1 .. Len(l)
      BY <1>6 DEF Has
    <2> QED BY <1>7, <1>8, <2>1
  <1> QED BY <1>4, <1>5, <1>6, <1>9

LEMMA Starts ==
  ASSUME IInv, Start
  PROVE  IInv' /\ state' = state
  <1>1. fx # <<>> /\ fx[1].op = "start"
    <2>1. fx # <<>> /\ Head(fx).op = "start"
      BY DEF Start, TopSvc
    <2> QED BY <2>1, CoreTop DEF IInv
  <1>2. CASE Throw /\ UNCHANGED svcVars /\ UNCHANGED <<taskVars, queue>>
    <2>1. IInv'
      BY <1>1, <1>2, MethodThrows DEF Methods
    <2> QED BY <1>2, <2>1 DEF taskVars, propVars
  <1>3. CASE (\E t \in Tasks : NewTask(t)) /\ Continue(ScheduleLambda) /\ UNCHANGED <<taskVars, queue>>
    <2> DEFINE h == Tail(fx)
    <2>1. PICK t \in Tasks : NewTask(t)
      BY <1>3
    <2>2. /\ UNCHANGED <<future, pc, state, running, valueUpdate, queue>>
          /\ fx' = ScheduleLambda \o Tail(fx)
      BY <1>3 DEF Continue, taskVars, futureVars, propVars
    <2>3. /\ Types' /\ (\A u \in Tasks : Lives(u)') /\ Grows
          /\ task' = t /\ t \notin created /\ state[t] = "READY"
          /\ startedOnce' = (created' # {}) /\ created' # {}
      BY <2>1, <2>2, TaskIsNew DEF IInv, Core
    <2>4. /\ fx \in Seq(AllOps) /\ h \in Seq(AllOps)
          /\ Sounds(h, created, pc, future) /\ OnCallback(h) /\ FinalLast(h) /\ ~Has(h, "schedule")
      BY <1>1, CoreTop DEF IInv
    <2>5. \A u, s : On(fx, u, s) <=> On(h, u, s)
      BY <1>1, <2>4, BelowOn DEF Sets
    <2>6. Len(h) >= 1 => h[1].op \in Methods \cup {"callback"}
      BY <1>1, <2>4, BelowOn DEF IInv, Core, Methods
    <2> HIDE DEF h
    <2>7. fx' = ScheduleLambda \o h
      BY <2>2 DEF h
    <2>8. /\ OnCallback(fx') /\ ScheduleFirst(fx') /\ FinalLast(fx')
          /\ \A u, s : On(fx', u, s) <=> On(h, u, s)
      BY <2>4, <2>6, <2>7, ScheduleLambdaOn
    <2>9. Sounds(fx', created', pc', future')
      <3>1. Sounds(h, created', pc', future')
        BY <2>3, <2>4, SoundGrows
      <3>2. Sounds(ScheduleLambda, created', pc', future') /\ ScheduleLambda \in Seq(AllOps)
        BY ScheduleLambdaIs
      <3> QED BY <2>4, <2>7, <3>1, <3>2, StackedHas
    <2>10. ASSUME NEW u \in Tasks PROVE ToExecute(u)'
      <3>1. pc[u] = "new" => ~On(fx', u, "SCHEDULED") /\ ~(future[u] = "NEW" /\ state[u] = "SCHEDULED")
        BY <1>1, <2>5, <2>8, NoneBetween DEF Methods
      <3> QED BY <2>2, <3>1 DEF ToExecute
    <2>11. state[task'] \in Calm
      BY <2>3 DEF Calm
    <2>12. IInv'
      BY <2>2, <2>3, <2>5, <2>8, <2>9, <2>10, <2>11, StackChanged
    <2> QED BY <2>2, <2>12
  <1> QED BY <1>2, <1>3 DEF Start

LEMMA ExecutesTask ==
  ASSUME IInv, executeTask
  PROVE  IInv' /\ state' = state
  <1> DEFINE h == Tail(fx)
  <1>1. fx # <<>> /\ fx[1].op = "execute"
    <2>1. fx # <<>> /\ Head(fx).op = "execute"
      BY DEF executeTask, TopSvc
    <2> QED BY <2>1, CoreTop DEF IInv
  <1>2. /\ fx \in Seq(AllOps) /\ h \in Seq(AllOps)
        /\ Sounds(h, created, pc, future) /\ OnCallback(h) /\ FinalLast(h) /\ ~Has(h, "schedule")
    BY <1>1, CoreTop DEF IInv
  <1>3. /\ fx' = h
        /\ pc' = [t \in Tasks |-> IF t = task /\ pc[t] = "new" THEN "submitted" ELSE pc[t]]
        /\ UNCHANGED <<future, state, running, valueUpdate, queue, task, bound, ownState, created,
                       startedOnce>>
    BY <1>2, ConcatEmptySeq DEF executeTask, Continue, propVars, svcVars
  <1>4. Core /\ Types
    BY DEF IInv, Core
  <1>5. /\ \A t \in Tasks : pc'[t] = pc[t] \/ (pc[t] = "new" /\ pc'[t] = "submitted" /\ t = task)
        /\ \A t \in Tasks : pc'[t] = "new" => pc[t] = "new" /\ t # task
    BY <1>3
  <1>6. Types'
    BY <1>3, <1>4 DEF Types, PCs
  <1>7. Grows
    BY <1>3, <1>4, <1>5 DEF Grows, Types
  <1>8. \A u, s : On(fx, u, s) <=> On(h, u, s)
    BY <1>1, <1>2, BelowOn DEF Sets
  <1> HIDE DEF h
  <1>9. Sounds(fx', created', pc', future')
    BY <1>2, <1>3, <1>7, SoundGrows
  <1>10. OnCallback(fx') /\ ScheduleFirst(fx') /\ FinalLast(fx') /\ ~Has(fx', "schedule")
    BY <1>2, <1>3 DEF ScheduleFirst, Has
  <1>11. ASSUME NEW t \in Tasks PROVE ToExecute(t)' /\ Lives(t)'
    <2>1. Lives(t) /\ ToExecute(t)
      BY DEF IInv, Core
    <2>2. pc[t] = "new" => ~On(fx, t, "SCHEDULED")
      BY <1>1, NoneBetweenCalled
    <2>3. pc'[t] = "new" => ~On(fx', t, "SCHEDULED") /\ ~(future[t] = "NEW" /\ state[t] = "SCHEDULED")
      BY <1>3, <1>5, <1>8, <2>1, <2>2 DEF ToExecute
    <2>4. ToExecute(t)'
      BY <1>3, <2>3 DEF ToExecute
    <2>5. Reached(t, state[t], pc', future)
      <3>1. state[t] \in States
        BY <1>4 DEF Types
      <3>2. Reached(t, state[t], pc, future)
        BY <2>1 DEF Lives
      <3> QED BY <1>3, <1>7, <3>1, <3>2, SoundGrows
    <2>6. t \notin created => t # task
      BY <1>4, ServiceStateOf, ServiceAssumption
    <2>7. Lives(t)'
      BY <1>3, <1>5, <2>1, <2>5, <2>6 DEF Lives
    <2> QED BY <2>4, <2>7
  <1>12. startedOnce' = (created' # {})
    BY <1>3, <1>4 DEF Core
  <1>13. IInv'
    BY <1>3, <1>5, <1>6, <1>7, <1>8, <1>9, <1>10, <1>11, <1>12, StackChanged
  <1> QED BY <1>3, <1>13

LEMMA Schedules ==
  ASSUME IInv, Schedule
  PROVE  IInv' /\ state' = state
  <1>1. fx # <<>> /\ fx[1].op = "schedule"
    <2>1. fx # <<>> /\ Head(fx).op = "schedule"
      BY DEF Schedule, TopSvc
    <2> QED BY <2>1, CoreTop DEF IInv
  <1>2. UNCHANGED <<taskVars, queue, svcVars>>
    BY DEF Schedule
  <1>3. CASE task = None
    <2>1. IInv'
      BY <1>1, <1>2, <1>3, MethodThrows DEF Methods, Schedule
    <2> QED BY <1>2, <2>1 DEF taskVars, propVars
  <1>4. CASE task # None
    <2> DEFINE h == Tail(fx)
               o == Op("setState", task, "SCHEDULED")
    <2>1. /\ UNCHANGED <<future, pc, state, running, valueUpdate, queue>>
          /\ created' = created /\ task' = task /\ bound' = bound /\ ownState' = ownState
          /\ startedOnce' = startedOnce
      BY <1>2 DEF taskVars, futureVars, propVars, svcVars
    <2>2. fx' = <<o>> \o h
      BY <1>4 DEF Schedule, Continue
    <2>3. Core /\ Types /\ task \in Tasks /\ task \in created
      BY <1>4, ServiceStateOf DEF IInv, Core
    <2>4. /\ fx \in Seq(AllOps) /\ h \in Seq(AllOps) /\ Has(fx, "schedule")
          /\ Sounds(h, created, pc, future) /\ OnCallback(h) /\ FinalLast(h) /\ ~Has(h, "schedule")
      BY <1>1, CoreTop DEF IInv
    <2>5. state[task] \in Calm
      BY <1>4, <2>4 DEF IInv, ToSchedule
    <2>6. \A u, s : On(fx, u, s) <=> On(h, u, s)
      BY <1>1, <2>4, BelowOn DEF Sets
    <2>7. Executes(h)
      <3>1. h # <<>> /\ h[1].op = "execute"
        BY <1>1, <2>3, <2>4, BelowOn DEF Core
      <3> QED BY <2>4, <3>1, BelowOn
    <2>8. o \in AllOps /\ o.op = "setState" /\ o.t = task /\ o.v = "SCHEDULED"
      BY <2>3, OpIs DEF TaskOps, States
    <2>9. Sound(o, created, pc, future)
      BY <2>3, LambdasSound
    <2> HIDE DEF h, o
    <2>10. /\ <<o>> \in Seq(AllOps) /\ ~Has(<<o>>, "schedule") /\ ~Underway(<<o>>) /\ OnCallback(<<o>>)
           /\ Sounds(<<o>>, created, pc, future) /\ Len(<<o>>) = 1 /\ <<o>>[1] = o
      BY <2>8, <2>9, SingleIs, PlainOps DEF Methods
    <2>11. fx' # <<>> /\ fx'[1] = o /\ Tail(fx') = h
      BY <2>2, <2>4, <2>8, Pushed
    <2>12. NoFinal(<<o>>) /\ \A u, s : On(<<o>>, u, s) <=> u = task /\ s = "SCHEDULED"
      <3> DEFINE l == <<o>>
      <3>1. Len(l) = 1 /\ l[1] = o
        BY <2>10
      <3> HIDE DEF l
      <3>2. (\A i \in 1 .. Len(l) : i = 1) /\ 1 \in 1 .. Len(l)
        BY <3>1
      <3>3. NoFinal(l) /\ \A u, s : On(l, u, s) <=> u = task /\ s = "SCHEDULED"
        BY <2>8, <3>1, <3>2 DEF NoFinal, On, Sets, Finals
      <3> QED BY <3>3 DEF l
    <2>13. /\ FinalLast(fx') /\ Executes(fx')
           /\ \A u, s : On(fx', u, s) <=> (u = task /\ s = "SCHEDULED") \/ On(fx, u, s)
      BY <2>2, <2>4, <2>6, <2>7, <2>10, <2>12, StackedOn
    <2>14. OnCallback(fx') /\ ~Has(fx', "schedule") /\ ScheduleFirst(fx')
      <3>1. OnCallback(fx')
        BY <2>2, <2>4, <2>8, <2>10, StackedCallback DEF Methods
      <3>2. ~Has(fx', "schedule")
        BY <2>2, <2>4, <2>10, StackedHas
      <3> QED BY <3>1, <3>2 DEF ScheduleFirst, Has
    <2>15. Sounds(fx', created, pc, future)
      BY <2>2, <2>4, <2>10, StackedHas
    <2>16. Types'
      BY <2>1, <2>3 DEF Types
    <2>17. Core'
      BY <2>1, <2>3, <2>13, <2>14, <2>15, <2>16 DEF Core, Lives
    <2>18. \A u \in Tasks : \A s \in Finals \cup {"CANCELLED"} : On(fx', u, s) <=> On(fx, u, s)
      BY <2>13 DEF Finals
    <2>19. ToSchedule'
      BY <2>1, <2>14, <2>18 DEF IInv, ToSchedule
    <2>20. ASSUME NEW u \in Tasks PROVE Progress(u)' /\ Shown(u)' /\ ToExecute(u)'
      <3>1. Progress(u) /\ Shown(u) /\ ToExecute(u)
        BY DEF IInv
      <3>2. \A s \in Finals : Due(u, s)' <=> Due(u, s)
        BY <2>1, <2>18 DEF Due
      <3>3. Progress(u)'
        BY <2>1, <2>5, <2>13, <2>18, <3>1, <3>2 DEF Progress, Finals
      <3>4. Shown(u)'
        BY <2>1, <2>18, <3>1, <3>2 DEF Shown, Finals
      <3>5. pc[u] = "new" => ~On(fx, u, "SCHEDULED") /\ ~(future[u] = "NEW" /\ state[u] = "SCHEDULED")
        BY <1>1, NoneBetween DEF Methods
      <3>6. Sets(fx'[1], task, "SCHEDULED")
        BY <2>8, <2>11 DEF Sets
      <3>7. ToExecute(u)'
        BY <2>1, <2>6, <2>11, <2>13, <3>5, <3>6 DEF ToExecute
      <3> QED BY <3>3, <3>4, <3>7
    <2> QED BY <2>1, <2>17, <2>19, <2>20 DEF IInv
  <1> QED BY <1>3, <1>4
-----------------------------------------------------------------------------
(* A call of the application pushes operations.                            *)
LEMMA CallPushes ==
  ASSUME IInv, Called(fx), NEW r \in Seq(AllOps), OnlyCancels(r), OnCallback(r), ~Has(r, "schedule"),
         Sounds(r, created', pc', future'), fx' = r \o fx,
         UNCHANGED <<pc, state, queue, created, startedOnce, task>>,
         Types', \A t \in Tasks : Lives(t)', Grows,
         \A t \in Tasks : future'[t] = future[t] \/ (future'[t] = "CANCELLED" /\ On(r, t, "CANCELLED")),
         Underway(r) => \A t \in Tasks :
           ~(pc[t] = "new" /\ future'[t] = "NEW" /\ state[t] = "SCHEDULED")
  PROVE  IInv'
  <1>1. /\ fx \in Seq(AllOps) /\ Sounds(fx, created, pc, future) /\ OnCallback(fx) /\ FinalLast(fx)
    BY DEF IInv, Core, Sounds
  <1>2. fx = <<>> \/ fx[1].op = "callback"
    BY DEF Called
  <1>3. ~Has(fx, "schedule")
    BY <1>2, CoreTop, EmptyIs DEF IInv
  <1>4. Len(fx) >= 1 => fx[1].op \in Methods \cup {"callback"}
    BY <1>2, EmptySeq
  <1>5. /\ OnCallback(fx') /\ ScheduleFirst(fx') /\ FinalLast(fx') /\ ~Has(fx', "schedule")
        /\ \A t : \A s \in Finals \cup {"SCHEDULED"} : On(fx', t, s) <=> On(fx, t, s)
        /\ \A t : On(fx, t, "CANCELLED") => On(fx', t, "CANCELLED")
    BY <1>1, <1>3, <1>4, Restacked
  <1>6. \A t : On(r, t, "CANCELLED") => On(fx', t, "CANCELLED")
    BY <1>1, StackedOn
  <1>7. Sounds(fx', created', pc', future')
    <2>1. Sounds(fx, created', pc', future')
      BY <1>1, SoundGrows
    <2> QED BY <1>1, <2>1, StackedHas
  <1>8. ASSUME NEW t \in Tasks PROVE ToExecute(t)'
    <2>1. ToExecute(t)
      BY DEF IInv
    <2>2. pc[t] = "new" => ~On(fx', t, "SCHEDULED")
      BY <1>2, <1>5, NoneBetweenCalled
    <2>3. ASSUME pc[t] = "new", future'[t] = "NEW", state[t] = "SCHEDULED"
          PROVE  task = t /\ Executes(fx')
      <3>1. ~Underway(r) /\ future[t] = "NEW"
        BY <2>3
      <3>2. task = t /\ Executes(fx)
        BY <2>1, <2>3, <3>1 DEF ToExecute
      <3> QED BY <1>1, <3>1, <3>2, StackedOn
    <2> QED BY <2>2, <2>3 DEF ToExecute
  <1>9. startedOnce' = (created' # {})
    BY DEF IInv, Core
  <1> QED BY <1>5, <1>6, <1>7, <1>8, <1>9, StackChanged

LEMMA CalledByApp ==
  ASSUME IInv, NEW sites, OnFx(sites)
  PROVE  Called(fx)
  BY CoreTop DEF OnFx, Called, IInv

(* cancel() wins or has nothing to do.                                     *)
LEMMA CancelsFuture ==
  ASSUME Types, \A u \in Tasks : Lives(u), (task # None /\ CancelFuture(task)) \/ future' = future,
         UNCHANGED <<pc, state, running, valueUpdate, created, task, bound>>,
         ownState' \in {"READY", "CANCELLED"}
  PROVE  /\ Types' /\ (\A u \in Tasks : Lives(u)') /\ Grows
         /\ \A u \in Tasks : future'[u] = future[u] \/ (u = task /\ future'[u] = "CANCELLED")
         /\ task # None /\ CancelFuture(task) => future'[task] = "CANCELLED"
  <1>1. task # None => task \in Tasks /\ task \in created
    BY ServiceStateOf
  <1>2. CASE task # None /\ CancelFuture(task)
    <2>1. /\ future[task] = "NEW" /\ future' = [future EXCEPT ![task] = "CANCELLED"]
      BY <1>2 DEF CancelFuture
    <2>2. future'[task] = "CANCELLED" /\ \A u \in Tasks : u # task => future'[u] = future[u]
      BY <1>1, <1>2, <2>1 DEF Types
    <2>3. Types'
      BY <2>1 DEF Types
    <2>4. ASSUME NEW u \in Tasks PROVE Lives(u)'
      <3>1. CASE u = task
        BY <1>1, <1>2, <2>1, <2>2, <3>1 DEF Lives, Reached
      <3>2. CASE u # task
        BY <2>2, <3>2 DEF Lives, Reached
      <3> QED BY <3>1, <3>2
    <2>5. Grows
      BY <2>1, <2>2 DEF Grows, Types
    <2> QED BY <1>2, <2>1, <2>2, <2>3, <2>4, <2>5
  <1>3. CASE future' = future
    <2>1. Types' /\ Grows
      BY <1>3 DEF Types, Grows
    <2>2. \A u \in Tasks : Lives(u)'
      BY <1>3 DEF Lives
    <2>3. ~(task # None /\ CancelFuture(task))
      BY <1>1, <1>3 DEF CancelFuture, Types
    <2> QED BY <1>3, <2>1, <2>2, <2>3
  <1> QED BY <1>2, <1>3

LEMMA CancelLambdaIs ==
  ASSUME NEW t \in Tasks, NEW l, l = CancelLambda(t)
  PROVE  /\ l \in Seq(AllOps) /\ OnlyCancels(l) /\ OnCallback(l) /\ ~Has(l, "schedule") /\ ~Underway(l)
         /\ On(l, t, "CANCELLED")
         /\ \A cr, p, fu : t \in cr /\ fu[t] = "CANCELLED" => Sounds(l, cr, p, fu)
  <1> DEFINE o == Op("setState", t, "CANCELLED")
  <1>1. o \in AllOps /\ o.op = "setState" /\ o.t = t /\ o.v = "CANCELLED"
    BY OpIs DEF TaskOps, States
  <1>2. \A cr, p, fu : t \in cr /\ fu[t] = "CANCELLED" => Sound(o, cr, p, fu)
    BY LambdasSound
  <1>3. l = <<o>>
    BY DEF CancelLambda
  <1> HIDE DEF o
  <1>4. /\ l \in Seq(AllOps) /\ Len(l) = 1 /\ l[1] = o /\ Plain(l)
        /\ \A cr, p, fu : Sounds(l, cr, p, fu) <=> Sound(o, cr, p, fu)
    BY <1>1, <1>3, SingleIs DEF Methods
  <1>5. OnCallback(l) /\ ~Has(l, "schedule") /\ ~Underway(l)
    BY <1>4, PlainOps DEF Plain, Methods
  <1>6. (\A i \in 1 .. Len(l) : i = 1) /\ 1 \in 1 .. Len(l)
    BY <1>4
  <1>7. OnlyCancels(l) /\ On(l, t, "CANCELLED")
    BY <1>1, <1>4, <1>6 DEF OnlyCancels, On, Sets
  <1> QED BY <1>2, <1>4, <1>5, <1>7

LEMMA Cancels ==
  ASSUME IInv, Cancel
  PROVE  IInv' /\ state' = state
  <1>1. Called(fx) /\ Core /\ Types /\ fx \in Seq(AllOps)
    BY CalledByApp DEF Cancel, IInv, Core, Sounds
  <1>2. /\ UNCHANGED <<pc, state, running, valueUpdate, queue, created, startedOnce, task, bound>>
    BY DEF Cancel, propVars
  <1>3. CASE task # None
    <2> DEFINE l == CancelLambda(task)
    <2>1. future[task] = "NEW" /\ CancelFuture(task) /\ fx' = l \o <<>> \o fx /\ ownState' = ownState
      BY <1>3 DEF Cancel, CancelTask
    <2>2. task \in Tasks /\ task \in created
      BY <1>1, <1>3, ServiceStateOf
    <2>3. /\ Types' /\ (\A u \in Tasks : Lives(u)') /\ Grows
          /\ \A u \in Tasks : future'[u] = future[u] \/ (u = task /\ future'[u] = "CANCELLED")
          /\ future'[task] = "CANCELLED"
      <3>1. ownState' \in {"READY", "CANCELLED"}
        BY <1>1, <2>1 DEF Types
      <3> QED BY <1>1, <1>2, <1>3, <2>1, <3>1, CancelsFuture DEF Core
    <2>4. /\ l \in Seq(AllOps) /\ OnlyCancels(l) /\ OnCallback(l) /\ ~Has(l, "schedule") /\ ~Underway(l)
          /\ On(l, task, "CANCELLED") /\ Sounds(l, created', pc', future')
      BY <1>2, <2>2, <2>3, CancelLambdaIs
    <2> HIDE DEF l
    <2>5. fx' = l \o fx
      BY <2>1, <2>4, ConcatEmptySeq
    <2>6. IInv'
      BY <1>1, <1>2, <2>3, <2>4, <2>5, CallPushes
    <2> QED BY <1>2, <2>6
  <1>4. CASE task = None
    <2> DEFINE n == NotifyState(TRUE)
    <2>1. ownState' = "CANCELLED" /\ fx' = n \o fx /\ future' = future
      BY <1>4 DEF Cancel
    <2>2. n = <<Callback(None, "stateListener")>>
      BY DEF NotifyState
    <2> HIDE DEF n
    <2>3. /\ n \in Seq(AllOps) /\ NoState(n) /\ OnCallback(n) /\ ~Underway(n) /\ ~Has(n, "schedule")
          /\ Sounds(n, created', pc', future')
      BY <2>2, NotifiesState DEF Sites
    <2>4. OnlyCancels(n)
      BY <2>3 DEF NoState, OnlyCancels
    <2>5. /\ Types' /\ (\A u \in Tasks : Lives(u)') /\ Grows
      BY <1>1, <1>2, <2>1, CancelsFuture DEF Core
    <2>6. IInv'
      BY <1>1, <1>2, <2>1, <2>3, <2>4, <2>5, CallPushes
    <2> QED BY <1>2, <2>6
  <1> QED BY <1>3, <1>4

LEMMA Restarts ==
  ASSUME IInv, Restart
  PROVE  IInv' /\ state' = state
  <1> DEFINE b == RestOfRestart
  <1>1. Called(fx) /\ Core /\ Types /\ fx \in Seq(AllOps)
    BY CalledByApp DEF Restart, IInv, Core, Sounds
  <1>2. /\ UNCHANGED <<pc, state, running, valueUpdate, queue, created, startedOnce, task, bound>>
        /\ ownState' = ownState /\ CancelTask(b)
    BY DEF Restart, propVars, svcVars, RestOfRestart
  <1>3. /\ b \in Seq(AllOps) /\ Method(b) /\ ~Has(b, "schedule") /\ ~Has(b, "setState")
        /\ \A cr, p, fu : Sounds(b, cr, p, fu)
    BY RestOfRestartIs
  <1>4. OnlyCancels(b) /\ OnCallback(b)
    BY <1>3 DEF OnlyCancels, Has, Method
  <1> HIDE DEF b
  <1>5. /\ (task # None /\ CancelFuture(task)) \/ future' = future
        /\ ownState' \in {"READY", "CANCELLED"}
    BY <1>1, <1>2 DEF CancelTask, Types
  <1>6. /\ Types' /\ (\A u \in Tasks : Lives(u)') /\ Grows
        /\ \A u \in Tasks : future'[u] = future[u] \/ (u = task /\ future'[u] = "CANCELLED")
        /\ task # None /\ CancelFuture(task) => future'[task] = "CANCELLED"
    BY <1>1, <1>2, <1>5, CancelsFuture DEF Core
  <1>7. task # None => future'[task] # "NEW"
    BY <1>2, <1>6 DEF CancelTask
  <1>8. ASSUME NEW t \in Tasks, pc[t] = "new", future'[t] = "NEW", state[t] = "SCHEDULED"
        PROVE  FALSE
    <2>1. future[t] = "NEW" /\ ToExecute(t)
      BY <1>6, <1>8 DEF IInv
    <2>2. task = t
      BY <1>8, <2>1 DEF ToExecute
    <2> QED BY <1>7, <1>8, <2>2, ServiceAssumption
  <1>9. CASE task # None /\ future[task] = "NEW"
    <2> DEFINE l == CancelLambda(task)
               r == l \o b
    <2>1. CancelFuture(task) /\ fx' = r \o fx
      BY <1>2, <1>9 DEF CancelTask
    <2>2. task \in Tasks /\ task \in created
      BY <1>1, <1>9, ServiceStateOf
    <2>3. /\ l \in Seq(AllOps) /\ OnlyCancels(l) /\ OnCallback(l) /\ ~Has(l, "schedule") /\ ~Underway(l)
          /\ On(l, task, "CANCELLED") /\ Sounds(l, created', pc', future')
      BY <1>2, <1>6, <1>9, <2>1, <2>2, CancelLambdaIs
    <2> HIDE DEF l
    <2>4. /\ r \in Seq(AllOps) /\ ~Has(r, "schedule") /\ Sounds(r, created', pc', future')
          /\ On(r, task, "CANCELLED")
      BY <1>3, <2>3, Stacked, StackedHas, StackedOn
    <2>5. OnCallback(r)
      BY <1>3, <1>4, <2>3, StackedCallback DEF Underway
    <2>6. OnlyCancels(r)
      <3>1. \A i \in 1 .. Len(r) : \/ i \in 1 .. Len(l) /\ r[i] = l[i]
                                   \/ i - Len(l) \in 1 .. Len(b) /\ r[i] = b[i - Len(l)]
        BY <1>3, <2>3, Stacked
      <3> HIDE DEF r
      <3> QED BY <1>4, <2>3, <3>1 DEF OnlyCancels
    <2> HIDE DEF r
    <2>7. IInv'
      BY <1>1, <1>2, <1>6, <1>8, <2>1, <2>4, <2>5, <2>6, CallPushes
    <2> QED BY <1>2, <2>7
  <1>10. CASE ~(task # None /\ future[task] = "NEW")
    <2>1. fx' = b \o fx /\ future' = future
      BY <1>2, <1>10 DEF CancelTask
    <2>2. Sounds(b, created', pc', future')
      BY <1>3
    <2>3. IInv'
      BY <1>1, <1>2, <1>3, <1>4, <1>6, <1>8, <2>1, <2>2, CallPushes
    <2> QED BY <1>2, <2>3
  <1> QED BY <1>9, <1>10

LEMMA CallsMethod ==
  ASSUME IInv, NEW sites, OnFx(sites), NEW m \in Methods \ {"schedule"}, fx' = <<SvcOp(m)>> \o fx,
         serviceState # "SCHEDULED", UNCHANGED <<taskVars, queue, svcVars>>
  PROVE  IInv' /\ state' = state
  <1> DEFINE r == <<SvcOp(m)>>
  <1>1. Called(fx) /\ Core /\ Types
    BY CalledByApp DEF IInv, Core
  <1>2. /\ UNCHANGED <<future, pc, state, running, valueUpdate, queue>>
        /\ created' = created /\ task' = task /\ bound' = bound /\ ownState' = ownState
        /\ startedOnce' = startedOnce
    BY DEF taskVars, futureVars, propVars, svcVars
  <1>3. /\ r \in Seq(AllOps) /\ ~Has(r, "schedule") /\ ~Has(r, "setState") /\ Len(r) = 1
        /\ Sounds(r, created', pc', future')
    BY SvcOpIs, SingleIs DEF Methods
  <1> HIDE DEF r
  <1>4. OnlyCancels(r) /\ OnCallback(r)
    BY <1>3 DEF OnlyCancels, OnCallback, Has
  <1>5. Types' /\ (\A u \in Tasks : Lives(u)') /\ Grows
    BY <1>1, <1>2 DEF Core, Types, Lives, Grows
  <1>6. ASSUME NEW t \in Tasks, pc[t] = "new", future'[t] = "NEW", state[t] = "SCHEDULED"
        PROVE  FALSE
    <2>1. task = t
      BY <1>2, <1>6 DEF IInv, ToExecute
    <2> QED BY <1>1, <1>6, <2>1, ServiceStateOf, ServiceAssumption
  <1>7. fx' = r \o fx
    BY DEF r
  <1>8. IInv'
    BY <1>1, <1>2, <1>3, <1>4, <1>5, <1>6, <1>7, CallPushes
  <1> QED BY <1>2, <1>8

LEMMA CallsReset ==
  ASSUME IInv, CallReset
  PROVE  IInv' /\ state' = state
  BY CallsMethod DEF CallReset, Active, Methods

LEMMA CallsStart ==
  ASSUME IInv, CallStart
  PROVE  IInv' /\ state' = state
  BY CallsMethod DEF CallStart, Methods
-----------------------------------------------------------------------------
(* The lambdas that are posted.                                            *)
LEMMA TwoOps ==
  ASSUME NEW o \in AllOps, NEW e \in AllOps, NEW l, l = <<o, e>>,
         o.op \notin Methods, e.op \notin Methods, ~(o.op = "setState" /\ o.v \in Finals)
  PROVE  /\ l \in Seq(AllOps) /\ OnCallback(l) /\ ScheduleFirst(l) /\ FinalLast(l) /\ ~Has(l, "schedule")
         /\ LastOp(l) = e
         /\ \A u, s : On(l, u, s) <=> Sets(o, u, s) \/ Sets(e, u, s)
  <1>1. l \in Seq(AllOps) /\ Len(l) = 2 /\ l[1] = o /\ l[2] = e
    OBVIOUS
  <1>2. (\A i \in 1 .. Len(l) : i = 1 \/ i = 2) /\ 1 \in 1 .. Len(l) /\ 2 \in 1 .. Len(l)
    BY <1>1
  <1>3. OnCallback(l) /\ ~Has(l, "schedule")
    BY <1>1, <1>2 DEF OnCallback, Has, Methods
  <1>4. ScheduleFirst(l)
    BY <1>3 DEF ScheduleFirst, Has
  <1>5. FinalLast(l)
    BY <1>1, <1>2 DEF FinalLast
  <1>6. \A u, s : On(l, u, s) <=> Sets(o, u, s) \/ Sets(e, u, s)
    BY <1>1, <1>2 DEF On
  <1> QED BY <1>1, <1>3, <1>4, <1>5, <1>6 DEF LastOp

(* A lambda announces its last state last, and RUNNING after SCHEDULED.    *)
Announces(l) ==
  /\ l \in Seq(AllOps) /\ OnCallback(l) /\ ScheduleFirst(l) /\ FinalLast(l)
  /\ \A u : \A s \in Finals : On(l, u, s) <=> Sets(LastOp(l), u, s)
  /\ \A u : On(l, u, "SCHEDULED") <=> Sets(LastOp(l), u, "RUNNING")

LEMMA TaskLambdas ==
  ASSUME NEW t \in Tasks
  PROVE  /\ \A l \in {StartLambda(t), SucceedLambda(t), FailLambda(t), UpdateLambda(t)} :
              Announces(l) /\ ~Has(l, "schedule") /\ l # ScheduleLambda /\ l \in Posted
         /\ \A u, s : Sets(LastOp(StartLambda(t)), u, s) <=> u = t /\ s = "RUNNING"
         /\ \A u, s : Sets(LastOp(SucceedLambda(t)), u, s) <=> u = t /\ s = "SUCCEEDED"
         /\ \A u, s : Sets(LastOp(FailLambda(t)), u, s) <=> u = t /\ s = "FAILED"
         /\ \A u, s : ~Sets(LastOp(UpdateLambda(t)), u, s)
  <1> DEFINE ss(v) == Op("setState", t, v)
             sv == Op("setValue", t, "result")
             se == Op("setException", t, "null")
             tu == Op("takeUpdate", t, "null")
  <1>1. \A v \in States : ss(v) \in AllOps /\ ss(v).op = "setState" /\ ss(v).t = t /\ ss(v).v = v
    BY OpIs DEF TaskOps
  <1>2. /\ sv \in AllOps /\ sv.op = "setValue" /\ se \in AllOps /\ se.op = "setException"
        /\ tu \in AllOps /\ tu.op = "takeUpdate"
    BY OpIs DEF TaskOps, Values
  <1>3. /\ StartLambda(t) = <<ss("SCHEDULED"), ss("RUNNING")>>
        /\ SucceedLambda(t) = <<sv, ss("SUCCEEDED")>>
        /\ FailLambda(t) = <<se, ss("FAILED")>>
        /\ UpdateLambda(t) = <<tu>>
    BY DEF StartLambda, SucceedLambda, FailLambda, UpdateLambda
  <1>4. \A l \in {StartLambda(t), SucceedLambda(t), FailLambda(t), UpdateLambda(t)} : l \in Posted
    BY DEF Posted
  <1> HIDE DEF ss, sv, se, tu
  <1>5. /\ \A v \in States : \A u, s : Sets(ss(v), u, s) <=> u = t /\ s = v
        /\ \A u, s : ~Sets(sv, u, s) /\ ~Sets(se, u, s) /\ ~Sets(tu, u, s)
    BY <1>1, <1>2 DEF Sets
  <1>6. ASSUME NEW o \in AllOps, NEW v \in Finals, NEW l, l = <<o, ss(v)>>, o.op \notin Methods,
               \/ v = "RUNNING" /\ o = ss("SCHEDULED")
               \/ v # "RUNNING" /\ o.op # "setState"
        PROVE  Announces(l) /\ ~Has(l, "schedule") /\ \A u, s : Sets(LastOp(l), u, s) <=> u = t /\ s = v
    <2> DEFINE e == ss(v)
    <2>1. v \in States /\ "SCHEDULED" \in States /\ e \in AllOps /\ e.op = "setState" /\ e.op \notin Methods
      BY <1>1 DEF Finals, States, Methods
    <2>2. ~(o.op = "setState" /\ o.v \in Finals)
      BY <1>1, <1>6, <2>1 DEF Finals
    <2>3. \A u, s : Sets(e, u, s) <=> u = t /\ s = v
      BY <1>5, <2>1
    <2>4. \A u, s : Sets(o, u, s) <=> u = t /\ s = "SCHEDULED" /\ v = "RUNNING"
      <3>1. CASE v = "RUNNING" /\ o = ss("SCHEDULED")
        BY <1>5, <2>1, <3>1
      <3>2. CASE v # "RUNNING" /\ o.op # "setState"
        BY <3>2 DEF Sets
      <3> QED BY <1>6, <3>1, <3>2
    <2>5. l = <<o, e>>
      BY <1>6
    <2> HIDE DEF e
    <2>6. /\ l \in Seq(AllOps) /\ OnCallback(l) /\ ScheduleFirst(l) /\ FinalLast(l) /\ ~Has(l, "schedule")
          /\ LastOp(l) = e
          /\ \A u, s : On(l, u, s) <=> Sets(o, u, s) \/ Sets(e, u, s)
      BY <1>6, <2>1, <2>2, <2>5, TwoOps
    <2>7. "SCHEDULED" \notin Finals
      BY DEF Finals
    <2>8. \A u : \A s \in Finals : On(l, u, s) <=> Sets(LastOp(l), u, s)
      BY <2>3, <2>4, <2>6, <2>7
    <2>9. \A u : On(l, u, "SCHEDULED") <=> Sets(LastOp(l), u, "RUNNING")
      BY <2>3, <2>4, <2>6, <2>7
    <2> QED BY <2>3, <2>6, <2>8, <2>9 DEF Announces
  <1>7. Announces(<<tu>>) /\ ~Has(<<tu>>, "schedule") /\ LastOp(<<tu>>) = tu
    <2> DEFINE l == <<tu>>
    <2>1. l \in Seq(AllOps) /\ Len(l) = 1 /\ l[1] = tu /\ Plain(l) /\ ~Has(l, "schedule")
      BY <1>2, SingleIs DEF Methods
    <2> HIDE DEF l
    <2>2. (\A i \in 1 .. Len(l) : i = 1) /\ LastOp(l) = tu /\ OnCallback(l)
      BY <2>1, PlainOps DEF LastOp
    <2>3. \A u, s : ~On(l, u, s)
      BY <1>5, <2>1, <2>2 DEF On
    <2>4. ScheduleFirst(l) /\ FinalLast(l)
      BY <1>2, <2>1, <2>2 DEF ScheduleFirst, FinalLast
    <2> QED BY <1>5, <2>1, <2>2, <2>3, <2>4 DEF Announces, l
  <1>8. "SCHEDULED" \in States /\ Finals = {"RUNNING", "SUCCEEDED", "FAILED"}
    BY DEF Finals, States
  <1>9. /\ Announces(StartLambda(t)) /\ ~Has(StartLambda(t), "schedule")
        /\ \A u, s : Sets(LastOp(StartLambda(t)), u, s) <=> u = t /\ s = "RUNNING"
    BY <1>1, <1>3, <1>6, <1>8 DEF Methods
  <1>10. /\ Announces(SucceedLambda(t)) /\ ~Has(SucceedLambda(t), "schedule")
         /\ \A u, s : Sets(LastOp(SucceedLambda(t)), u, s) <=> u = t /\ s = "SUCCEEDED"
    BY <1>2, <1>3, <1>6, <1>8 DEF Methods
  <1>11. /\ Announces(FailLambda(t)) /\ ~Has(FailLambda(t), "schedule")
         /\ \A u, s : Sets(LastOp(FailLambda(t)), u, s) <=> u = t /\ s = "FAILED"
    BY <1>2, <1>3, <1>6, <1>8 DEF Methods
  <1>12. /\ Announces(UpdateLambda(t)) /\ ~Has(UpdateLambda(t), "schedule")
         /\ \A u, s : ~Sets(LastOp(UpdateLambda(t)), u, s)
    BY <1>3, <1>5, <1>7
  <1>13. Has(ScheduleLambda, "schedule")
    BY ScheduleLambdaIs
  <1> QED BY <1>4, <1>9, <1>10, <1>11, <1>12, <1>13

LEMMA ScheduleLambdaAnnounces ==
  /\ Announces(ScheduleLambda) /\ \A u, s : ~Sets(LastOp(ScheduleLambda), u, s)
  <1> DEFINE l == ScheduleLambda
  <1>1. /\ l \in Seq(AllOps) /\ Len(l) = 2 /\ l[1].op = "schedule" /\ l[2].op = "execute" /\ OnCallback(l)
    BY ScheduleLambdaIs DEF Method
  <1> HIDE DEF l
  <1>2. (\A i \in 1 .. Len(l) : i = 1 \/ i = 2) /\ 1 \in 1 .. Len(l) /\ 2 \in 1 .. Len(l) /\ LastOp(l) = l[2]
    BY <1>1 DEF LastOp
  <1>3. (\A u, s : ~On(l, u, s)) /\ (\A u, s : ~Sets(LastOp(l), u, s))
    BY <1>1, <1>2 DEF On, Sets
  <1>4. ScheduleFirst(l) /\ FinalLast(l)
    BY <1>1, <1>2 DEF ScheduleFirst, FinalLast
  <1> QED BY <1>1, <1>3, <1>4 DEF Announces, l

LEMMA PostedIs ==
  ASSUME NEW l \in Posted
  PROVE  Announces(l) /\ (Has(l, "schedule") => l = ScheduleLambda)
  <1>1. CASE l = ScheduleLambda
    BY <1>1, ScheduleLambdaAnnounces
  <1>2. CASE l # ScheduleLambda
    <2>1. PICK t \in Tasks : l \in {StartLambda(t), SucceedLambda(t), FailLambda(t), UpdateLambda(t)}
      BY <1>2 DEF Posted
    <2> QED BY <2>1, TaskLambdas
  <1> QED BY <1>1, <1>2

(* Posting a lambda, and taking one from the queue.                        *)
LEMMA PostAppends ==
  ASSUME NEW q, Posts(q), NEW l \in Posted, l # ScheduleLambda, NEW p, p = Append(q, l),
         \A t \in Tasks : \A s \in Finals : Sets(LastOp(l), t, s) => ~InQueue(q, t, s),
         \A t \in Tasks : Sets(LastOp(l), t, "RUNNING") =>
                            ~InQueue(q, t, "SUCCEEDED") /\ ~InQueue(q, t, "FAILED")
  PROVE  /\ Posts(p)
         /\ (Scheduling(p) => Scheduling(q))
         /\ \A t, s : InQueue(p, t, s) <=> InQueue(q, t, s) \/ Sets(LastOp(l), t, s)
  <1> DEFINE n == Len(q)
  <1>0. q \in Seq(Posted)
    BY DEF Posts
  <1>1. /\ p \in Seq(Posted) /\ Len(p) = n + 1 /\ n \in Nat
        /\ \A i \in 1 .. n : p[i] = q[i]
        /\ p[n + 1] = l
    BY <1>0, AppendProperties
  <1>2. /\ \A i \in 1 .. n : i \in 1 .. Len(p) /\ i < n + 1 /\ p[i] = q[i]
        /\ \A i \in 1 .. Len(p) : (i \in 1 .. n /\ p[i] = q[i]) \/ (i = n + 1 /\ p[i] = l)
        /\ n + 1 \in 1 .. Len(p)
    BY <1>1
  <1>3. ASSUME NEW t, NEW s PROVE InQueue(p, t, s) <=> InQueue(q, t, s) \/ Sets(LastOp(l), t, s)
    <2>1. InQueue(p, t, s) => InQueue(q, t, s) \/ Sets(LastOp(l), t, s)
      BY <1>2 DEF InQueue
    <2>2. InQueue(q, t, s) => InQueue(p, t, s)
      BY <1>2 DEF InQueue
    <2>3. Sets(LastOp(l), t, s) => InQueue(p, t, s)
      BY <1>1, <1>2 DEF InQueue
    <2> QED BY <2>1, <2>2, <2>3
  <1>4. Scheduling(p) => Scheduling(q)
    BY <1>2 DEF Scheduling
  <1>5. \A i \in 1 .. Len(p) : p[i] = ScheduleLambda => i = 1
    BY <1>0, <1>2 DEF Posts
  <1>6. ASSUME NEW t \in Tasks, NEW s \in Finals, NEW i \in 1 .. Len(p), NEW j \in 1 .. Len(p),
               Sets(LastOp(p[i]), t, s), Sets(LastOp(p[j]), t, s)
        PROVE  i = j
    <2>1. CASE i \in 1 .. n /\ p[i] = q[i] /\ j \in 1 .. n /\ p[j] = q[j]
      BY <1>6, <2>1 DEF Posts
    <2>2. CASE i \in 1 .. n /\ p[i] = q[i] /\ p[j] = l
      BY <1>6, <2>2 DEF InQueue
    <2>3. CASE p[i] = l /\ j \in 1 .. n /\ p[j] = q[j]
      BY <1>6, <2>3 DEF InQueue
    <2> QED BY <1>2, <2>1, <2>2, <2>3
  <1>7. ASSUME NEW t \in Tasks, NEW s \in {"SUCCEEDED", "FAILED"},
               NEW i \in 1 .. Len(p), NEW j \in 1 .. Len(p),
               Sets(LastOp(p[i]), t, "RUNNING"), Sets(LastOp(p[j]), t, s)
        PROVE  i < j
    <2>1. CASE i \in 1 .. n /\ p[i] = q[i] /\ j \in 1 .. n /\ p[j] = q[j]
      BY <1>7, <2>1 DEF Posts
    <2>2. CASE i \in 1 .. n /\ j = n + 1
      BY <1>2, <2>2
    <2>3. CASE p[i] = l /\ j \in 1 .. n /\ p[j] = q[j]
      BY <1>7, <2>3 DEF InQueue
    <2>4. CASE p[i] = l /\ p[j] = l
      BY <1>7, <2>4 DEF Sets
    <2> QED BY <1>2, <2>1, <2>2, <2>3, <2>4
  <1> QED BY <1>1, <1>3, <1>4, <1>5, <1>6, <1>7 DEF Posts

LEMMA PostTaken ==
  ASSUME NEW q, Posts(q), q # <<>>, NEW l, l = q[1], NEW p, p = Tail(q)
  PROVE  /\ Posts(p) /\ ~Scheduling(p) /\ Head(q) = l /\ l \in Posted
         /\ l = ScheduleLambda => Scheduling(q)
         /\ \A t, s : InQueue(q, t, s) <=> InQueue(p, t, s) \/ Sets(LastOp(l), t, s)
         /\ \A t \in Tasks : \A s \in Finals : Sets(LastOp(l), t, s) => ~InQueue(p, t, s)
         /\ \A t \in Tasks : InQueue(p, t, "RUNNING") =>
              ~Sets(LastOp(l), t, "SUCCEEDED") /\ ~Sets(LastOp(l), t, "FAILED")
  <1>1. q \in Seq(Posted)
    BY DEF Posts
  <1>2. p \in Seq(Posted) /\ Head(q) = l /\ Len(q) \in Nat /\ Len(q) >= 1 /\ Len(p) = Len(q) - 1
    BY <1>1, EmptySeq
  <1>3. \A i \in 1 .. Len(p) : p[i] = q[i + 1]
    BY <1>1, <1>2
  <1>4. /\ \A i \in 1 .. Len(p) : i + 1 \in 1 .. Len(q) /\ p[i] = q[i + 1] /\ i + 1 # 1 /\ ~(i + 1 < 1)
        /\ \A i \in 1 .. Len(q) : i = 1 \/ (i - 1 \in 1 .. Len(p) /\ q[i] = p[i - 1])
        /\ 1 \in 1 .. Len(q)
    BY <1>2, <1>3
  <1>5. l \in Posted
    BY <1>1, <1>4
  <1>6. ~Scheduling(p)
    BY <1>4 DEF Scheduling, Posts
  <1>7. l = ScheduleLambda => Scheduling(q)
    BY <1>4 DEF Scheduling
  <1>8. ASSUME NEW t, NEW s PROVE InQueue(q, t, s) <=> InQueue(p, t, s) \/ Sets(LastOp(l), t, s)
    <2>1. InQueue(q, t, s) => InQueue(p, t, s) \/ Sets(LastOp(l), t, s)
      BY <1>4 DEF InQueue
    <2>2. InQueue(p, t, s) => InQueue(q, t, s)
      BY <1>4 DEF InQueue
    <2>3. Sets(LastOp(l), t, s) => InQueue(q, t, s)
      BY <1>4 DEF InQueue
    <2> QED BY <2>1, <2>2, <2>3
  <1>9. ASSUME NEW t \in Tasks, NEW s \in Finals, Sets(LastOp(l), t, s) PROVE ~InQueue(p, t, s)
    <2> SUFFICES ASSUME NEW i \in 1 .. Len(p), Sets(LastOp(p[i]), t, s) PROVE FALSE
      BY DEF InQueue
    <2>1. i + 1 = 1
      BY <1>4, <1>9 DEF Posts
    <2> QED BY <1>4, <2>1
  <1>10. ASSUME NEW t \in Tasks, NEW s \in {"SUCCEEDED", "FAILED"}, InQueue(p, t, "RUNNING"),
                Sets(LastOp(l), t, s)
         PROVE  FALSE
    <2>1. PICK i \in 1 .. Len(p) : Sets(LastOp(p[i]), t, "RUNNING")
      BY <1>10 DEF InQueue
    <2>2. i + 1 < 1
      BY <1>4, <1>10, <2>1 DEF Posts
    <2> QED BY <1>4, <2>2
  <1>11. Posts(p)
    <2>1. \A i \in 1 .. Len(p) : p[i] # ScheduleLambda
      BY <1>6 DEF Scheduling
    <2>2. ASSUME NEW t \in Tasks, NEW i \in 1 .. Len(p), NEW j \in 1 .. Len(p)
          PROVE  /\ \A s \in Finals : Sets(LastOp(p[i]), t, s) /\ Sets(LastOp(p[j]), t, s) => i = j
                 /\ \A s \in {"SUCCEEDED", "FAILED"} :
                      Sets(LastOp(p[i]), t, "RUNNING") /\ Sets(LastOp(p[j]), t, s) => i < j
      <3>1. i + 1 \in 1 .. Len(q) /\ p[i] = q[i + 1] /\ j + 1 \in 1 .. Len(q) /\ p[j] = q[j + 1]
        BY <1>4
      <3>2. /\ \A s \in Finals : Sets(LastOp(p[i]), t, s) /\ Sets(LastOp(p[j]), t, s) => i + 1 = j + 1
            /\ \A s \in {"SUCCEEDED", "FAILED"} :
                 Sets(LastOp(p[i]), t, "RUNNING") /\ Sets(LastOp(p[j]), t, s) => i + 1 < j + 1
        BY <3>1 DEF Posts
      <3>3. (i + 1 = j + 1 => i = j) /\ (i + 1 < j + 1 => i < j)
        OBVIOUS
      <3> QED BY <3>2, <3>3
    <2> QED BY <1>2, <2>1, <2>2 DEF Posts
  <1> QED BY <1>2, <1>5, <1>6, <1>7, <1>8, <1>9, <1>10, <1>11

(* The FX thread takes the next lambda.                                    *)
LEMMA RunsLambda ==
  ASSUME IInv, RunLambda, UNCHANGED svcVars
  PROVE  IInv' /\ state' = state
  <1> DEFINE l == queue[1]
             q == Tail(queue)
  <1>1. /\ fx = <<>> /\ queue # <<>> /\ fx' = Head(queue) /\ queue' = q
        /\ UNCHANGED <<future, pc, state, running, valueUpdate>>
        /\ created' = created /\ task' = task /\ bound' = bound /\ ownState' = ownState
        /\ startedOnce' = startedOnce
    BY DEF RunLambda, taskVars, futureVars, propVars, svcVars
  <1>2. Core /\ Types /\ Posts(queue) /\ Lambdas(queue, created, pc, future)
    BY DEF IInv, Core
  <1>3. /\ Posts(q) /\ ~Scheduling(q) /\ Head(queue) = l /\ l \in Posted
        /\ l = ScheduleLambda => Scheduling(queue)
        /\ \A t, s : InQueue(queue, t, s) <=> InQueue(q, t, s) \/ Sets(LastOp(l), t, s)
        /\ \A t \in Tasks : \A s \in Finals : Sets(LastOp(l), t, s) => ~InQueue(q, t, s)
        /\ \A t \in Tasks : InQueue(q, t, "RUNNING") =>
             ~Sets(LastOp(l), t, "SUCCEEDED") /\ ~Sets(LastOp(l), t, "FAILED")
    BY <1>1, <1>2, PostTaken
  <1>4. Lambdas(q, created, pc, future) /\ Lambda(l, created, pc, future)
    <2>1. queue \in Seq(Seq(AllOps))
      BY <1>2 DEF Lambdas
    <2>2. Len(queue) \in Nat /\ Len(queue) >= 1 /\ Len(q) = Len(queue) - 1 /\ q \in Seq(Seq(AllOps))
      BY <1>1, <2>1, EmptySeq
    <2>3. \A i \in 1 .. Len(q) : q[i] = queue[i + 1]
      BY <1>1, <2>1, <2>2
    <2> HIDE DEF q
    <2>4. (\A i \in 1 .. Len(q) : i + 1 \in 1 .. Len(queue) /\ q[i] = queue[i + 1]) /\ 1 \in 1 .. Len(queue)
      BY <2>2, <2>3
    <2> QED BY <1>2, <2>2, <2>4 DEF Lambdas
  <1>5. Announces(l) /\ (Has(l, "schedule") => l = ScheduleLambda)
    BY <1>3, PostedIs
  <1>6. fx' = l
    BY <1>1, <1>3
  <1> HIDE DEF l, q
  <1>7. \A t, s : ~On(fx, t, s)
    BY <1>1 DEF On
  <1>8. ~Executes(fx)
    BY <1>1 DEF Executes
  <1>9. Types'
    BY <1>1, <1>2 DEF Types
  <1>10. Core'
    <2>1. /\ Sounds(fx', created', pc', future') /\ OnCallback(fx') /\ ScheduleFirst(fx') /\ FinalLast(fx')
      BY <1>1, <1>4, <1>5, <1>6 DEF Lambda, Announces
    <2>2. \A t \in Tasks : Lives(t)'
      BY <1>1, <1>2 DEF Core, Lives
    <2> QED BY <1>1, <1>2, <1>3, <1>4, <1>9, <2>1, <2>2 DEF Core
  <1>11. ToSchedule'
    <2>1. ASSUME Has(fx', "schedule") PROVE task = None \/ state[task] \in Calm
      <3>1. Scheduling(queue)
        BY <1>3, <1>5, <1>6, <2>1
      <3>2. task # None => task \in Tasks
        BY <1>2, ServiceStateOf
      <3> QED BY <3>1, <3>2 DEF IInv, ToSchedule
    <2> QED BY <1>1, <1>3, <2>1 DEF ToSchedule
  <1>12. ASSUME NEW t \in Tasks PROVE Progress(t)' /\ Shown(t)' /\ ToExecute(t)'
    <2>1. Progress(t) /\ Shown(t) /\ ToExecute(t)
      BY DEF IInv
    <2>2. /\ \A s \in Finals : On(fx', t, s) <=> Sets(LastOp(l), t, s)
          /\ On(fx', t, "SCHEDULED") <=> Sets(LastOp(l), t, "RUNNING")
      BY <1>5, <1>6 DEF Announces
    <2>3. "RUNNING" \in Finals /\ "SUCCEEDED" \in Finals /\ "FAILED" \in Finals
      BY DEF Finals
    <2>4. \A s \in Finals : /\ InQueue(queue, t, s) <=> InQueue(queue', t, s) \/ On(fx', t, s)
                            /\ ~(InQueue(queue', t, s) /\ On(fx', t, s))
      BY <1>1, <1>3, <2>2
    <2>5. \A s \in Finals : Due(t, s)' <=> Due(t, s)
      BY <1>7, <2>4 DEF Due
    <2>6. On(fx', t, "SCHEDULED") <=> On(fx', t, "RUNNING")
      BY <2>2, <2>3
    <2>7. On(fx', t, "RUNNING") => InQueue(queue, t, "RUNNING") /\ state[t] \in Calm
      BY <2>1, <2>3, <2>4 DEF Progress
    <2>8. InQueue(queue', t, "RUNNING") => ~On(fx', t, "SUCCEEDED") /\ ~On(fx', t, "FAILED")
      BY <1>1, <1>3, <2>2, <2>3
    <2>9. Progress(t)'
      <3>1. InQueue(queue', t, "RUNNING") => state[t] \in Calm
        BY <2>1, <2>3, <2>4 DEF Progress
      <3> QED BY <1>1, <2>1, <2>3, <2>4, <2>5, <2>6, <2>7, <2>8, <3>1 DEF Progress
    <2>10. Shown(t)'
      BY <1>1, <1>7, <2>1, <2>3, <2>5 DEF Shown
    <2>11. ToExecute(t)'
      <3>1. pc[t] = "new" => ~On(fx', t, "SCHEDULED")
        BY <2>1, <2>3, <2>6, <2>7 DEF Progress, Due, Early
      <3> QED BY <1>1, <1>8, <2>1, <3>1 DEF ToExecute
    <2> QED BY <2>9, <2>10, <2>11
  <1> QED BY <1>1, <1>10, <1>11, <1>12 DEF IInv

(* The first start() on another thread.                                    *)
LEMMA StartsOnAnyThread ==
  ASSUME IInv, StartOnAnyThread
  PROVE  IInv' /\ state' = state
  <1>1. PICK t \in Tasks : NewTask(t)
    BY DEF StartOnAnyThread
  <1>2. /\ fx = <<>> /\ ~startedOnce /\ queue' = Append(queue, ScheduleLambda) /\ fx' = fx
        /\ UNCHANGED <<future, pc, state, running, valueUpdate>>
    BY DEF StartOnAnyThread, runLater, taskVars, futureVars, propVars
  <1>3. Core /\ Types /\ created = {} /\ queue = <<>>
    BY <1>2 DEF IInv, Core
  <1>4. /\ Types' /\ (\A u \in Tasks : Lives(u)') /\ Grows
        /\ startedOnce' = (created' # {}) /\ created' # {}
    BY <1>1, <1>2, <1>3, TaskIsNew DEF Core
  <1>5. \A u \in Tasks : pc[u] = "new" /\ future[u] = "NEW" /\ state[u] = "READY"
    BY <1>3 DEF Core, Lives
  <1>6. queue' = <<ScheduleLambda>>
    BY <1>2, <1>3
  <1>7. ScheduleLambda \in Posted /\ \A u, s : ~Sets(LastOp(ScheduleLambda), u, s)
    BY ScheduleLambdaAnnounces DEF Posted
  <1>8. queue' \in Seq(Posted) /\ Len(queue') = 1 /\ queue'[1] = ScheduleLambda
    BY <1>6, <1>7
  <1>9. /\ \A i \in 1 .. Len(queue') : i = 1
        /\ \A u, s : ~InQueue(queue', u, s)
    BY <1>7, <1>8 DEF InQueue
  <1>10. Posts(queue')
    <2>1. \A i \in 1 .. Len(queue') : i = 1 /\ \A u, s : ~Sets(LastOp(queue'[i]), u, s)
      BY <1>9 DEF InQueue
    <2>2. \A i \in 1 .. Len(queue') : queue'[i] = ScheduleLambda => i = 1
      BY <1>9
    <2> QED BY <1>8, <2>1, <2>2 DEF Posts
  <1>11. \A u, s : ~On(fx', u, s)
    BY <1>2 DEF On
  <1>12. Lambdas(queue', created', pc', future') /\ Sounds(fx', created', pc', future')
    <2>1. Lambdas(queue, created', pc', future') /\ Sounds(fx, created', pc', future')
      BY <1>3, <1>4, SoundGrows DEF Core
    <2>2. Lambda(ScheduleLambda, created', pc', future')
      BY ScheduleLambdaIs DEF Lambda
    <2> QED BY <1>2, <2>1, <2>2, QueueGrows
  <1>13. Core'
    BY <1>2, <1>3, <1>4, <1>10, <1>12 DEF Core
  <1>14. ToSchedule'
    <2>1. ~Has(fx', "schedule")
      BY <1>2, EmptyIs
    <2> QED BY <1>2, <1>5, <1>11, <2>1 DEF ToSchedule, Calm
  <1>15. ASSUME NEW u \in Tasks PROVE Progress(u)' /\ Shown(u)' /\ ToExecute(u)'
    <2>1. pc'[u] = "new" /\ future'[u] = "NEW" /\ state'[u] = "READY"
      BY <1>2, <1>5
    <2>2. \A s : ~Due(u, s)'
      BY <1>9, <1>11 DEF Due
    <2> QED BY <1>9, <1>11, <2>1, <2>2 DEF Progress, Shown, ToExecute, Early, Mid, Calm
  <1> QED BY <1>2, <1>13, <1>14, <1>15 DEF IInv

(* The background thread goes on, and posts what it has to.                *)
LEMMA WorkerGoesOn ==
  ASSUME IInv, NEW t \in Tasks, Worker(t), UNCHANGED svcVars
  PROVE  /\ Posts(queue')
         /\ (Scheduling(queue') => Scheduling(queue))
         /\ \A u \in Tasks : u # t => \A s \in Finals : InQueue(queue', u, s) <=> InQueue(queue, u, s)
         /\ Progress(t)' /\ Shown(t)'
  <1> DEFINE Kept == /\ Posts(queue')
                     /\ (Scheduling(queue') => Scheduling(queue))
                     /\ \A u \in Tasks : u # t =>
                          \A s \in Finals : InQueue(queue', u, s) <=> InQueue(queue, u, s)
  <1>1. Types /\ Posts(queue) /\ Progress(t) /\ Shown(t) /\ Lives(t)
    BY DEF IInv, Core
  <1>2. Working(t)
    BY <1>1, WorkerWorks
  <1>3. state' = state /\ fx' = fx
    BY <1>2 DEF Working
  <1>4. "RUNNING" \in Finals /\ "SUCCEEDED" \in Finals /\ "FAILED" \in Finals
    BY DEF Finals
  <1>5. ASSUME queue' = queue
        PROVE  Kept /\ (\A s \in Finals : InQueue(queue', t, s) <=> InQueue(queue, t, s))
               /\ (\A s \in Finals : Due(t, s)' <=> Due(t, s))
    BY <1>1, <1>3, <1>5 DEF Due
  <1>6. ASSUME NEW l \in {StartLambda(t), SucceedLambda(t), FailLambda(t), UpdateLambda(t)},
               queue' = Append(queue, l),
               \A s \in Finals : Sets(LastOp(l), t, s) => ~InQueue(queue, t, s),
               Sets(LastOp(l), t, "RUNNING") =>
                 ~InQueue(queue, t, "SUCCEEDED") /\ ~InQueue(queue, t, "FAILED")
        PROVE  /\ Kept
               /\ \A s \in Finals : InQueue(queue', t, s) <=> InQueue(queue, t, s) \/ Sets(LastOp(l), t, s)
               /\ \A s \in Finals : Due(t, s)' <=> Due(t, s) \/ Sets(LastOp(l), t, s)
    <2>1. /\ l \in Posted /\ l # ScheduleLambda
          /\ \A u, s : Sets(LastOp(l), u, s) => u = t
      BY <1>6, TaskLambdas
    <2>2. /\ \A u \in Tasks : \A s \in Finals : Sets(LastOp(l), u, s) => ~InQueue(queue, u, s)
          /\ \A u \in Tasks : Sets(LastOp(l), u, "RUNNING") =>
                                ~InQueue(queue, u, "SUCCEEDED") /\ ~InQueue(queue, u, "FAILED")
      BY <1>6, <2>1
    <2>3. /\ Posts(queue')
          /\ (Scheduling(queue') => Scheduling(queue))
          /\ \A u, s : InQueue(queue', u, s) <=> InQueue(queue, u, s) \/ Sets(LastOp(l), u, s)
      BY <1>1, <1>6, <2>1, <2>2, PostAppends
    <2> QED BY <1>3, <2>1, <2>3 DEF Due
  <1> HIDE DEF Kept
  <1> USE DEF Goto, propVars, Early, Mid
  <1>7. CASE Run(t)
    <2>1. /\ queue' = queue /\ future' = future /\ pc[t] = "submitted"
          /\ pc'[t] = IF future[t] = "NEW" THEN "started" ELSE "done"
      BY <1>1, <1>7 DEF Run, Types
    <2> QED BY <1>1, <1>3, <1>4, <1>5, <2>1 DEF Progress, Shown, Kept
  <1>8. CASE CallStarted(t)
    <2> DEFINE l == StartLambda(t)
    <2>1. queue' = Append(queue, l) /\ future' = future /\ pc[t] = "started" /\ pc'[t] = "call"
      BY <1>1, <1>8 DEF CallStarted, runLater, Types
    <2>2. \A s \in Finals : ~Due(t, s) /\ ~InQueue(queue, t, s) /\ ~On(fx, t, s)
      BY <1>1, <2>1 DEF Progress, Due
    <2>3. \A s : Sets(LastOp(l), t, s) <=> s = "RUNNING"
      BY TaskLambdas
    <2> HIDE DEF l
    <2>4. /\ Kept
          /\ \A s \in Finals : InQueue(queue', t, s) <=> s = "RUNNING"
          /\ \A s \in Finals : Due(t, s)' <=> s = "RUNNING"
      BY <1>4, <1>6, <2>1, <2>2, <2>3 DEF l
    <2>5. Progress(t)'
      BY <1>1, <1>3, <1>4, <2>1, <2>2, <2>4 DEF Progress
    <2>6. Shown(t)'
      BY <1>1, <1>3, <1>4, <2>1, <2>2, <2>4 DEF Shown
    <2> QED BY <2>4, <2>5, <2>6 DEF Kept
  <1>9. CASE UpdateValue(t)
    <2>1. queue' = queue /\ future' = future /\ pc[t] = "call" /\ pc'[t] \in {"call", "postUpdate"}
      BY <1>1, <1>9 DEF UpdateValue, Types
    <2> QED BY <1>1, <1>3, <1>4, <1>5, <2>1 DEF Progress, Shown, Kept
  <1>10. CASE PostUpdate(t)
    <2> DEFINE l == UpdateLambda(t)
    <2>1. queue' = Append(queue, l) /\ future' = future /\ pc[t] = "postUpdate" /\ pc'[t] = "call"
      BY <1>1, <1>10 DEF PostUpdate, runLater, Types
    <2>2. \A s : ~Sets(LastOp(l), t, s)
      BY TaskLambdas
    <2> HIDE DEF l
    <2>3. /\ Kept
          /\ \A s \in Finals : InQueue(queue', t, s) <=> InQueue(queue, t, s)
          /\ \A s \in Finals : Due(t, s)' <=> Due(t, s)
      BY <1>4, <1>6, <2>1, <2>2 DEF l
    <2> QED BY <1>1, <1>3, <1>4, <2>1, <2>3 DEF Progress, Shown, Kept
  <1>11. CASE CallReturns(t)
    <2>1. /\ queue' = queue /\ future' = future /\ pc[t] \in Mid
          /\ pc'[t] \in {"returned", "postSucceeded"} \/ (pc'[t] = "done" /\ future[t] = "CANCELLED")
      BY <1>1, <1>11 DEF CallReturns, Types
    <2> QED BY <1>1, <1>3, <1>4, <1>5, <2>1 DEF Progress, Shown, Kept
  <1>12. CASE PostSucceeded(t)
    <2> DEFINE l == SucceedLambda(t)
    <2>1. queue' = Append(queue, l) /\ future' = future /\ pc[t] = "postSucceeded" /\ pc'[t] = "set"
      BY <1>1, <1>12 DEF PostSucceeded, runLater, Types
    <2>2. ~Due(t, "SUCCEEDED") /\ ~Due(t, "FAILED")
      BY <1>1, <2>1 DEF Progress
    <2>3. \A s : Sets(LastOp(l), t, s) <=> s = "SUCCEEDED"
      BY TaskLambdas
    <2> HIDE DEF l
    <2>4. /\ Kept
          /\ \A s \in Finals : InQueue(queue', t, s) <=> InQueue(queue, t, s) \/ s = "SUCCEEDED"
          /\ \A s \in Finals : Due(t, s)' <=> Due(t, s) \/ s = "SUCCEEDED"
      BY <1>4, <1>6, <2>1, <2>2, <2>3 DEF l, Due
    <2>5. Progress(t)'
      <3>1. ~InQueue(queue, t, "SUCCEEDED") /\ ~On(fx, t, "SUCCEEDED")
        BY <2>2 DEF Due
      <3> QED BY <1>1, <1>3, <1>4, <2>1, <2>2, <2>4, <3>1 DEF Progress
    <2>6. Shown(t)'
      BY <1>1, <1>3, <1>4, <2>1, <2>2, <2>4 DEF Shown
    <2> QED BY <2>4, <2>5, <2>6 DEF Kept
  <1>13. CASE CallThrows(t)
    <2>1. queue' = queue /\ future' = future /\ pc[t] = "call" /\ pc'[t] = "threw"
      BY <1>1, <1>13 DEF CallThrows, Types
    <2> QED BY <1>1, <1>3, <1>4, <1>5, <2>1 DEF Progress, Shown, Kept
  <1>14. CASE PostFailed(t)
    <2> DEFINE l == FailLambda(t)
    <2>1. queue' = Append(queue, l) /\ future' = future /\ pc[t] = "threw" /\ pc'[t] = "setException"
      BY <1>1, <1>14 DEF PostFailed, runLater, Types
    <2>2. ~Due(t, "SUCCEEDED") /\ ~Due(t, "FAILED")
      BY <1>1, <2>1 DEF Progress
    <2>3. \A s : Sets(LastOp(l), t, s) <=> s = "FAILED"
      BY TaskLambdas
    <2> HIDE DEF l
    <2>4. /\ Kept
          /\ \A s \in Finals : InQueue(queue', t, s) <=> InQueue(queue, t, s) \/ s = "FAILED"
          /\ \A s \in Finals : Due(t, s)' <=> Due(t, s) \/ s = "FAILED"
      BY <1>4, <1>6, <2>1, <2>2, <2>3 DEF l, Due
    <2>5. Progress(t)'
      <3>1. ~InQueue(queue, t, "FAILED") /\ ~On(fx, t, "FAILED")
        BY <2>2 DEF Due
      <3> QED BY <1>1, <1>3, <1>4, <2>1, <2>2, <2>4, <3>1 DEF Progress
    <2>6. Shown(t)'
      BY <1>1, <1>3, <1>4, <2>1, <2>2, <2>4 DEF Shown
    <2> QED BY <2>4, <2>5, <2>6 DEF Kept
  <1>15. CASE FutureDone(t)
    <2>1. /\ queue' = queue /\ pc[t] \in {"set", "setException"} /\ pc'[t] = "done"
          /\ \/ future[t] # "NEW" /\ future'[t] = future[t]
             \/ pc[t] = "set" /\ future'[t] = "NORMAL"
             \/ pc[t] = "setException" /\ future'[t] = "EXCEPTIONAL"
      BY <1>1, <1>15 DEF FutureDone, Outcome, Types
    <2> QED BY <1>1, <1>3, <1>4, <1>5, <2>1 DEF Progress, Shown, Kept
  <1> QED BY <1>7, <1>8, <1>9, <1>10, <1>11, <1>12, <1>13, <1>14, <1>15 DEF Worker, Finishing

LEMMA WorkerWorksOn ==
  ASSUME IInv, NEW t \in Tasks, Worker(t), UNCHANGED svcVars
  PROVE  IInv' /\ state' = state
  <1>1. Core /\ Types
    BY DEF IInv, Core
  <1>2. Working(t)
    BY <1>1, WorkerWorks
  <1>3. /\ state' = state /\ running' = running /\ fx' = fx
        /\ task' = task /\ bound' = bound /\ ownState' = ownState /\ created' = created
        /\ startedOnce' = startedOnce
    BY <1>2 DEF Working, svcVars
  <1>4. /\ Posts(queue')
        /\ (Scheduling(queue') => Scheduling(queue))
        /\ \A u \in Tasks : u # t => \A s \in Finals : InQueue(queue', u, s) <=> InQueue(queue, u, s)
        /\ Progress(t)' /\ Shown(t)'
    BY WorkerGoesOn
  <1>5. Types'
    BY <1>1, <1>2, <1>3 DEF Types, Working
  <1>6. t \in created
    BY <1>1, <1>2 DEF Core, Lives, Working
  <1>7. Grows
    BY <1>1, <1>2, <1>3 DEF Grows, Working, Core, Types, Lives
  <1>8. Sounds(fx', created', pc', future')
    BY <1>1, <1>3, <1>7, SoundGrows DEF Core
  <1>9. Lambdas(queue', created', pc', future')
    <2>1. Lambdas(queue, created', pc', future')
      BY <1>1, <1>7, SoundGrows DEF Core
    <2>2. /\ Lambda(StartLambda(t), created', pc', future') /\ Lambda(UpdateLambda(t), created', pc', future')
          /\ pc'[t] = "set" => Lambda(SucceedLambda(t), created', pc', future')
          /\ pc'[t] = "setException" => Lambda(FailLambda(t), created', pc', future')
      BY <1>3, <1>6, LambdasSound
    <2> QED BY ZenonT(60), <1>2, <2>1, <2>2, QueueGrows DEF Working
  <1>10. ASSUME NEW u \in Tasks PROVE Lives(u)'
    <2>1. Lives(u) /\ state[u] \in States
      BY <1>1 DEF Core, Types
    <2>2. Reached(u, state'[u], pc', future')
      BY <1>3, <1>7, <2>1, SoundGrows DEF Lives
    <2>3. CASE u = t
      BY <1>2, <1>3, <1>6, <2>1, <2>2, <2>3 DEF Lives, Working
    <2>4. CASE u # t
      BY <1>2, <1>3, <2>1, <2>2, <2>4 DEF Lives, Working
    <2> QED BY <2>3, <2>4
  <1>11. Core'
    BY <1>1, <1>3, <1>4, <1>5, <1>6, <1>8, <1>9, <1>10 DEF Core
  <1>12. ToSchedule'
    BY <1>3, <1>4 DEF IInv, ToSchedule
  <1>13. ASSUME NEW u \in Tasks PROVE Progress(u)' /\ Shown(u)' /\ ToExecute(u)'
    <2>1. Progress(u) /\ Shown(u) /\ ToExecute(u)
      BY DEF IInv
    <2>2. CASE u = t
      <3>1. ToExecute(t)'
        BY <1>2 DEF ToExecute, Working
      <3> QED BY <1>4, <2>2, <3>1
    <2>3. CASE u # t
      <3>1. pc'[u] = pc[u] /\ future'[u] = future[u]
        BY <1>2, <2>3 DEF Working
      <3>2. \A s \in Finals : /\ InQueue(queue', u, s) <=> InQueue(queue, u, s)
                              /\ Due(u, s)' <=> Due(u, s)
        BY <1>3, <1>4, <2>3 DEF Due
      <3>3. "RUNNING" \in Finals /\ "SUCCEEDED" \in Finals /\ "FAILED" \in Finals
        BY DEF Finals
      <3>4. Progress(u)'
        BY <1>3, <2>1, <3>1, <3>2, <3>3 DEF Progress
      <3>5. Shown(u)'
        BY <1>3, <2>1, <3>1, <3>2, <3>3 DEF Shown
      <3>6. ToExecute(u)'
        BY <1>3, <2>1, <3>1 DEF ToExecute
      <3> QED BY <3>4, <3>5, <3>6
    <2> QED BY <2>2, <2>3
  <1> QED BY <1>3, <1>11, <1>12, <1>13 DEF IInv
-----------------------------------------------------------------------------
(* IInv is inductive, and every step takes each task, and the service,     *)
(* from a state to one of its successors.                                  *)
LEMMA InitIInv == SInit => IInv
  <1> SUFFICES ASSUME SInit PROVE IInv
    OBVIOUS
  <1>1. /\ fx = <<>> /\ queue = <<>> /\ task = None /\ created = {} /\ startedOnce = FALSE
        /\ \A t \in Tasks : pc[t] = "new" /\ future[t] = "NEW" /\ state[t] = "READY"
    BY DEF SInit, TInit
  <1>2. Types
    BY DEF SInit, TInit, Types, PCs, States, Values
  <1>3. Sounds(fx, created, pc, future) /\ \A op : ~Has(fx, op)
    BY <1>1, EmptyIs
  <1>4. Len(fx) = 0 /\ Len(queue) = 0 /\ 1 .. 0 = {}
    BY <1>1
  <1>5. \A t, s : ~On(fx, t, s) /\ ~InQueue(queue, t, s) /\ ~Due(t, s)
    BY <1>4 DEF On, InQueue, Due
  <1>6. Posts(queue) /\ ~Scheduling(queue)
    BY <1>1, <1>4 DEF Posts, Scheduling
  <1>7. Core
    <2>1. Lambdas(queue, created, pc, future)
      BY <1>1, <1>4 DEF Lambdas
    <2>2. \A t \in Tasks : Lives(t)
      BY <1>1 DEF Lives, Reached
    <2>3. OnCallback(fx) /\ ScheduleFirst(fx) /\ FinalLast(fx)
      BY <1>4 DEF OnCallback, ScheduleFirst, FinalLast
    <2> QED BY <1>1, <1>2, <1>3, <1>6, <2>1, <2>2, <2>3 DEF Core
  <1>8. ToSchedule
    BY <1>3, <1>6 DEF ToSchedule
  <1>9. ASSUME NEW t \in Tasks PROVE Progress(t) /\ Shown(t) /\ ToExecute(t)
    BY <1>1, <1>5 DEF Progress, Shown, ToExecute, Calm, Mid
  <1> QED BY <1>7, <1>8, <1>9 DEF IInv

LEMMA StutterKeeps ==
  ASSUME IInv, UNCHANGED vars
  PROVE  IInv' /\ state' = state /\ serviceState' = serviceState
  <1>1. /\ UNCHANGED <<future, pc, state, running, valueUpdate>> /\ queue' = queue /\ fx' = fx
        /\ created' = created /\ task' = task /\ bound' = bound /\ ownState' = ownState
        /\ startedOnce' = startedOnce
    BY DEF vars, tvars, taskVars, futureVars, propVars, svcVars
  <1>2. Core'
    <2>1. Types' /\ \A t \in Tasks : Lives(t)'
      BY <1>1 DEF IInv, Core, Types, Lives
    <2> QED BY <1>1, <2>1 DEF IInv, Core
  <1>3. ToSchedule' /\ \A t \in Tasks : Progress(t)' /\ Shown(t)' /\ ToExecute(t)'
    BY <1>1 DEF IInv, ToSchedule, Progress, Shown, ToExecute, Due
  <1> QED BY <1>1, <1>2, <1>3 DEF IInv, serviceState

(* A step that leaves the service's variables alone.                       *)
LEMMA TaskKeeps ==
  ASSUME IInv, TaskStep
  PROVE  /\ IInv' /\ UNCHANGED svcVars
         /\ \A u \in Tasks : state'[u] # state[u] => state'[u] \in Successors(state[u])
  <1>1. UNCHANGED svcVars
    BY DEF TaskStep
  <1>2. ASSUME NEW t \in Tasks, Worker(t) PROVE IInv' /\ state' = state
    BY <1>1, <1>2, WorkerWorksOn
  <1>3. ASSUME NEW t \in Tasks, FxStep(t), ~setState(t) PROVE IInv' /\ state' = state
    BY <1>1, <1>3, LightSteps DEF FxStep
  <1>4. ASSUME RunLambda \/ Return PROVE IInv' /\ state' = state
    BY <1>1, <1>4, RunsLambda, CallbackReturns
  <1> QED BY <1>1, <1>2, <1>3, <1>4, StateSet DEF TaskStep, FxThread

LEMMA ServiceKeeps ==
  ASSUME IInv, SvcFxStep \/ AppCall
  PROVE  IInv' /\ state' = state
  <1>1. CASE SvcFxStep
    BY <1>1, LetsGo, Resets, UnbindsValues, UnbindsRest, Starts, Schedules, ExecutesTask DEF SvcFxStep
  <1>2. CASE AppCall
    BY <1>2, Cancels, Restarts, CallsReset, CallsStart, StartsOnAnyThread DEF AppCall
  <1> QED BY <1>1, <1>2

LEMMA IInvStep ==
  ASSUME IInv, [SNext]_vars
  PROVE  /\ IInv'
         /\ \A u \in Tasks : state'[u] # state[u] => state'[u] \in Successors(state[u])
  BY TaskKeeps, ServiceKeeps, StutterKeeps DEF SNext

(* What ServiceInOrder says of a step that changes the service's state.    *)
InTurn == serviceState' \in ServiceSuccessors(serviceState) \/ CancelledAfterEnd

(* The state of the service while a task takes a step: that of its task.   *)
LEMMA ServiceFollowsTask ==
  ASSUME Types, UNCHANGED svcVars, \A u \in Tasks : Lives(u)',
         \A u \in Tasks : state'[u] # state[u] => state'[u] \in Successors(state[u])
  PROVE  serviceState' # serviceState => InTurn
  <1> SUFFICES ASSUME serviceState' # serviceState
               PROVE  serviceState' \in ServiceSuccessors(serviceState) \/ CancelledAfterEnd
    BY DEF InTurn
  <1>1. bound' = bound /\ ownState' = ownState
    BY DEF svcVars
  <1>2. bound # None /\ bound \in Tasks /\ serviceState = state[bound] /\ serviceState' = state'[bound]
    BY <1>1 DEF Types, serviceState
  <1>3. state[bound] \in States /\ state'[bound] \in Successors(state[bound])
    BY <1>2 DEF Types
  <1>4. state'[bound] = "CANCELLED" => future'[bound] = "CANCELLED"
    BY <1>2 DEF Lives, Reached
  <1>5. CASE state[bound] \in {"SUCCEEDED", "FAILED"}
    BY <1>2, <1>3, <1>4, <1>5 DEF Successors, CancelledAfterEnd
  <1>6. CASE state[bound] \notin {"SUCCEEDED", "FAILED"}
    BY <1>2, <1>3, <1>6 DEF States, Successors, ServiceSuccessors
  <1> QED BY <1>5, <1>6

(* The steps of the service's own methods.                                 *)
LEMMA ServiceGoesOn ==
  ASSUME IInv, SvcFxStep \/ AppCall, Types'
  PROVE  serviceState' # serviceState => InTurn
  <1>1. state' = state
    BY ServiceKeeps
  <1>2. Types /\ \A u \in Tasks : Lives(u)
    BY DEF IInv, Core
  <1>3. serviceState \in States /\ None \notin Tasks
    BY <1>2, ServiceStateOf, ServiceAssumption DEF Types, States
  <1>4. ASSUME bound' = bound, ownState' = ownState PROVE serviceState' = serviceState
    BY <1>1, <1>4 DEF serviceState
  <1>5. ASSUME bound' = None, ownState' = "CANCELLED", serviceState # "CANCELLED",
               serviceState \in {"SUCCEEDED", "FAILED"} => LetGo
        PROVE  InTurn
    <2>1. serviceState' = "CANCELLED"
      BY <1>5 DEF serviceState
    <2>2. CASE serviceState \in {"SUCCEEDED", "FAILED"}
      BY <1>5, <2>1, <2>2 DEF InTurn, CancelledAfterEnd
    <2>3. CASE serviceState \notin {"SUCCEEDED", "FAILED"}
      BY <1>3, <1>5, <2>1, <2>3 DEF InTurn, ServiceSuccessors, States, Ended
    <2> QED BY <2>2, <2>3
  <1>6. ASSUME bound' = None, ownState' = "CANCELLED", serviceState = "CANCELLED"
        PROVE  serviceState' = serviceState
    BY <1>6 DEF serviceState
  <1>7. CASE LetGo
    BY <1>5, <1>6, <1>7 DEF LetGo
  <1>8. CASE Reset
    <2>1. CASE UNCHANGED svcVars
      BY <1>4, <2>1 DEF svcVars
    <2>2. CASE serviceState \notin Active /\ bound' = None /\ ownState' = "READY"
      <3>1. serviceState' = "READY"
        BY <2>2 DEF serviceState
      <3>2. serviceState = "READY" \/ serviceState \in Ended
        BY <1>3, <2>2 DEF States, Active, Ended
      <3> QED BY <3>1, <3>2 DEF InTurn, ServiceSuccessors, Ended
    <2> QED BY <1>8, <2>1, <2>2 DEF Reset
  <1>9. ASSUME NEW t \in Tasks, NewTask(t), serviceState = "READY"
        PROVE  serviceState' = serviceState
    <2>1. bound' = t /\ t \notin created
      BY <1>9 DEF NewTask
    <2>2. state[t] = "READY"
      BY <1>2, <2>1 DEF Lives
    <2> QED BY <1>1, <1>3, <1>9, <2>1, <2>2 DEF serviceState
  <1>10. CASE Start
    <2>1. CASE UNCHANGED svcVars
      BY <1>4, <2>1 DEF svcVars
    <2>2. CASE serviceState = "READY" /\ \E t \in Tasks : NewTask(t)
      BY <1>9, <2>2
    <2> QED BY <1>10, <2>1, <2>2 DEF Start
  <1>11. CASE StartOnAnyThread
    BY <1>9, <1>11 DEF StartOnAnyThread
  <1>12. CASE Cancel
    <2>1. CASE task # None
      BY <1>4, <1>12, <2>1 DEF Cancel
    <2>2. CASE task = None
      <3>1. bound = None /\ bound' = None /\ ownState' = "CANCELLED"
        BY <1>2, <1>12, <2>2 DEF Cancel, Types
      <3>2. serviceState \notin {"SUCCEEDED", "FAILED"}
        BY <1>2, <3>1 DEF Types, serviceState
      <3> QED BY <1>5, <1>6, <3>1, <3>2
    <2> QED BY <2>1, <2>2
  <1>13. CASE UnbindValues \/ UnbindRest \/ Schedule \/ executeTask \/ Restart \/ CallReset \/ CallStart
    BY <1>4, <1>13 DEF UnbindValues, UnbindRest, Schedule, executeTask, Restart, CallReset,
       CallStart, svcVars
  <1> QED BY <1>7, <1>8, <1>10, <1>11, <1>12, <1>13 DEF SvcFxStep, AppCall

LEMMA ServiceStep ==
  ASSUME IInv, [SNext]_vars
  PROVE  serviceState' # serviceState => InTurn
  <1>1. Types /\ Types' /\ \A u \in Tasks : Lives(u)'
    BY IInvStep DEF IInv, Core
  <1>2. CASE TaskStep
    BY <1>1, <1>2, TaskKeeps, ServiceFollowsTask
  <1>3. CASE SvcFxStep \/ AppCall
    BY <1>1, <1>3, ServiceGoesOn
  <1>4. CASE UNCHANGED vars
    BY <1>4, StutterKeeps
  <1> QED BY <1>2, <1>3, <1>4 DEF SNext

LEMMA IInvHolds == SSpec => []IInv
  <1>1. SInit => IInv
    BY InitIInv
  <1>2. IInv /\ [SNext]_vars => IInv'
    BY IInvStep
  <1> QED BY <1>1, <1>2, PTL DEF SSpec

(* With nothing queued and nothing on the stack, nothing is left to show.  *)
LEMMA AgreesThen == IInv => StateAgreesWithFuture
  <1> SUFFICES ASSUME IInv, NEW t \in Tasks, Settled(t)
               PROVE  state[t] = Conclusion(future[t])
    BY DEF StateAgreesWithFuture
  <1>1. queue = <<>> /\ fx = <<>> /\ pc[t] \in {"new", "done"}
    BY DEF Settled
  <1>2. Len(fx) = 0 /\ Len(queue) = 0 /\ 1 .. 0 = {}
    BY <1>1
  <1>3. (\A s : ~On(fx, t, s) /\ ~Due(t, s)) /\ ~Executes(fx)
    BY <1>2 DEF On, InQueue, Due, Executes
  <1>4. /\ Lives(t) /\ Progress(t) /\ Shown(t) /\ ToExecute(t)
        /\ future[t] \in {"NEW", "NORMAL", "EXCEPTIONAL", "CANCELLED"}
    BY DEF IInv, Core, Types
  <1>5. CASE future[t] = "NEW"
    <2>1. pc[t] = "new"
      BY <1>1, <1>4, <1>5 DEF Shown
    <2>2. state[t] \in Calm /\ state[t] # "SCHEDULED"
      BY <1>3, <1>4, <1>5, <2>1 DEF Progress, ToExecute, Early
    <2>3. state[t] # "CANCELLED"
      BY <1>4, <1>5 DEF Lives, Reached
    <2> QED BY <1>5, <2>2, <2>3 DEF Calm, Conclusion
  <1>6. CASE future[t] = "CANCELLED"
    BY <1>3, <1>4, <1>6 DEF Shown, Conclusion
  <1>7. CASE future[t] \in {"NORMAL", "EXCEPTIONAL"}
    BY <1>3, <1>4, <1>7 DEF Shown, Lives, Reached, Conclusion
  <1> QED BY <1>4, <1>5, <1>6, <1>7

(* The state of a service goes from READY over SCHEDULED and RUNNING to an *)
(* end, as a task's does, and from an end back to READY: whatever tasks    *)
(* take turns, and wherever start(), restart(), reset() and cancel() are   *)
(* called, also by a listener in the middle of one of these calls.  From   *)
(* SUCCEEDED or FAILED it gets to CANCELLED in two ways only: restart()    *)
(* sets it, or the task was cancelled when it had shown its outcome.       *)
THEOREM ServiceKeepsOrder == SSpec => ServiceInOrder
  <1>1. IInv /\ [SNext]_vars
          => [serviceState' # serviceState
              => \/ serviceState' \in ServiceSuccessors(serviceState)
                 \/ CancelledAfterEnd]_vars
    BY ServiceStep DEF InTurn
  <1> QED BY <1>1, IInvHolds, PTL DEF SSpec, ServiceInOrder

(* The tasks of a service, which it schedules itself before it executes    *)
(* them, go through their states in order, too.                            *)
THEOREM ServiceTasksInOrder == SSpec => InOrder
  <1>1. IInv /\ [SNext]_vars
          => [\A t \in Tasks : state'[t] # state[t] => state'[t] \in Successors(state[t])]_state
    BY IInvStep
  <1> QED BY <1>1, IInvHolds, PTL DEF SSpec, InOrder

(* Once everything posted has been run, the state of each task of the      *)
(* service is that of its future: a task that is still new was never left  *)
(* in SCHEDULED by a start() that did not come to execute it, and no order *)
(* of completion, cancellation and restart leaves the two apart, however   *)
(* the calls of the service overlap.                                       *)
THEOREM ServiceTasksAgree == SSpec => []StateAgreesWithFuture
  BY IInvHolds, AgreesThen, PTL

(* The other properties are bound to a task or to nothing.                 *)
RestOK == rest \in [value : Tasks \cup {None}, running : Tasks \cup {None}]

LEMMA RestStep ==
  ASSUME RestOK, [SNext]_vars
  PROVE  RestOK'
  <1> USE DEF RestOK
  <1>1. CASE TaskStep
    BY <1>1 DEF TaskStep, svcVars
  <1>2. CASE SvcFxStep
    BY <1>2 DEF SvcFxStep, LetGo, Reset, UnbindValues, UnbindRest, Start, NewTask, RestOf, Schedule,
       executeTask, svcVars
  <1>3. CASE AppCall
    <2>1. CASE Cancel \/ Restart \/ CallReset \/ CallStart
      BY <2>1 DEF Cancel, Restart, CallReset, CallStart, svcVars
    <2>2. CASE StartOnAnyThread
      BY <2>2 DEF StartOnAnyThread, NewTask, RestOf
    <2> QED BY <1>3, <2>1, <2>2 DEF AppCall
  <1>4. CASE UNCHANGED vars
    BY <1>4 DEF vars, svcVars
  <1> QED BY <1>1, <1>2, <1>3, <1>4 DEF SNext

(* Type correctness of the service; startedOnce, which decides whether a   *)
(* method checks its thread, is set with the first task.                   *)
THEOREM ServiceTypes == SSpec => []STypeOK
  <1>1. SInit => RestOK
    BY DEF SInit, RestOK, RestOf
  <1>2. RestOK /\ [SNext]_vars => RestOK'
    BY RestStep
  <1>3. IInv /\ RestOK => STypeOK
    BY DEF RestOK, IInv, Core, Types, STypeOK, States
  <1> QED BY <1>1, <1>2, <1>3, IInvHolds, PTL DEF SSpec
=============================================================================
