----------------------------- MODULE TaskProofs -----------------------------
(***************************************************************************)
(* Proofs about the life cycle of a task, for any set of tasks, cancelled  *)
(* from any of the sites at which application code runs.                   *)
(*                                                                         *)
(* The stack of the FX thread grows at its front and can be of any height. *)
(* Seen from its end it is simple: what a lambda of the queue has left to  *)
(* do are its last one or two operations, and everything in front of them  *)
(* (callbacks, nested calls of cancel(), the end of setState) may be there *)
(* at any time.  The invariant says which lambdas of a task are still in   *)
(* the queue or at the end of the stack, and what its state is meanwhile.  *)
(***************************************************************************)
EXTENDS Task, SequenceTheorems, TLAPS

(* The last operation of a lambda, and the last of the stack: what is      *)
(* pushed on the stack comes in front, so that it stays the last until it  *)
(* is done.                                                                *)
LastOp(ops) == ops[Len(ops)]

(* The operation sets the state of t to s; it shows an update of t's value.*)
Sets(o, t, s)  == o.op = "setState" /\ o.t = t /\ o.v = s
Shows(o, t)    == o.op \in {"takeUpdate", "setValue"} /\ o.t = t

(* What callbacks, nested calls and the end of setState push.              *)
Light(o) == \/ o.op \in {"callback", "setRunning", "fireEvent"}
            \/ o.op = "setState" /\ o.v = "CANCELLED"

Finals == {"RUNNING", "SUCCEEDED", "FAILED"}    \* the states that end a lambda of call()

Ops == [op : {"callback", "setRunning", "fireEvent", "setState", "setValue", "setException",
              "takeUpdate"}, t : Tasks, v : States \cup Values \cup Sites]

(* Where the operation that sets t to s still is: in the queue q, or last  *)
(* on the stack f.                                                         *)
InQueue(q, t, s) == \E i \in 1 .. Len(q) : Sets(LastOp(q[i]), t, s)
AtEnd(f, t, s)   == f # <<>> /\ Sets(LastOp(f), t, s)
Due(t, s)        == InQueue(queue, t, s) \/ AtEnd(fx, t, s)

(* The same of an update of t's value.                                     *)
UpdateQueued(q, t) == \E i \in 1 .. Len(q) : Shows(LastOp(q[i]), t)
UpdateAtEnd(f, t)  == f # <<>> /\ Shows(LastOp(f), t)
UpdateDue(t)       == UpdateQueued(queue, t) \/ UpdateAtEnd(fx, t)

(* The first half of a lambda has not been done yet.                       *)
FirstHalf(f, op) == Len(f) >= 2 /\ f[Len(f) - 1].op = op
Scheduling(f)    == FirstHalf(f, "setState") /\ f[Len(f) - 1].v = "SCHEDULED"

(* The stack: all but the last two operations were pushed; the last but    *)
(* one may be the first half of a lambda, whose second half is the last.   *)
Halves(o, p) == \/ o.v = "SCHEDULED" /\ o.op = "setState" /\ Sets(p, o.t, "RUNNING")
                \/ o.v = "result" /\ o.op = "setValue" /\ Sets(p, o.t, "SUCCEEDED")
                \/ o.op = "setException" /\ Sets(p, o.t, "FAILED")

LastHalf(o) == \/ Light(o)
               \/ o.op = "setState" /\ o.v \in Finals
               \/ o.op = "takeUpdate"
               \/ o.op = "setValue" /\ o.v \in Values

Stack(f) == /\ f \in Seq(Ops)
            /\ \A i \in 1 .. Len(f) : i <= Len(f) - 2 => Light(f[i])
            /\ Len(f) >= 2 => Light(f[Len(f) - 1]) \/ Halves(f[Len(f) - 1], LastOp(f))
            /\ f # <<>> => LastHalf(LastOp(f))

Lambdas == UNION {{StartLambda(t), SucceedLambda(t), FailLambda(t), CancelLambda(t),
                   UpdateLambda(t)} : t \in Tasks}

(* The queue: call() posts its lambdas in order, and each once.            *)
Queue(q) ==
  /\ q \in Seq(Lambdas)
  /\ \A t \in Tasks : \A i, j \in 1 .. Len(q) :
       /\ \A s \in Finals : Sets(LastOp(q[i]), t, s) /\ Sets(LastOp(q[j]), t, s) => i = j
       /\ \A s \in {"SUCCEEDED", "FAILED"} :
            Sets(LastOp(q[i]), t, "RUNNING") /\ Sets(LastOp(q[j]), t, s) => i < j
       /\ Shows(LastOp(q[i]), t) /\ Sets(LastOp(q[j]), t, "SUCCEEDED") => i < j

(* The operations of the stack that cancel t, and that fire its event.     *)
Cancels(f, t)     == \E i \in 1 .. Len(f) : Sets(f[i], t, "CANCELLED")
IsEvent(o, t)     == o.op = "fireEvent" /\ o.t = t
Firing(f, t)      == \E i \in 1 .. Len(f) : IsEvent(f[i], t)
FiringBelow(f, t) == \E i \in 2 .. Len(f) : IsEvent(f[i], t)
FiringOnce(f, t)  == \A i, j \in 1 .. Len(f) : IsEvent(f[i], t) /\ IsEvent(f[j], t) => i = j

(* The types of what the proofs look at.                                   *)
Types ==
  /\ future \in [Tasks -> {"NEW", "NORMAL", "EXCEPTIONAL", "CANCELLED"}]
  /\ pc \in [Tasks -> PCs]
  /\ cancelling \in [Tasks -> BOOLEAN]
  /\ state \in [Tasks -> States]
  /\ value \in [Tasks -> Values]
  /\ exception \in [Tasks -> BOOLEAN]
  /\ valueUpdate \in [Tasks -> Values]
  /\ fired \in [Tasks -> [States -> Nat]]

(* The background thread before it posts the start, and before it posts    *)
(* the end.                                                                *)
Early == {"new", "submitted", "started"}
Mid   == {"call", "postUpdate", "returned", "postSucceeded", "threw"}

(* How far the task has come: which lambdas are still to run, and the      *)
(* state that goes with it.                                                *)
Progress(t) ==
  /\ pc[t] \in Early => /\ \A s \in Finals : ~Due(t, s)
                        /\ ~UpdateDue(t)
                        /\ state[t] \in {"READY", "CANCELLED"}
  /\ pc[t] \in Mid => ~Due(t, "SUCCEEDED") /\ ~Due(t, "FAILED")
  /\ ~(Due(t, "SUCCEEDED") /\ Due(t, "FAILED"))
  /\ \A s \in Finals : ~(InQueue(queue, t, s) /\ AtEnd(fx, t, s))
  /\ InQueue(queue, t, "RUNNING") =>
       /\ state[t] \in {"READY", "CANCELLED"}
       /\ ~AtEnd(fx, t, "SUCCEEDED") /\ ~AtEnd(fx, t, "FAILED")
  /\ AtEnd(fx, t, "RUNNING") =>
       /\ Scheduling(fx) => state[t] \in {"READY", "CANCELLED"}
       /\ ~Scheduling(fx) => state[t] \in {"SCHEDULED", "CANCELLED"}
  /\ (pc[t] \in Mid \/ Due(t, "SUCCEEDED") \/ Due(t, "FAILED")) /\ ~Due(t, "RUNNING")
       => state[t] \in {"RUNNING", "CANCELLED"}

(* A cancelled future is on its way to be shown, and nothing else is.      *)
CancelDue(t) == \/ cancelling[t]
                \/ InQueue(queue, t, "CANCELLED")
                \/ Cancels(fx, t)
                \/ state[t] = "CANCELLED"

(* The future and what of its outcome is still to be shown.                *)
FutureShown(t) ==
  /\ future[t] = "CANCELLED" <=> CancelDue(t)
  /\ future[t] \in {"NORMAL", "EXCEPTIONAL"} => pc[t] = "done"
  /\ pc[t] = "done" => future[t] # "NEW"
  /\ pc[t] = "set" \/ future[t] = "NORMAL"
       => Due(t, "SUCCEEDED") \/ state[t] \in {"SUCCEEDED", "CANCELLED"}
  /\ pc[t] = "setException" \/ future[t] = "EXCEPTIONAL"
       => Due(t, "FAILED") \/ state[t] \in {"FAILED", "CANCELLED"}

(* The outcome is set before the state, and no update comes after it.      *)
Outcomes(t) ==
  /\ AtEnd(fx, t, "SUCCEEDED") => FirstHalf(fx, "setValue") \/ value[t] = "result"
  /\ AtEnd(fx, t, "FAILED") => FirstHalf(fx, "setException") \/ exception[t]
  /\ AtEnd(fx, t, "SUCCEEDED") \/ state[t] = "SUCCEEDED" => ~UpdateDue(t)
  /\ state[t] = "SUCCEEDED" => value[t] = "result"
  /\ state[t] = "FAILED" => exception[t]

(* The events: one for each state the task has come to, fired or still on  *)
(* the stack.                                                              *)
Reached(s) == CASE s = "READY"     -> {}
                [] s = "SCHEDULED" -> {"SCHEDULED"}
                [] s = "RUNNING"   -> {"SCHEDULED", "RUNNING"}
                [] OTHER           -> {"SCHEDULED", "RUNNING", s}

Fired(t) ==
  /\ \A s \in States \ {"CANCELLED"} : fired[t][s] <= 1
  /\ state[t] = "READY" => ~Firing(fx, t)
  /\ state[t] # "CANCELLED" =>
       /\ \A s \in States \ Reached(state[t]) : fired[t][s] = 0
       /\ Firing(fx, t) => fired[t][state[t]] = 0
       /\ FiringOnce(fx, t)
  /\ state[t] # "READY" => Firing(fx, t) \/ fired[t][state[t]] >= 1

(* The inductive invariant: how far each task is, and what follows from it.*)
Base    == Types /\ Stack(fx) /\ Queue(queue) /\ \A t \in Tasks : Progress(t)
IInv    == Base /\ \A t \in Tasks : FutureShown(t) /\ Outcomes(t) /\ Fired(t)
-----------------------------------------------------------------------------
(* Stacks are looked at by their height: one, two, or more.                *)
LEMMA OneTwoMore ==
  ASSUME NEW n \in Nat, n >= 1
  PROVE  (n = 1 \/ n = 2 \/ n >= 3) /\ (n = 1 \/ n >= 2)
  OBVIOUS

(* Where m elements, and n others but for the first, are in a sequence of k.*)
LEMMA Places ==
  ASSUME NEW m \in Nat, NEW n \in Nat, n >= 1, NEW k \in Nat, k = m + n - 1
  PROVE  /\ n >= 2 => k >= 1 /\ k \in 1 .. k /\ ~(k <= m) /\ k - m + 1 = n
         /\ n >= 3 => k >= 2 /\ k - 1 \in 1 .. k /\ ~(k - 1 <= m) /\ k - 1 - m + 1 = n - 1
         /\ n = 1 /\ k >= 1 => k \in 1 .. k /\ k <= m /\ k \in 1 .. m
         /\ n < 3 /\ k >= 2 => k - 1 \in 1 .. k /\ k - 1 <= m /\ k - 1 \in 1 .. m
         /\ \A i \in 1 .. m : i \in 1 .. k /\ i <= m
         /\ \A i \in 2 .. n : i + m - 1 \in 1 .. k /\ ~(i + m - 1 <= m) /\ i + m - 1 - m + 1 = i
  OBVIOUS

(* The stack when its top is replaced by operations that may be pushed on  *)
(* top of any other: what lies below the top stays where it is.            *)
LEMMA TopReplaced ==
  ASSUME NEW f \in Seq(Ops), f # <<>>, NEW r \in Seq(Ops)
  PROVE  LET g == r \o Tail(f)
         IN  /\ g \in Seq(Ops)
             /\ Len(f) \in Nat /\ Len(f) >= 1 /\ Len(r) \in Nat /\ Len(g) = Len(r) + Len(f) - 1
             /\ \A i \in 1 .. Len(g) : g[i] = IF i <= Len(r) THEN r[i] ELSE f[i - Len(r) + 1]
  <1>1. Tail(f) \in Seq(Ops) /\ Len(Tail(f)) = Len(f) - 1 /\ Len(f) \in Nat /\ Len(f) >= 1 /\ Len(r) \in Nat
    BY EmptySeq
  <1>2. \A i \in 1 .. Len(Tail(f)) : Tail(f)[i] = f[i + 1]
    BY <1>1
  <1> DEFINE h == Tail(f)
  <1>3. h \in Seq(Ops) /\ Len(h) = Len(f) - 1 /\ \A i \in 1 .. Len(h) : h[i] = f[i + 1]
    BY <1>1, <1>2
  <1> HIDE DEF h
  <1>4. /\ r \o h \in Seq(Ops) /\ Len(r \o h) = Len(r) + Len(h)
        /\ \A i \in 1 .. Len(r) + Len(h) : (r \o h)[i] = IF i <= Len(r) THEN r[i] ELSE h[i - Len(r)]
    BY <1>3, ConcatProperties
  <1>5. /\ r \o h \in Seq(Ops) /\ Len(r \o h) = Len(r) + Len(f) - 1
        /\ \A i \in 1 .. Len(r \o h) : (r \o h)[i] = IF i <= Len(r) THEN r[i] ELSE f[i - Len(r) + 1]
    BY SMTT(40), <1>1, <1>3, <1>4
  <1> QED BY <1>1, <1>5 DEF h

(* If they may be pushed anywhere, the lambda at the bottom stays as it    *)
(* is, but for what the top was of it.                                     *)
LEMMA LightTop ==
  ASSUME NEW f, Stack(f), f # <<>>, NEW r \in Seq(Ops), \A i \in 1 .. Len(r) : Light(r[i])
  PROVE  LET g == r \o Tail(f)
         IN  /\ Stack(g)
             /\ \A t \in Tasks :
                  /\ \A s \in Finals : AtEnd(g, t, s) <=> AtEnd(f, t, s) /\ Len(f) >= 2
                  /\ UpdateAtEnd(g, t) <=> UpdateAtEnd(f, t) /\ Len(f) >= 2
             /\ \A op \in {"setValue", "setException"} :
                  FirstHalf(g, op) <=> FirstHalf(f, op) /\ Len(f) >= 3
             /\ Scheduling(g) <=> Scheduling(f) /\ Len(f) >= 3
  <1> DEFINE g == r \o Tail(f)
  <1>1. f \in Seq(Ops)
    BY DEF Stack
  <1>2. /\ g \in Seq(Ops)
        /\ Len(f) \in Nat /\ Len(f) >= 1 /\ Len(r) \in Nat /\ Len(g) = Len(r) + Len(f) - 1
        /\ \A i \in 1 .. Len(g) : g[i] = IF i <= Len(r) THEN r[i] ELSE f[i - Len(r) + 1]
    BY <1>1, TopReplaced
  <1> HIDE DEF g
  <1>3. Stack(g)
    <2>1. ASSUME NEW i \in 1 .. Len(g), i <= Len(g) - 2 PROVE Light(g[i])
      BY <1>1, <1>2, <2>1 DEF Stack
    <2>2. ASSUME Len(g) >= 2 PROVE Light(g[Len(g) - 1]) \/ Halves(g[Len(g) - 1], LastOp(g))
      BY <1>1, <1>2, <2>2 DEF Stack, LastOp
    <2>3. ASSUME g # <<>> PROVE LastHalf(LastOp(g))
      <3>1. Len(g) >= 1
        BY <1>2, <2>3, EmptySeq
      <3> QED BY <1>1, <1>2, <3>1 DEF Stack, LastOp, LastHalf
    <2> QED BY <1>2, <2>1, <2>2, <2>3 DEF Stack
  <1>8. g # <<>> <=> Len(g) >= 1
    BY <1>2, EmptySeq
  <1>4. /\ Len(f) >= 2 => Len(g) >= 1 /\ LastOp(g) = LastOp(f)
        /\ Len(f) = 1 /\ Len(g) >= 1 => Light(LastOp(g))
        /\ Len(f) >= 3 => Len(g) >= 2 /\ g[Len(g) - 1] = f[Len(f) - 1]
        /\ Len(f) < 3 /\ Len(g) >= 2 => Light(g[Len(g) - 1])
    <2>1. Len(g) \in Nat
      BY <1>2
    <2>2. ASSUME Len(f) >= 2 PROVE Len(g) >= 1 /\ g[Len(g)] = f[Len(f)]
      BY <1>2, <2>1, <2>2, Places
    <2>3. ASSUME Len(f) = 1, Len(g) >= 1 PROVE Light(g[Len(g)])
      BY <1>2, <2>1, <2>3, Places
    <2>4. ASSUME Len(f) >= 3 PROVE Len(g) >= 2 /\ g[Len(g) - 1] = f[Len(f) - 1]
      <3> DEFINE k == Len(g) - 1
      <3>1. Len(g) >= 2 /\ k \in 1 .. Len(g) /\ ~(k <= Len(r)) /\ k - Len(r) + 1 = Len(f) - 1
        BY <1>2, <2>1, <2>4, Places
      <3> HIDE DEF k
      <3>2. g[k] = f[k - Len(r) + 1]
        BY <1>2, <3>1
      <3> QED BY <3>1, <3>2 DEF k
    <2>5. ASSUME Len(f) < 3, Len(g) >= 2 PROVE Light(g[Len(g) - 1])
      BY <1>2, <2>1, <2>5, Places
    <2> QED BY <2>2, <2>3, <2>4, <2>5 DEF LastOp
  <1>5. ASSUME NEW t \in Tasks
        PROVE  /\ \A s \in Finals : AtEnd(g, t, s) <=> AtEnd(f, t, s) /\ Len(f) >= 2
               /\ UpdateAtEnd(g, t) <=> UpdateAtEnd(f, t) /\ Len(f) >= 2
    <2>1. CASE Len(f) >= 2
      BY <1>2, <1>4, <1>8, <2>1 DEF AtEnd, UpdateAtEnd
    <2>2. CASE ~(Len(f) >= 2)
      <3>1. Len(f) = 1
        BY <1>2, <2>2, OneTwoMore
      <3>2. CASE g = <<>>
        BY <3>1, <3>2 DEF AtEnd, UpdateAtEnd
      <3>3. CASE g # <<>>
        BY <1>4, <1>8, <3>1, <3>3 DEF AtEnd, UpdateAtEnd, Sets, Shows, Light, Finals
      <3> QED BY <3>2, <3>3
    <2> QED BY <2>1, <2>2
  <1>6. \A op \in {"setValue", "setException"} :
          FirstHalf(g, op) <=> FirstHalf(f, op) /\ Len(f) >= 3
    BY <1>2, <1>4 DEF FirstHalf, Light
  <1>7. Scheduling(g) <=> Scheduling(f) /\ Len(f) >= 3
    BY <1>2, <1>4 DEF FirstHalf, Scheduling, Light
  <1> QED BY <1>3, <1>5, <1>6, <1>7 DEF g

(* A nested cancel() pushes one operation and leaves the rest where it is. *)
LEMMA LightPush ==
  ASSUME NEW f, Stack(f), NEW c \in Ops, Light(c)
  PROVE  LET g == <<c>> \o f
         IN  /\ Stack(g)
             /\ \A t \in Tasks :
                  /\ \A s \in Finals : AtEnd(g, t, s) <=> AtEnd(f, t, s)
                  /\ UpdateAtEnd(g, t) <=> UpdateAtEnd(f, t)
                  /\ Cancels(g, t) <=> Cancels(f, t) \/ Sets(c, t, "CANCELLED")
                  /\ c.op # "fireEvent" => /\ Firing(g, t) <=> Firing(f, t)
                                           /\ FiringOnce(f, t) => FiringOnce(g, t)
             /\ \A op \in {"setValue", "setException"} : FirstHalf(g, op) <=> FirstHalf(f, op)
             /\ Scheduling(g) <=> Scheduling(f)
             /\ g # <<>>
  <1> DEFINE g == <<c>> \o f
  <1>1. f \in Seq(Ops) /\ <<c>> \in Seq(Ops) /\ Len(<<c>>) = 1 /\ <<c>>[1] = c
    BY DEF Stack
  <1> DEFINE r == <<c>>
  <1>10. r \in Seq(Ops) /\ Len(r) = 1 /\ r[1] = c
    BY <1>1
  <1> HIDE DEF r
  <1>11. /\ r \o f \in Seq(Ops)
         /\ Len(r \o f) = Len(r) + Len(f)
         /\ \A i \in 1 .. Len(r) + Len(f) : (r \o f)[i] = IF i <= Len(r) THEN r[i] ELSE f[i - Len(r)]
    BY <1>1, <1>10, ConcatProperties
  <1>2. /\ g \in Seq(Ops)
        /\ Len(f) \in Nat /\ Len(g) = Len(f) + 1
        /\ g[1] = c
        /\ \A i \in 2 .. Len(g) : g[i] = f[i - 1]
    BY <1>1, <1>10, <1>11 DEF r
  <1> HIDE DEF g
  <1>3. \A i \in 1 .. Len(f) : f[i] = g[i + 1]
    BY <1>2
  <1>4. Stack(g)
    <2>1. ASSUME NEW i \in 1 .. Len(g), i <= Len(g) - 2 PROVE Light(g[i])
      BY <1>2, <2>1 DEF Stack
    <2>2. ASSUME Len(g) >= 2 PROVE Light(g[Len(g) - 1]) \/ Halves(g[Len(g) - 1], LastOp(g))
      BY <1>2, <2>2 DEF Stack, LastOp
    <2>3. LastHalf(LastOp(g))
      <3>1. CASE Len(f) = 0
        BY <1>2, <3>1 DEF LastOp, LastHalf
      <3>2. CASE Len(f) # 0
        <4>1. f # <<>> /\ Len(g) \in 2 .. Len(g) /\ Len(g) - 1 = Len(f)
          BY <1>2, <3>2, EmptySeq
        <4> QED BY <1>2, <4>1 DEF Stack, LastOp
      <3> QED BY <3>1, <3>2
    <2> QED BY <1>2, <2>1, <2>2, <2>3 DEF Stack
  <1>5. /\ f # <<>> <=> Len(f) >= 1
        /\ g # <<>>
    BY <1>1, <1>2, EmptySeq
  <1>6. /\ Len(f) >= 1 => LastOp(g) = LastOp(f)
        /\ Len(f) = 0 => LastOp(g) = c
        /\ Len(f) >= 2 => Len(g) >= 2 /\ g[Len(g) - 1] = f[Len(f) - 1]
        /\ Len(f) < 2 /\ Len(g) >= 2 => g[Len(g) - 1] = c
    BY <1>2 DEF LastOp
  <1>7. ASSUME NEW t \in Tasks
        PROVE  /\ \A s \in Finals : AtEnd(g, t, s) <=> AtEnd(f, t, s)
               /\ UpdateAtEnd(g, t) <=> UpdateAtEnd(f, t)
    <2>1. CASE Len(f) >= 1
      BY <1>5, <1>6, <2>1 DEF AtEnd, UpdateAtEnd
    <2>2. CASE ~(Len(f) >= 1)
      BY <1>2, <1>5, <1>6, <2>2 DEF AtEnd, UpdateAtEnd, Sets, Shows, Light, Finals
    <2> QED BY <2>1, <2>2
  <1>8. ASSUME NEW t \in Tasks
        PROVE  /\ Cancels(g, t) <=> Cancels(f, t) \/ Sets(c, t, "CANCELLED")
               /\ c.op # "fireEvent" => /\ Firing(g, t) <=> Firing(f, t)
                                        /\ FiringOnce(f, t) => FiringOnce(g, t)
    <2>1. Cancels(g, t) <=> Cancels(f, t) \/ Sets(c, t, "CANCELLED")
      BY SMTT(40), <1>2, <1>3 DEF Cancels
    <2>4. c.op # "fireEvent" => ~IsEvent(c, t)
      BY DEF IsEvent
    <2>2. ASSUME c.op # "fireEvent" PROVE Firing(g, t) <=> Firing(f, t)
      <3>1. Firing(g, t) => Firing(f, t)
        BY <1>2, <2>2, <2>4 DEF Firing
      <3>2. Firing(f, t) => Firing(g, t)
        BY <1>2, <1>3 DEF Firing
      <3> QED BY <3>1, <3>2
    <2>3. ASSUME c.op # "fireEvent", FiringOnce(f, t) PROVE FiringOnce(g, t)
      <3>1. ASSUME NEW i \in 1 .. Len(g), IsEvent(g[i], t)
            PROVE  i - 1 \in 1 .. Len(f) /\ IsEvent(f[i - 1], t)
        BY <1>2, <2>3, <2>4, <3>1
      <3>2. ASSUME NEW i \in 1 .. Len(g), NEW j \in 1 .. Len(g), IsEvent(g[i], t), IsEvent(g[j], t)
            PROVE  i = j
        <4>1. i - 1 = j - 1
          BY <2>3, <3>1, <3>2 DEF FiringOnce
        <4> QED BY <1>2, <4>1
      <3> QED BY <3>2 DEF FiringOnce
    <2> QED BY <2>1, <2>2, <2>3
  <1>9. /\ \A op \in {"setValue", "setException"} : FirstHalf(g, op) <=> FirstHalf(f, op)
        /\ Scheduling(g) <=> Scheduling(f)
    <2>1. CASE Len(f) >= 2
      BY <1>2, <1>6, <2>1 DEF FirstHalf, Scheduling
    <2>2. CASE ~(Len(f) >= 2)
      BY <1>2, <1>6, <2>2 DEF FirstHalf, Scheduling, Light
    <2> QED BY <2>1, <2>2
  <1> QED BY <1>4, <1>5, <1>7, <1>8, <1>9 DEF g

(* The cancellations and events on the stack when its top is replaced.     *)
LEMMA EventsReplaced ==
  ASSUME NEW f \in Seq(Ops), f # <<>>, NEW r \in Seq(Ops), NEW t \in Tasks
  PROVE  LET g == r \o Tail(f)
         IN  /\ Cancels(f, t) => Cancels(g, t) \/ Sets(Head(f), t, "CANCELLED")
             /\ Cancels(g, t) => Cancels(f, t) \/ Cancels(r, t)
             /\ Firing(f, t) <=> IsEvent(Head(f), t) \/ FiringBelow(f, t)
             /\ Firing(g, t) <=> Firing(r, t) \/ FiringBelow(f, t)
             /\ FiringOnce(f, t) /\ IsEvent(Head(f), t) => ~FiringBelow(f, t)
             /\ FiringOnce(f, t) /\ ~Firing(r, t) => FiringOnce(g, t)
             /\ FiringOnce(r, t) /\ ~FiringBelow(f, t) => FiringOnce(g, t)
  <1> DEFINE g == r \o Tail(f)
  <1>1. /\ g \in Seq(Ops)
        /\ Len(f) \in Nat /\ Len(f) >= 1 /\ Len(r) \in Nat /\ Len(g) = Len(r) + Len(f) - 1
        /\ \A i \in 1 .. Len(g) : g[i] = IF i <= Len(r) THEN r[i] ELSE f[i - Len(r) + 1]
    BY TopReplaced
  <1>2. Head(f) = f[1]
    OBVIOUS
  <1> HIDE DEF g
  <1>3. /\ \A i \in 1 .. Len(r) : i \in 1 .. Len(g) /\ g[i] = r[i]
        /\ \A i \in 2 .. Len(f) : i + Len(r) - 1 \in 1 .. Len(g) /\ g[i + Len(r) - 1] = f[i]
        /\ \A i \in 1 .. Len(g) : \/ i \in 1 .. Len(r) /\ g[i] = r[i]
                                  \/ i - Len(r) + 1 \in 2 .. Len(f) /\ g[i] = f[i - Len(r) + 1]
    <2>1. ASSUME NEW i \in 1 .. Len(r) PROVE i \in 1 .. Len(g) /\ g[i] = r[i]
      <3>1. Len(g) \in Nat
        BY <1>1
      <3>2. i \in 1 .. Len(g) /\ i <= Len(r)
        BY <1>1, <3>1, Places
      <3> QED BY <1>1, <3>2
    <2>2. ASSUME NEW i \in 2 .. Len(f)
          PROVE  i + Len(r) - 1 \in 1 .. Len(g) /\ g[i + Len(r) - 1] = f[i]
      <3>1. /\ i + Len(r) - 1 \in 1 .. Len(g) /\ ~(i + Len(r) - 1 <= Len(r))
            /\ i + Len(r) - 1 - Len(r) + 1 = i
        <4>1. Len(g) \in Nat
          BY <1>1
        <4> QED BY <1>1, <4>1, Places
      <3> DEFINE k == i + Len(r) - 1
      <3>2. k \in 1 .. Len(g) /\ ~(k <= Len(r)) /\ k - Len(r) + 1 = i
        BY <3>1
      <3> HIDE DEF k
      <3>3. g[k] = f[k - Len(r) + 1]
        BY <1>1, <3>2
      <3> QED BY <3>1, <3>2, <3>3 DEF k
    <2>3. ASSUME NEW i \in 1 .. Len(g)
          PROVE  \/ i \in 1 .. Len(r) /\ g[i] = r[i]
                 \/ i - Len(r) + 1 \in 2 .. Len(f) /\ g[i] = f[i - Len(r) + 1]
      <3>1. CASE i <= Len(r)
        BY <1>1, <3>1
      <3>2. CASE ~(i <= Len(r))
        <4>1. g[i] = f[i - Len(r) + 1]
          BY <1>1, <3>2
        <4>2. i - Len(r) + 1 \in 2 .. Len(f)
          BY <1>1, <3>2
        <4> QED BY <4>1, <4>2
      <3> QED BY <3>1, <3>2
    <2> QED BY <2>1, <2>2, <2>3
  <1>4. 1 \in 1 .. Len(f) /\ \A i \in 1 .. Len(f) : i = 1 \/ i \in 2 .. Len(f)
    BY <1>1
  <1>5. Cancels(f, t) => Cancels(g, t) \/ Sets(Head(f), t, "CANCELLED")
    BY <1>2, <1>3, <1>4 DEF Cancels
  <1>6. Cancels(g, t) => Cancels(f, t) \/ Cancels(r, t)
    BY <1>1, <1>3 DEF Cancels
  <1>7. Firing(f, t) <=> IsEvent(Head(f), t) \/ FiringBelow(f, t)
    BY <1>1, <1>2, <1>4 DEF Firing, FiringBelow
  <1>8. Firing(g, t) <=> Firing(r, t) \/ FiringBelow(f, t)
    BY <1>3 DEF Firing, FiringBelow
  <1>9. FiringOnce(f, t) /\ IsEvent(Head(f), t) => ~FiringBelow(f, t)
    BY <1>1, <1>2 DEF FiringOnce, FiringBelow
  <1>10. FiringOnce(f, t) /\ ~Firing(r, t) => FiringOnce(g, t)
    <2>1. ASSUME ~Firing(r, t), NEW i \in 1 .. Len(g), IsEvent(g[i], t)
          PROVE  i - Len(r) + 1 \in 1 .. Len(f) /\ IsEvent(f[i - Len(r) + 1], t)
      BY <1>1, <1>3, <2>1 DEF Firing
    <2>2. ASSUME ~Firing(r, t), FiringOnce(f, t), NEW i \in 1 .. Len(g), NEW j \in 1 .. Len(g),
                 IsEvent(g[i], t), IsEvent(g[j], t)
          PROVE  i = j
      <3>1. i - Len(r) + 1 = j - Len(r) + 1
        BY <2>1, <2>2 DEF FiringOnce
      <3> QED BY <1>1, <3>1
    <2> QED BY <2>2 DEF FiringOnce
  <1>11. FiringOnce(r, t) /\ ~FiringBelow(f, t) => FiringOnce(g, t)
    BY <1>1, <1>3 DEF FiringOnce, FiringBelow
  <1> QED BY <1>5, <1>6, <1>7, <1>8, <1>9, <1>10, <1>11 DEF g
-----------------------------------------------------------------------------
(* A lambda is a stack: its last operation says what it is, and nothing of *)
(* it is done yet.                                                         *)
LEMMA LambdaIsStack ==
  ASSUME NEW L \in Lambdas
  PROVE  /\ Stack(L) /\ L # <<>>
         /\ \A t \in Tasks :
              /\ ~Firing(L, t)
              /\ Cancels(L, t) <=> Sets(LastOp(L), t, "CANCELLED")
              /\ AtEnd(L, t, "RUNNING") => Scheduling(L)
              /\ AtEnd(L, t, "SUCCEEDED") => FirstHalf(L, "setValue")
              /\ AtEnd(L, t, "FAILED") => FirstHalf(L, "setException")
  <1>1. PICK u \in Tasks : L \in {StartLambda(u), SucceedLambda(u), FailLambda(u), CancelLambda(u),
                                  UpdateLambda(u)}
    BY DEF Lambdas
  <1>4. /\ Op("setState", u, "SCHEDULED") \in Ops /\ Op("setState", u, "RUNNING") \in Ops
        /\ Op("setValue", u, "result") \in Ops /\ Op("setState", u, "SUCCEEDED") \in Ops
        /\ Op("setException", u, "null") \in Ops /\ Op("setState", u, "FAILED") \in Ops
        /\ Op("setState", u, "CANCELLED") \in Ops /\ Op("takeUpdate", u, "null") \in Ops
    <2>1. Op("setState", u, "SCHEDULED") \in Ops
      BY DEF Op, Ops, States, Values, Sites
    <2>2. Op("setState", u, "RUNNING") \in Ops
      BY DEF Op, Ops, States, Values, Sites
    <2>3. Op("setValue", u, "result") \in Ops
      BY DEF Op, Ops, States, Values, Sites
    <2>4. Op("setState", u, "SUCCEEDED") \in Ops
      BY DEF Op, Ops, States, Values, Sites
    <2>5. Op("setException", u, "null") \in Ops
      BY DEF Op, Ops, States, Values, Sites
    <2>6. Op("setState", u, "FAILED") \in Ops
      BY DEF Op, Ops, States, Values, Sites
    <2>7. Op("setState", u, "CANCELLED") \in Ops
      BY DEF Op, Ops, States, Values, Sites
    <2>8. Op("takeUpdate", u, "null") \in Ops
      BY DEF Op, Ops, States, Values, Sites
    <2> QED BY <2>1, <2>2, <2>3, <2>4, <2>5, <2>6, <2>7, <2>8
  <1> USE DEF Op, Ops, Light, Halves, LastHalf, LastOp, Sets, Finals, Values
  <1>2. CASE \E o \in Ops, p \in Ops : /\ L = <<o, p>>
                                       /\ Halves(o, p) /\ p.op = "setState" /\ p.v \in Finals
                                       /\ o.op # "fireEvent"
    <2> HIDE DEF Op, Ops, Light, Halves, LastHalf, LastOp, Sets, Finals, Values
    <2>1. PICK o \in Ops, p \in Ops : /\ L = <<o, p>>
                                      /\ Halves(o, p) /\ p.op = "setState" /\ p.v \in Finals
                                      /\ o.op # "fireEvent"
      BY <1>2
    <2>2. L \in Seq(Ops) /\ Len(L) = 2 /\ L[1] = o /\ L[2] = p /\ LastOp(L) = p /\ L # <<>>
      BY <2>1 DEF LastOp
    <2>3. Stack(L)
      BY <2>1, <2>2 DEF Stack, LastHalf
    <2>4. ASSUME NEW t \in Tasks
          PROVE  /\ ~Firing(L, t)
                 /\ Cancels(L, t) <=> Sets(LastOp(L), t, "CANCELLED")
      BY <2>1, <2>2 DEF Firing, IsEvent, Cancels, Sets, Finals, Halves
    <2>5. ASSUME NEW t \in Tasks
          PROVE  /\ AtEnd(L, t, "RUNNING") => Scheduling(L)
                 /\ AtEnd(L, t, "SUCCEEDED") => FirstHalf(L, "setValue")
                 /\ AtEnd(L, t, "FAILED") => FirstHalf(L, "setException")
      BY <2>1, <2>2 DEF AtEnd, Sets, Scheduling, FirstHalf, Halves
    <2> QED BY <2>2, <2>3, <2>4, <2>5
  <1>3. CASE \E o \in Ops : L = <<o>> /\ ((o.op = "setState" /\ o.v = "CANCELLED") \/ o.op = "takeUpdate")
    <2> HIDE DEF Op, Ops, Light, Halves, LastHalf, LastOp, Sets, Finals, Values
    <2>1. PICK o \in Ops : L = <<o>> /\ ((o.op = "setState" /\ o.v = "CANCELLED") \/ o.op = "takeUpdate")
      BY <1>3
    <2>2. L \in Seq(Ops) /\ Len(L) = 1 /\ L[1] = o /\ LastOp(L) = o /\ L # <<>>
      BY <2>1 DEF LastOp
    <2>3. Stack(L)
      BY <2>1, <2>2 DEF Stack, LastHalf, Light
    <2>4. ASSUME NEW t \in Tasks
          PROVE  /\ ~Firing(L, t)
                 /\ Cancels(L, t) <=> Sets(LastOp(L), t, "CANCELLED")
                 /\ \A s \in Finals : ~AtEnd(L, t, s)
      BY <2>1, <2>2 DEF Firing, IsEvent, Cancels, AtEnd, Sets, Finals
    <2> QED BY <2>2, <2>3, <2>4 DEF Finals
  <1>5. CASE L \in {StartLambda(u), SucceedLambda(u), FailLambda(u)}
    BY <1>2, <1>4, <1>5 DEF StartLambda, SucceedLambda, FailLambda
  <1>6. CASE L \in {CancelLambda(u), UpdateLambda(u)}
    BY <1>3, <1>4, <1>6 DEF CancelLambda, UpdateLambda
  <1> QED BY <1>1, <1>5, <1>6

(* The queue when a lambda is posted, in the order in which call() does.   *)
LEMMA Posted ==
  ASSUME NEW q, Queue(q), NEW L \in Lambdas,
         \A t \in Tasks :
           /\ \A s \in Finals : Sets(LastOp(L), t, s) => ~InQueue(q, t, s)
           /\ \A s \in {"SUCCEEDED", "FAILED"} : Sets(LastOp(L), t, "RUNNING") => ~InQueue(q, t, s)
           /\ Shows(LastOp(L), t) => ~InQueue(q, t, "SUCCEEDED")
  PROVE  LET p == Append(q, L)
         IN  /\ Queue(p)
             /\ \A t \in Tasks, s \in States :
                  InQueue(p, t, s) <=> InQueue(q, t, s) \/ Sets(LastOp(L), t, s)
             /\ \A t \in Tasks : UpdateQueued(p, t) <=> UpdateQueued(q, t) \/ Shows(LastOp(L), t)
             /\ p # <<>>
  <1> DEFINE p == Append(q, L)
  <1>1. q \in Seq(Lambdas)
    BY DEF Queue
  <1>2. /\ p \in Seq(Lambdas) /\ p # <<>>
        /\ Len(q) \in Nat /\ Len(p) = Len(q) + 1
        /\ \A i \in 1 .. Len(q) : p[i] = q[i]
        /\ p[Len(q) + 1] = L
    BY <1>1, AppendProperties
  <1> HIDE DEF p
  <1>3. /\ \A i \in 1 .. Len(p) : (i \in 1 .. Len(q) /\ p[i] = q[i]) \/ (i = Len(q) + 1 /\ p[i] = L)
        /\ \A i \in 1 .. Len(q) : i \in 1 .. Len(p) /\ i < Len(q) + 1
        /\ Len(q) + 1 \in 1 .. Len(p)
    BY <1>2
  <1>4. ASSUME NEW t \in Tasks, NEW i \in 1 .. Len(p), NEW j \in 1 .. Len(p)
        PROVE  /\ \A s \in Finals : Sets(LastOp(p[i]), t, s) /\ Sets(LastOp(p[j]), t, s) => i = j
               /\ \A s \in {"SUCCEEDED", "FAILED"} :
                    Sets(LastOp(p[i]), t, "RUNNING") /\ Sets(LastOp(p[j]), t, s) => i < j
               /\ Shows(LastOp(p[i]), t) /\ Sets(LastOp(p[j]), t, "SUCCEEDED") => i < j
    <2>1. CASE i \in 1 .. Len(q) /\ j \in 1 .. Len(q)
      BY <1>2, <2>1 DEF Queue
    <2>2. CASE i \in 1 .. Len(q) /\ j = Len(q) + 1
      BY <1>2, <1>3, <2>2 DEF InQueue
    <2>3. CASE i = Len(q) + 1 /\ j \in 1 .. Len(q)
      BY <1>2, <2>3 DEF InQueue
    <2>4. CASE i = Len(q) + 1 /\ j = Len(q) + 1
      BY <1>2, <2>4 DEF Sets, Shows
    <2> QED BY <1>3, <2>1, <2>2, <2>3, <2>4
  <1>5. Queue(p)
    BY <1>2, <1>4 DEF Queue
  <1>6. ASSUME NEW t \in Tasks, NEW s \in States
        PROVE  InQueue(p, t, s) <=> InQueue(q, t, s) \/ Sets(LastOp(L), t, s)
    BY <1>2, <1>3 DEF InQueue
  <1>7. ASSUME NEW t \in Tasks
        PROVE  UpdateQueued(p, t) <=> UpdateQueued(q, t) \/ Shows(LastOp(L), t)
    BY <1>2, <1>3 DEF UpdateQueued
  <1> QED BY <1>2, <1>5, <1>6, <1>7 DEF p

(* The queue when its first lambda is taken.                               *)
LEMMA Taken ==
  ASSUME NEW q, Queue(q), q # <<>>
  PROVE  LET L == Head(q)
             p == Tail(q)
         IN  /\ L \in Lambdas /\ Queue(p)
             /\ \A t \in Tasks : \A s \in States :
                  InQueue(q, t, s) <=> InQueue(p, t, s) \/ AtEnd(L, t, s)
             /\ \A t \in Tasks :
                  /\ UpdateQueued(q, t) <=> UpdateQueued(p, t) \/ UpdateAtEnd(L, t)
                  /\ \A s \in Finals : AtEnd(L, t, s) => ~InQueue(p, t, s)
                  /\ AtEnd(L, t, "SUCCEEDED") => ~InQueue(p, t, "RUNNING") /\ ~UpdateQueued(p, t)
                  /\ AtEnd(L, t, "FAILED") => ~InQueue(p, t, "RUNNING")
  <1> DEFINE L == Head(q)
             p == Tail(q)
  <1>1. q \in Seq(Lambdas) /\ L \in Lambdas /\ p \in Seq(Lambdas) /\ L = q[1]
    BY HeadTailProperties DEF Queue
  <1>2. /\ Len(q) \in Nat /\ Len(q) >= 1 /\ Len(p) = Len(q) - 1
        /\ \A i \in 1 .. Len(p) : p[i] = q[i + 1]
    BY <1>1, EmptySeq, HeadTailProperties
  <1>3. L # <<>>
    BY <1>1, LambdaIsStack
  <1> HIDE DEF L, p
  <1>4. /\ \A i \in 1 .. Len(p) : i + 1 \in 1 .. Len(q) /\ i + 1 # 1 /\ ~(i + 1 < 1) /\ p[i] = q[i + 1]
        /\ \A i \in 1 .. Len(q) : i = 1 \/ (i - 1 \in 1 .. Len(p) /\ q[i] = p[i - 1])
        /\ 1 \in 1 .. Len(q)
    BY <1>2
  <1>5. Queue(p)
    <2>1. ASSUME NEW t \in Tasks, NEW i \in 1 .. Len(p), NEW j \in 1 .. Len(p)
          PROVE  /\ \A s \in Finals : Sets(LastOp(p[i]), t, s) /\ Sets(LastOp(p[j]), t, s) => i = j
                 /\ \A s \in {"SUCCEEDED", "FAILED"} :
                      Sets(LastOp(p[i]), t, "RUNNING") /\ Sets(LastOp(p[j]), t, s) => i < j
                 /\ Shows(LastOp(p[i]), t) /\ Sets(LastOp(p[j]), t, "SUCCEEDED") => i < j
      <3>1. i + 1 \in 1 .. Len(q) /\ j + 1 \in 1 .. Len(q) /\ p[i] = q[i + 1] /\ p[j] = q[j + 1]
        BY <1>4
      <3>2. /\ \A s \in Finals : Sets(LastOp(p[i]), t, s) /\ Sets(LastOp(p[j]), t, s) => i + 1 = j + 1
            /\ \A s \in {"SUCCEEDED", "FAILED"} :
                 Sets(LastOp(p[i]), t, "RUNNING") /\ Sets(LastOp(p[j]), t, s) => i + 1 < j + 1
            /\ Shows(LastOp(p[i]), t) /\ Sets(LastOp(p[j]), t, "SUCCEEDED") => i + 1 < j + 1
        BY <3>1 DEF Queue
      <3>3. i \in Int /\ j \in Int
        BY <1>2
      <3>4. (i + 1 = j + 1 => i = j) /\ (i + 1 < j + 1 => i < j)
        BY <3>3
      <3> QED BY <3>2, <3>4
    <2> QED BY <1>1, <2>1 DEF Queue
  <1>6. ASSUME NEW t \in Tasks, NEW s \in States
        PROVE  InQueue(q, t, s) <=> InQueue(p, t, s) \/ AtEnd(L, t, s)
    BY <1>1, <1>3, <1>4 DEF InQueue, AtEnd
  <1>7. ASSUME NEW t \in Tasks
        PROVE  /\ UpdateQueued(q, t) <=> UpdateQueued(p, t) \/ UpdateAtEnd(L, t)
               /\ \A s \in Finals : AtEnd(L, t, s) => ~InQueue(p, t, s)
               /\ AtEnd(L, t, "SUCCEEDED") => ~InQueue(p, t, "RUNNING") /\ ~UpdateQueued(p, t)
               /\ AtEnd(L, t, "FAILED") => ~InQueue(p, t, "RUNNING")
    <2>1. UpdateQueued(q, t) <=> UpdateQueued(p, t) \/ UpdateAtEnd(L, t)
      BY <1>1, <1>3, <1>4 DEF UpdateQueued, UpdateAtEnd
    <2>2. \A s \in Finals : AtEnd(L, t, s) => ~InQueue(p, t, s)
      BY <1>1, <1>4 DEF AtEnd, InQueue, Queue
    <2>3. \A s \in {"SUCCEEDED", "FAILED"} : AtEnd(L, t, s) => ~InQueue(p, t, "RUNNING")
      BY <1>1, <1>4 DEF AtEnd, InQueue, Queue
    <2>4. AtEnd(L, t, "SUCCEEDED") => ~UpdateQueued(p, t)
      BY <1>1, <1>4 DEF AtEnd, UpdateQueued, Queue
    <2> QED BY <2>1, <2>2, <2>3, <2>4
  <1> QED BY <1>1, <1>5, <1>6, <1>7 DEF L, p
-----------------------------------------------------------------------------
(* What callbacks and listeners push neither sets a state nor fires.       *)
Harmless(r) == /\ r \in Seq(Ops)
               /\ \A i \in 1 .. Len(r) : r[i].op \in {"callback", "setRunning"}

(* Nothing, a callback, and the call of listeners if something changed,    *)
(* are harmless.                                                           *)
LEMMA HarmlessOps ==
  ASSUME NEW t \in Tasks, NEW site \in Sites, NEW b \in BOOLEAN
  PROVE  Harmless(<<>>) /\ Harmless(<<Callback(t, site)>>) /\ Harmless(Notify(b, t, site))
  <1>1. Callback(t, site) \in Ops /\ Callback(t, site).op = "callback"
    BY DEF Callback, Op, Ops
  <1>2. Harmless(<<>>)
    BY DEF Harmless
  <1>3. Harmless(<<Callback(t, site)>>)
    BY <1>1 DEF Harmless
  <1> QED BY <1>2, <1>3 DEF Notify

(* What is harmless may be pushed anywhere, cancels nothing and fires      *)
(* nothing.                                                                *)
LEMMA HarmlessIsLight ==
  ASSUME NEW r, Harmless(r)
  PROVE  /\ r \in Seq(Ops)
         /\ \A i \in 1 .. Len(r) : Light(r[i])
         /\ \A t \in Tasks : ~Cancels(r, t) /\ ~Firing(r, t)
  BY DEF Harmless, Light, Cancels, Sets, Firing, IsEvent

(* What setState pushes: a call of the listeners if the state has changed, *)
(* the running flag, and one event.                                        *)
LEMMA SetStateOps ==
  ASSUME NEW t \in Tasks, NEW s \in States, NEW b \in BOOLEAN
  PROVE  LET r == Notify(b, t, "stateListener") \o <<Op("setRunning", t, s), Op("fireEvent", t, "null")>>
         IN  /\ r \in Seq(Ops)
             /\ \A i \in 1 .. Len(r) : Light(r[i])
             /\ \A u \in Tasks : ~Cancels(r, u) /\ (Firing(r, u) <=> u = t) /\ FiringOnce(r, u)
  <1> DEFINE h == Notify(b, t, "stateListener")
             e == <<Op("setRunning", t, s), Op("fireEvent", t, "null")>>
             r == h \o e
  <1>1. h \in Seq(Ops) /\ Len(h) \in Nat /\ \A i \in 1 .. Len(h) : h[i].op \in {"callback", "setRunning"}
    <2>1. Harmless(h)
      BY HarmlessOps DEF Sites
    <2> QED BY <2>1 DEF Harmless
  <1>2. /\ Op("setRunning", t, s) \in Ops
        /\ Op("setRunning", t, s).op = "setRunning"
        /\ Op("fireEvent", t, "null") \in Ops
        /\ Op("fireEvent", t, "null").op = "fireEvent" /\ Op("fireEvent", t, "null").t = t
    BY DEF Op, Ops, Values
  <1>3. /\ e \in Seq(Ops) /\ Len(e) = 2
        /\ e[1].op = "setRunning" /\ e[2].op = "fireEvent" /\ e[2].t = t
    BY <1>2
  <1> HIDE DEF h, e
  <1>9. /\ r \in Seq(Ops) /\ Len(r) = Len(h) + Len(e)
        /\ \A i \in 1 .. Len(h) + Len(e) : r[i] = IF i <= Len(h) THEN h[i] ELSE e[i - Len(h)]
    BY ZenonT(60), <1>1, <1>3, ConcatProperties
  <1>4. /\ r \in Seq(Ops) /\ Len(r) = Len(h) + 2
        /\ \A i \in 1 .. Len(h) + 2 : r[i] = IF i <= Len(h) THEN h[i] ELSE e[i - Len(h)]
    BY <1>3, <1>9
  <1> HIDE DEF r
  <1>5. /\ Len(r) \in 1 .. Len(r)
        /\ r[Len(r)].op = "fireEvent" /\ r[Len(r)].t = t
    <2>1. Len(r) \in 1 .. Len(r) /\ ~(Len(r) <= Len(h)) /\ Len(r) - Len(h) = 2
      BY <1>1, <1>4
    <2>2. r[Len(r)] = e[Len(r) - Len(h)]
      BY <1>3, <1>4, <2>1
    <2> QED BY <1>3, <2>1, <2>2
  <1>6. \A i \in 1 .. Len(r) : i = Len(r) \/ r[i].op \in {"callback", "setRunning"}
    <2> SUFFICES ASSUME NEW i \in 1 .. Len(r), i # Len(r)
                 PROVE  r[i].op \in {"callback", "setRunning"}
      OBVIOUS
    <2>1. CASE i <= Len(h)
      BY <1>1, <1>3, <1>4, <2>1
    <2>2. CASE ~(i <= Len(h))
      <3>1. i - Len(h) = 1
        BY <1>1, <1>4, <2>2
      <3>2. r[i] = e[i - Len(h)]
        BY <1>1, <1>3, <1>4, <2>2
      <3> QED BY <1>3, <3>1, <3>2
    <2> QED BY <2>1, <2>2
  <1>7. \A i \in 1 .. Len(r) : Light(r[i])
    BY <1>5, <1>6 DEF Light
  <1>8. \A u \in Tasks : ~Cancels(r, u) /\ (Firing(r, u) <=> u = t) /\ FiringOnce(r, u)
    BY <1>5, <1>6 DEF Cancels, Sets, Firing, FiringOnce, IsEvent
  <1> QED BY <1>4, <1>7, <1>8 DEF r, h, e

(* The top of the stack: where it can be a part of a lambda.               *)
LEMMA TopIs ==
  ASSUME NEW f, Stack(f), f # <<>>
  PROVE  /\ Head(f) \in Ops
         /\ Len(f) \in Nat /\ Len(f) >= 1
         /\ \/ Light(Head(f))
            \/ Len(f) = 1 /\ Head(f) = LastOp(f) /\ LastHalf(LastOp(f))
            \/ Len(f) = 2 /\ Head(f) = f[Len(f) - 1] /\ Halves(f[Len(f) - 1], LastOp(f))
  <1>1. f \in Seq(Ops) /\ Len(f) \in Nat /\ Len(f) >= 1 /\ Head(f) = f[1] /\ Head(f) \in Ops
    BY EmptySeq DEF Stack
  <1>2. CASE Len(f) = 1
    BY <1>1, <1>2 DEF Stack, LastOp
  <1>3. CASE Len(f) = 2
    BY <1>1, <1>3 DEF Stack
  <1>4. CASE Len(f) >= 3
    BY <1>1, <1>4 DEF Stack
  <1>5. Len(f) = 1 \/ Len(f) = 2 \/ Len(f) >= 3
    BY <1>1, OneTwoMore
  <1> QED BY <1>1, <1>2, <1>3, <1>4, <1>5
-----------------------------------------------------------------------------
(* What a step leaves of the stack when it replaces the top by operations  *)
(* that may be pushed anywhere; and what it does to the events of t.       *)
Beneath ==
  /\ fx # <<>> /\ Stack(fx')
  /\ \A t \in Tasks :
       /\ \A s \in Finals : AtEnd(fx', t, s) <=> AtEnd(fx, t, s) /\ Len(fx) >= 2
       /\ UpdateAtEnd(fx', t) <=> UpdateAtEnd(fx, t) /\ Len(fx) >= 2
       /\ Cancels(fx, t) => Cancels(fx', t) \/ Sets(Head(fx), t, "CANCELLED")
       /\ Cancels(fx', t) => Cancels(fx, t)
       /\ Firing(fx, t) <=> IsEvent(Head(fx), t) \/ FiringBelow(fx, t)
       /\ FiringOnce(fx, t) /\ IsEvent(Head(fx), t) => ~FiringBelow(fx, t)
  /\ \A op \in {"setValue", "setException"} : FirstHalf(fx', op) <=> FirstHalf(fx, op) /\ Len(fx) >= 3
  /\ Scheduling(fx') <=> Scheduling(fx) /\ Len(fx) >= 3

Quiet(t) == /\ Firing(fx', t) <=> FiringBelow(fx, t)
            /\ FiringOnce(fx, t) => FiringOnce(fx', t)
Loud(t)  == /\ Firing(fx', t)
            /\ ~FiringBelow(fx, t) => FiringOnce(fx', t)

(* A step of the FX thread that replaces the top of the stack by r.        *)
LEMMA ReplacedBy ==
  ASSUME Stack(fx), fx # <<>>, NEW r \in Seq(Ops), \A i \in 1 .. Len(r) : Light(r[i]),
         \A t \in Tasks : ~Cancels(r, t), Continue(r)
  PROVE  /\ Beneath
         /\ \A t \in Tasks : ~Firing(r, t) => Quiet(t)
         /\ \A t \in Tasks : Firing(r, t) /\ FiringOnce(r, t) => Loud(t)
  <1>1. fx' = r \o Tail(fx) /\ fx \in Seq(Ops)
    BY DEF Continue, Stack
  <1>2. /\ Stack(fx')
        /\ \A t \in Tasks :
             /\ \A s \in Finals : AtEnd(fx', t, s) <=> AtEnd(fx, t, s) /\ Len(fx) >= 2
             /\ UpdateAtEnd(fx', t) <=> UpdateAtEnd(fx, t) /\ Len(fx) >= 2
        /\ \A op \in {"setValue", "setException"} :
             FirstHalf(fx', op) <=> FirstHalf(fx, op) /\ Len(fx) >= 3
        /\ Scheduling(fx') <=> Scheduling(fx) /\ Len(fx) >= 3
    <2> DEFINE g == r \o Tail(fx)
    <2>1. /\ Stack(g)
          /\ \A t \in Tasks :
               /\ \A s \in Finals : AtEnd(g, t, s) <=> AtEnd(fx, t, s) /\ Len(fx) >= 2
               /\ UpdateAtEnd(g, t) <=> UpdateAtEnd(fx, t) /\ Len(fx) >= 2
          /\ \A op \in {"setValue", "setException"} :
               FirstHalf(g, op) <=> FirstHalf(fx, op) /\ Len(fx) >= 3
          /\ Scheduling(g) <=> Scheduling(fx) /\ Len(fx) >= 3
      BY LightTop
    <2>2. fx' = g
      BY <1>1
    <2> HIDE DEF g
    <2> QED BY <2>1, <2>2
  <1>3. ASSUME NEW t \in Tasks
        PROVE  /\ Cancels(fx, t) => Cancels(fx', t) \/ Sets(Head(fx), t, "CANCELLED")
               /\ Cancels(fx', t) => Cancels(fx, t) \/ Cancels(r, t)
               /\ Firing(fx, t) <=> IsEvent(Head(fx), t) \/ FiringBelow(fx, t)
               /\ Firing(fx', t) <=> Firing(r, t) \/ FiringBelow(fx, t)
               /\ FiringOnce(fx, t) /\ IsEvent(Head(fx), t) => ~FiringBelow(fx, t)
               /\ FiringOnce(fx, t) /\ ~Firing(r, t) => FiringOnce(fx', t)
               /\ FiringOnce(r, t) /\ ~FiringBelow(fx, t) => FiringOnce(fx', t)
    BY <1>1, EventsReplaced, Zenon
  <1>4. Beneath
    BY <1>2, <1>3 DEF Beneath
  <1> QED BY <1>3, <1>4 DEF Quiet, Loud

(* ... and by harmless operations.                                         *)
LEMMA HarmlessStep ==
  ASSUME Stack(fx), fx # <<>>, NEW r, Harmless(r), Continue(r)
  PROVE  Beneath /\ \A t \in Tasks : Quiet(t)
  BY HarmlessIsLight, ReplacedBy

(* Which operations setState, setValue and the others find at the top.     *)
LEMMA SetStateFinds ==
  ASSUME Stack(fx), NEW t \in Tasks, Top("setState", t)
  PROVE  /\ Len(fx) \in Nat /\ Len(fx) >= 1
         /\ Arg \in States
         /\ \/ Arg = "CANCELLED"
            \/ Len(fx) = 2 /\ Arg = "SCHEDULED" /\ AtEnd(fx, t, "RUNNING") /\ Scheduling(fx)
            \/ Len(fx) = 1 /\ Arg \in Finals /\ AtEnd(fx, t, Arg)
         /\ \A u \in Tasks : Sets(Head(fx), u, "CANCELLED") <=> u = t /\ Arg = "CANCELLED"
         /\ \A u \in Tasks : ~IsEvent(Head(fx), u)
  <1>1. fx # <<>> /\ Head(fx).op = "setState" /\ Head(fx).t = t /\ Head(fx).v = Arg
    BY DEF Top, Arg
  <1>2. /\ Len(fx) \in Nat /\ Len(fx) >= 1
        /\ \/ Light(Head(fx))
           \/ Len(fx) = 1 /\ Head(fx) = LastOp(fx) /\ LastHalf(LastOp(fx))
           \/ Len(fx) = 2 /\ Head(fx) = fx[Len(fx) - 1] /\ Halves(fx[Len(fx) - 1], LastOp(fx))
    BY <1>1, TopIs
  <1>3. CASE Light(Head(fx))
    BY <1>1, <1>2, <1>3 DEF Light, States, Sets, IsEvent
  <1>4. CASE Len(fx) = 1 /\ Head(fx) = LastOp(fx) /\ LastHalf(LastOp(fx)) /\ ~Light(Head(fx))
    BY <1>1, <1>2, <1>4 DEF LastHalf, States, Finals, Sets, AtEnd, IsEvent
  <1>5. CASE Len(fx) = 2 /\ Head(fx) = fx[Len(fx) - 1] /\ Halves(fx[Len(fx) - 1], LastOp(fx))
    BY <1>1, <1>2, <1>5 DEF Halves, States, Sets, AtEnd, Scheduling, FirstHalf, IsEvent
  <1> QED BY <1>2, <1>3, <1>4, <1>5

(* setValue is the first half of the lambda that succeeds, or shows an     *)
(* update.                                                                 *)
LEMMA SetValueFinds ==
  ASSUME Stack(fx), NEW t \in Tasks, Top("setValue", t)
  PROVE  /\ Len(fx) \in Nat /\ Len(fx) >= 1
         /\ Arg \in Values
         /\ \/ Len(fx) = 2 /\ Arg = "result" /\ AtEnd(fx, t, "SUCCEEDED") /\ FirstHalf(fx, "setValue")
            \/ Len(fx) = 1 /\ UpdateAtEnd(fx, t)
         /\ \A u \in Tasks : ~Sets(Head(fx), u, "CANCELLED") /\ ~IsEvent(Head(fx), u)
  <1>1. fx # <<>> /\ Head(fx).op = "setValue" /\ Head(fx).t = t /\ Head(fx).v = Arg
    BY DEF Top, Arg
  <1>2. /\ Len(fx) \in Nat /\ Len(fx) >= 1
        /\ \/ Light(Head(fx))
           \/ Len(fx) = 1 /\ Head(fx) = LastOp(fx) /\ LastHalf(LastOp(fx))
           \/ Len(fx) = 2 /\ Head(fx) = fx[Len(fx) - 1] /\ Halves(fx[Len(fx) - 1], LastOp(fx))
    BY <1>1, TopIs
  <1>3. ~Light(Head(fx))
    BY <1>1 DEF Light
  <1>4. CASE Len(fx) = 1 /\ Head(fx) = LastOp(fx) /\ LastHalf(LastOp(fx))
    BY <1>1, <1>2, <1>3, <1>4 DEF LastHalf, Values, Shows, UpdateAtEnd, Sets, IsEvent
  <1>5. CASE Len(fx) = 2 /\ Head(fx) = fx[Len(fx) - 1] /\ Halves(fx[Len(fx) - 1], LastOp(fx))
    BY <1>1, <1>2, <1>5 DEF Halves, Values, Sets, AtEnd, FirstHalf, IsEvent
  <1> QED BY <1>2, <1>3, <1>4, <1>5

(* _setException is the first half of the lambda that fails.               *)
LEMMA SetExceptionFinds ==
  ASSUME Stack(fx), NEW t \in Tasks, Top("setException", t)
  PROVE  /\ Len(fx) = 2 /\ AtEnd(fx, t, "FAILED") /\ FirstHalf(fx, "setException")
         /\ \A u \in Tasks : ~Sets(Head(fx), u, "CANCELLED") /\ ~IsEvent(Head(fx), u)
  <1>1. fx # <<>> /\ Head(fx).op = "setException" /\ Head(fx).t = t
    BY DEF Top
  <1>2. /\ Len(fx) \in Nat /\ Len(fx) >= 1
        /\ \/ Light(Head(fx))
           \/ Len(fx) = 1 /\ Head(fx) = LastOp(fx) /\ LastHalf(LastOp(fx))
           \/ Len(fx) = 2 /\ Head(fx) = fx[Len(fx) - 1] /\ Halves(fx[Len(fx) - 1], LastOp(fx))
    BY <1>1, TopIs
  <1>3. Len(fx) = 2 /\ Head(fx) = fx[Len(fx) - 1] /\ Halves(fx[Len(fx) - 1], LastOp(fx))
    BY <1>1, <1>2 DEF Light, LastHalf
  <1> QED BY <1>1, <1>3 DEF Halves, Sets, AtEnd, FirstHalf, IsEvent

(* The lambda of updateValue is alone on the stack when it begins.         *)
LEMMA TakeUpdateFinds ==
  ASSUME Stack(fx), NEW t \in Tasks, Top("takeUpdate", t)
  PROVE  /\ Len(fx) = 1 /\ UpdateAtEnd(fx, t) /\ LastOp(fx).op = "takeUpdate" /\ LastOp(fx).t = t
         /\ \A u \in Tasks : ~Cancels(fx, u) /\ ~Firing(fx, u)
  <1>1. fx # <<>> /\ Head(fx).op = "takeUpdate" /\ Head(fx).t = t
    BY DEF Top
  <1>2. /\ Len(fx) \in Nat /\ Len(fx) >= 1
        /\ \/ Light(Head(fx))
           \/ Len(fx) = 1 /\ Head(fx) = LastOp(fx) /\ LastHalf(LastOp(fx))
           \/ Len(fx) = 2 /\ Head(fx) = fx[Len(fx) - 1] /\ Halves(fx[Len(fx) - 1], LastOp(fx))
    BY <1>1, TopIs
  <1>3. Len(fx) = 1 /\ Head(fx) = LastOp(fx)
    BY <1>1, <1>2 DEF Light, Halves
  <1>4. \A i \in 1 .. Len(fx) : fx[i] = Head(fx)
    BY <1>3 DEF LastOp
  <1> QED BY <1>1, <1>3, <1>4 DEF Shows, UpdateAtEnd, Cancels, Sets, Firing, IsEvent
-----------------------------------------------------------------------------
(* The lambda at the bottom of the stack is left as it is.                 *)
Unmoved ==
  /\ Stack(fx')
  /\ \A t \in Tasks : /\ \A s \in Finals : AtEnd(fx', t, s) <=> AtEnd(fx, t, s)
                      /\ UpdateAtEnd(fx', t) <=> UpdateAtEnd(fx, t)
  /\ \A op \in {"setValue", "setException"} : FirstHalf(fx', op) <=> FirstHalf(fx, op)
  /\ Scheduling(fx') <=> Scheduling(fx)

(* An operation that was pushed on a lambda leaves it as it is.            *)
LEMMA LightUnmoved ==
  ASSUME Stack(fx), Beneath, Light(Head(fx))
  PROVE  Unmoved
  <1>1. fx # <<>> /\ fx \in Seq(Ops) /\ Len(fx) \in Nat /\ Len(fx) >= 1 /\ Head(fx) = fx[1]
    BY EmptySeq DEF Beneath, Stack
  <1>2. Len(fx) = 1 \/ Len(fx) = 2 \/ Len(fx) >= 3
    BY <1>1, OneTwoMore
  <1>3. CASE Len(fx) = 1
    <2>1. Light(LastOp(fx))
      BY <1>1, <1>3 DEF LastOp
    <2>2. \A t \in Tasks : /\ \A s \in Finals : ~AtEnd(fx, t, s)
                           /\ ~UpdateAtEnd(fx, t)
      BY <2>1 DEF Light, AtEnd, UpdateAtEnd, Sets, Shows, Finals
    <2> QED BY <1>3, <2>2 DEF Beneath, Unmoved, FirstHalf, Scheduling
  <1>4. CASE Len(fx) = 2
    <2>1. Light(fx[Len(fx) - 1])
      BY <1>1, <1>4
    <2>2. ~FirstHalf(fx, "setValue") /\ ~FirstHalf(fx, "setException") /\ ~Scheduling(fx)
      BY <2>1 DEF Light, FirstHalf, Scheduling
    <2> QED BY <1>4, <2>2 DEF Beneath, Unmoved
  <1>5. CASE Len(fx) >= 3
    BY <1>1, <1>5 DEF Beneath, Unmoved
  <1> QED BY <1>2, <1>3, <1>4, <1>5

(* What the steps of the FX thread do to the stack: a callback returns ... *)
LEMMA ReturnStep ==
  ASSUME Stack(fx), Return
  PROVE  /\ Beneath /\ Unmoved
         /\ \A u \in Tasks : Quiet(u) /\ ~Sets(Head(fx), u, "CANCELLED") /\ ~IsEvent(Head(fx), u)
  <1>1. fx # <<>> /\ Head(fx).op = "callback" /\ Continue(<<>>)
    BY DEF Return
  <1>2. Harmless(<<>>)
    BY DEF Harmless
  <1>3. Light(Head(fx)) /\ \A u \in Tasks : ~Sets(Head(fx), u, "CANCELLED") /\ ~IsEvent(Head(fx), u)
    BY <1>1 DEF Light, Sets, IsEvent
  <1> QED BY <1>1, <1>2, <1>3, HarmlessStep, LightUnmoved

(* ... the running flag is set ...                                         *)
LEMMA SetRunningStep ==
  ASSUME Stack(fx), NEW t \in Tasks, setRunning(t)
  PROVE  /\ Beneath /\ Unmoved
         /\ \A u \in Tasks : Quiet(u) /\ ~Sets(Head(fx), u, "CANCELLED") /\ ~IsEvent(Head(fx), u)
  <1>1. fx # <<>> /\ Head(fx).op = "setRunning"
    BY DEF setRunning, Top
  <1>2. PICK b \in BOOLEAN : Continue(Notify(b, t, "runningListener"))
    BY DEF setRunning
  <1>3. Harmless(Notify(b, t, "runningListener"))
    BY HarmlessOps DEF Sites
  <1>4. Light(Head(fx)) /\ \A u \in Tasks : ~Sets(Head(fx), u, "CANCELLED") /\ ~IsEvent(Head(fx), u)
    BY <1>1 DEF Light, Sets, IsEvent
  <1>5. Beneath /\ \A u \in Tasks : Quiet(u)
    BY <1>1, <1>2, <1>3, HarmlessStep
  <1> QED BY <1>4, <1>5, LightUnmoved

(* ... an event is fired, and its handlers are called ...                  *)
LEMMA FireEventStep ==
  ASSUME Stack(fx), NEW t \in Tasks, fireEvent(t)
  PROVE  /\ Beneath /\ Unmoved
         /\ \A u \in Tasks : /\ Quiet(u)
                             /\ ~Sets(Head(fx), u, "CANCELLED")
                             /\ IsEvent(Head(fx), u) <=> u = t
  <1>1. fx # <<>> /\ Head(fx).op = "fireEvent" /\ Head(fx).t = t
        /\ Continue(<<Callback(t, "handler")>>)
    BY DEF fireEvent, Top
  <1>2. Harmless(<<Callback(t, "handler")>>)
    BY HarmlessOps DEF Sites
  <1>3. /\ Light(Head(fx))
        /\ \A u \in Tasks : ~Sets(Head(fx), u, "CANCELLED") /\ (IsEvent(Head(fx), u) <=> u = t)
    BY <1>1 DEF Light, Sets, IsEvent
  <1>4. Beneath /\ \A u \in Tasks : Quiet(u)
    BY <1>1, <1>2, HarmlessStep
  <1> QED BY <1>3, <1>4, LightUnmoved

(* ... the value is set ...                                                *)
LEMMA SetValueStep ==
  ASSUME Stack(fx), NEW t \in Tasks, setValue(t)
  PROVE  Beneath /\ \A u \in Tasks : Quiet(u)
  <1>1. fx # <<>>
    BY DEF setValue, Top
  <1>2. PICK b \in BOOLEAN : Continue(Notify(b, t, "valueListener"))
    BY DEF setValue
  <1>3. Harmless(Notify(b, t, "valueListener"))
    BY HarmlessOps DEF Sites
  <1> QED BY <1>1, <1>2, <1>3, HarmlessStep

(* ... and the exception.                                                  *)
LEMMA SetExceptionStep ==
  ASSUME Stack(fx), NEW t \in Tasks, _setException(t)
  PROVE  Beneath /\ \A u \in Tasks : Quiet(u)
  <1>1. fx # <<>> /\ Continue(<<Callback(t, "valueListener")>>)
    BY DEF _setException, Top
  <1>2. Harmless(<<Callback(t, "valueListener")>>)
    BY HarmlessOps DEF Sites
  <1> QED BY <1>1, <1>2, HarmlessStep

(* setState, when it is ignored and when it is not.                        *)
LEMMA SetStateStep ==
  ASSUME Stack(fx), NEW t \in Tasks, setState(t)
  PROVE  /\ Beneath
         /\ \A u \in Tasks : u # t => Quiet(u)
         /\ Ignored(t) => Quiet(t)
         /\ ~Ignored(t) => Loud(t)
         /\ Arg = "CANCELLED" => Unmoved
  <1>1. fx # <<>> /\ Arg \in States /\ Head(fx).op = "setState" /\ Head(fx).v = Arg
    BY SetStateFinds DEF setState, Top, Arg
  <1>2. CASE Ignored(t)
    <2>1. Continue(<<>>)
      BY <1>2 DEF setState
    <2>2. Harmless(<<>>)
      BY DEF Harmless
    <2>3. Beneath /\ \A u \in Tasks : Quiet(u)
      BY <1>1, <2>1, <2>2, HarmlessStep
    <2> QED BY <1>1, <1>2, <2>3, LightUnmoved DEF Light
  <1>3. CASE ~Ignored(t)
    <2> DEFINE R(b) == Notify(b, t, "stateListener")
                       \o <<Op("setRunning", t, Arg), Op("fireEvent", t, "null")>>
    <2>1. PICK b \in BOOLEAN : Continue(R(b))
      BY <1>3 DEF setState
    <2>2. /\ R(b) \in Seq(Ops)
          /\ \A i \in 1 .. Len(R(b)) : Light(R(b)[i])
          /\ \A u \in Tasks : ~Cancels(R(b), u) /\ (Firing(R(b), u) <=> u = t) /\ FiringOnce(R(b), u)
      BY <1>1, SetStateOps
    <2> HIDE DEF R
    <2>3. /\ Beneath
          /\ \A u \in Tasks : ~Firing(R(b), u) => Quiet(u)
          /\ \A u \in Tasks : Firing(R(b), u) /\ FiringOnce(R(b), u) => Loud(u)
      BY <1>1, <2>1, <2>2, ReplacedBy
    <2> QED BY <1>1, <1>3, <2>2, <2>3, LightUnmoved DEF Light
  <1> QED BY <1>2, <1>3

(* The update is taken, and is still to be shown.                          *)
LEMMA TakeUpdateStep ==
  ASSUME Types, Stack(fx), NEW t \in Tasks, TakeUpdate(t)
  PROVE  /\ Stack(fx') /\ fx' # <<>>
         /\ \A u \in Tasks : /\ \A s \in Finals : ~AtEnd(fx, u, s) /\ ~AtEnd(fx', u, s)
                             /\ UpdateAtEnd(fx', u) <=> UpdateAtEnd(fx, u)
                             /\ UpdateAtEnd(fx, u) <=> u = t
                             /\ ~Cancels(fx, u) /\ ~Cancels(fx', u)
                             /\ ~Firing(fx, u) /\ ~Firing(fx', u) /\ FiringOnce(fx', u)
  <1>1. /\ Len(fx) = 1 /\ UpdateAtEnd(fx, t) /\ LastOp(fx).op = "takeUpdate" /\ LastOp(fx).t = t
        /\ \A u \in Tasks : ~Cancels(fx, u) /\ ~Firing(fx, u)
    BY TakeUpdateFinds DEF TakeUpdate
  <1> DEFINE o == Op("setValue", t, valueUpdate[t])
  <1>2. o \in Ops /\ o.op = "setValue" /\ o.t = t /\ o.v \in Values
    BY DEF Op, Ops, Types
  <1> HIDE DEF o
  <1>3. fx' = <<o>> \o Tail(fx) /\ fx # <<>> /\ fx \in Seq(Ops)
    BY DEF TakeUpdate, Continue, Top, o, Stack
  <1>4. Tail(fx) \in Seq(Ops) /\ Len(Tail(fx)) = 0
    BY <1>1, <1>3
  <1>5. Tail(fx) = <<>>
    BY <1>4, EmptySeq
  <1>6. fx' = <<o>>
    <2>1. <<o>> \in Seq(Ops)
      BY <1>2
    <2> QED BY <1>3, <1>5, <2>1, ConcatEmptySeq
  <1>7. fx' \in Seq(Ops) /\ Len(fx') = 1 /\ fx'[1] = o /\ LastOp(fx') = o /\ fx' # <<>>
    BY <1>2, <1>6 DEF LastOp
  <1>8. Stack(fx')
    BY <1>2, <1>7 DEF Stack, LastHalf
  <1>9. ASSUME NEW u \in Tasks
        PROVE  /\ \A s \in Finals : ~AtEnd(fx, u, s) /\ ~AtEnd(fx', u, s)
               /\ UpdateAtEnd(fx', u) <=> UpdateAtEnd(fx, u)
               /\ UpdateAtEnd(fx, u) <=> u = t
    BY <1>1, <1>2, <1>3, <1>7 DEF AtEnd, UpdateAtEnd, Sets, Shows
  <1>10. ASSUME NEW u \in Tasks
         PROVE  ~Cancels(fx', u) /\ ~Firing(fx', u) /\ FiringOnce(fx', u)
    BY <1>2, <1>7 DEF Cancels, Firing, FiringOnce, IsEvent, Sets
  <1> QED BY <1>1, <1>7, <1>8, <1>9, <1>10

(* A nested cancel().                                                      *)
LEMMA CancelOnFxStep ==
  ASSUME Stack(fx), NEW t \in Tasks, CancelOnFx(t)
  PROVE  /\ Unmoved /\ fx' # <<>>
         /\ \A u \in Tasks : /\ Cancels(fx', u) <=> Cancels(fx, u) \/ u = t
                             /\ Firing(fx', u) <=> Firing(fx, u)
                             /\ FiringOnce(fx, u) => FiringOnce(fx', u)
  <1> DEFINE c == Op("setState", t, "CANCELLED")
             g == <<c>> \o fx
  <1>1. fx' = g
    BY DEF CancelOnFx, CancelLambda
  <1>2. c \in Ops /\ c.op = "setState" /\ c.t = t /\ c.v = "CANCELLED"
    BY DEF Op, Ops, States
  <1>3. Light(c) /\ c.op # "fireEvent" /\ \A u \in Tasks : Sets(c, u, "CANCELLED") <=> u = t
    BY <1>2 DEF Light, Sets
  <1> HIDE DEF c
  <1>4. /\ Stack(g)
        /\ \A u \in Tasks :
             /\ \A s \in Finals : AtEnd(g, u, s) <=> AtEnd(fx, u, s)
             /\ UpdateAtEnd(g, u) <=> UpdateAtEnd(fx, u)
             /\ Cancels(g, u) <=> Cancels(fx, u) \/ Sets(c, u, "CANCELLED")
             /\ c.op # "fireEvent" => /\ Firing(g, u) <=> Firing(fx, u)
                                      /\ FiringOnce(fx, u) => FiringOnce(g, u)
        /\ \A op \in {"setValue", "setException"} : FirstHalf(g, op) <=> FirstHalf(fx, op)
        /\ Scheduling(g) <=> Scheduling(fx)
        /\ g # <<>>
    BY <1>2, <1>3, LightPush
  <1> HIDE DEF g
  <1> QED BY <1>1, <1>3, <1>4 DEF Unmoved
-----------------------------------------------------------------------------
(* The last operation of each lambda that is posted.                       *)
LEMMA LastOps ==
  ASSUME NEW t \in Tasks
  PROVE  /\ {StartLambda(t), SucceedLambda(t), FailLambda(t), CancelLambda(t), UpdateLambda(t)}
              \subseteq Lambdas
         /\ LastOp(StartLambda(t)) = Op("setState", t, "RUNNING")
         /\ LastOp(SucceedLambda(t)) = Op("setState", t, "SUCCEEDED")
         /\ LastOp(FailLambda(t)) = Op("setState", t, "FAILED")
         /\ LastOp(CancelLambda(t)) = Op("setState", t, "CANCELLED")
         /\ LastOp(UpdateLambda(t)) = Op("takeUpdate", t, "null")
  BY DEF Lambdas, StartLambda, SucceedLambda, FailLambda, CancelLambda, UpdateLambda, LastOp

(* What is posted, and when.                                               *)
PostedView(t, s) ==
  /\ Queue(queue') /\ queue' # <<>>
  /\ \A u \in Tasks : /\ \A r \in States : InQueue(queue', u, r) <=> InQueue(queue, u, r)
                                                                   \/ (u = t /\ r = s)
                      /\ UpdateQueued(queue', u) <=> UpdateQueued(queue, u)

(* A lambda that ends in setState is posted, in the order of call().       *)
LEMMA PostState ==
  ASSUME Queue(queue), NEW t \in Tasks, NEW L \in Lambdas, NEW s \in States,
         LastOp(L) = Op("setState", t, s), runLater(L),
         s \in Finals => ~InQueue(queue, t, s),
         s = "RUNNING" => ~InQueue(queue, t, "SUCCEEDED") /\ ~InQueue(queue, t, "FAILED")
  PROVE  PostedView(t, s)
  <1>1. \A u \in Tasks, r \in States : /\ Sets(LastOp(L), u, r) <=> u = t /\ r = s
                                       /\ ~Shows(LastOp(L), u)
    BY DEF Op, Sets, Shows
  <1>2. \A u \in Tasks :
          /\ \A r \in Finals : Sets(LastOp(L), u, r) => ~InQueue(queue, u, r)
          /\ \A r \in {"SUCCEEDED", "FAILED"} :
               Sets(LastOp(L), u, "RUNNING") => ~InQueue(queue, u, r)
          /\ Shows(LastOp(L), u) => ~InQueue(queue, u, "SUCCEEDED")
    BY <1>1 DEF Finals, States
  <1> DEFINE p == Append(queue, L)
  <1>3. /\ Queue(p)
        /\ \A u \in Tasks, r \in States :
             InQueue(p, u, r) <=> InQueue(queue, u, r) \/ Sets(LastOp(L), u, r)
        /\ \A u \in Tasks : UpdateQueued(p, u) <=> UpdateQueued(queue, u) \/ Shows(LastOp(L), u)
        /\ p # <<>>
    BY <1>2, Posted
  <1>4. queue' = p
    BY DEF runLater
  <1> HIDE DEF p
  <1>5. \A u \in Tasks : ~Shows(LastOp(L), u)
    BY DEF Op, Shows
  <1> QED BY <1>1, <1>3, <1>4, <1>5 DEF PostedView

(* The lambda of updateValue is posted while call() runs.                  *)
LEMMA PostUpdateStep ==
  ASSUME Queue(queue), NEW t \in Tasks, PostUpdate(t), ~InQueue(queue, t, "SUCCEEDED")
  PROVE  /\ Queue(queue') /\ queue' # <<>>
         /\ \A u \in Tasks : /\ \A r \in States : InQueue(queue', u, r) <=> InQueue(queue, u, r)
                             /\ UpdateQueued(queue', u) <=> UpdateQueued(queue, u) \/ u = t
  <1> DEFINE L == UpdateLambda(t)
             p == Append(queue, L)
  <1>1. L \in Lambdas /\ LastOp(L) = Op("takeUpdate", t, "null")
    BY LastOps
  <1>2. queue' = p
    BY DEF PostUpdate, runLater
  <1> HIDE DEF L
  <1>3. /\ \A u \in Tasks : Shows(LastOp(L), u) <=> u = t
        /\ \A u \in Tasks : \A r \in States \cup Finals : ~Sets(LastOp(L), u, r)
    BY <1>1 DEF Op, Shows, Sets
  <1>4. \A u \in Tasks :
          /\ \A r \in Finals : Sets(LastOp(L), u, r) => ~InQueue(queue, u, r)
          /\ \A r \in {"SUCCEEDED", "FAILED"} :
               Sets(LastOp(L), u, "RUNNING") => ~InQueue(queue, u, r)
          /\ Shows(LastOp(L), u) => ~InQueue(queue, u, "SUCCEEDED")
    BY <1>3 DEF States, Finals
  <1>5. /\ Queue(p)
        /\ \A u \in Tasks, r \in States :
             InQueue(p, u, r) <=> InQueue(queue, u, r) \/ Sets(LastOp(L), u, r)
        /\ \A u \in Tasks : UpdateQueued(p, u) <=> UpdateQueued(queue, u) \/ Shows(LastOp(L), u)
        /\ p # <<>>
    BY <1>1, <1>4, Posted
  <1> HIDE DEF p
  <1> QED BY <1>2, <1>3, <1>5

(* The next lambda is taken from the queue to the stack.                   *)
LEMMA RunLambdaStep ==
  ASSUME Queue(queue), RunLambda
  PROVE  /\ Queue(queue') /\ Stack(fx') /\ fx' # <<>>
         /\ \A t \in Tasks :
              /\ \A s \in States : InQueue(queue, t, s) <=> InQueue(queue', t, s) \/ AtEnd(fx', t, s)
              /\ UpdateQueued(queue, t) <=> UpdateQueued(queue', t) \/ UpdateAtEnd(fx', t)
              /\ \A s \in Finals : AtEnd(fx', t, s) => ~InQueue(queue', t, s)
              /\ AtEnd(fx', t, "SUCCEEDED") => ~InQueue(queue', t, "RUNNING") /\ ~UpdateQueued(queue', t)
              /\ AtEnd(fx', t, "FAILED") => ~InQueue(queue', t, "RUNNING")
              /\ ~Firing(fx', t) /\ FiringOnce(fx', t)
              /\ Cancels(fx', t) <=> AtEnd(fx', t, "CANCELLED")
              /\ AtEnd(fx', t, "RUNNING") => Scheduling(fx')
              /\ AtEnd(fx', t, "SUCCEEDED") => FirstHalf(fx', "setValue")
              /\ AtEnd(fx', t, "FAILED") => FirstHalf(fx', "setException")
              /\ \A s \in States : ~AtEnd(fx, t, s)
              /\ ~UpdateAtEnd(fx, t) /\ ~Cancels(fx, t) /\ ~Firing(fx, t)
  <1> DEFINE L == Head(queue)
             p == Tail(queue)
  <1>1. fx = <<>> /\ queue # <<>> /\ fx' = L /\ queue' = p
    BY DEF RunLambda
  <1>2. /\ L \in Lambdas /\ Queue(p)
        /\ \A t \in Tasks : \A s \in States :
             InQueue(queue, t, s) <=> InQueue(p, t, s) \/ AtEnd(L, t, s)
        /\ \A t \in Tasks :
             /\ UpdateQueued(queue, t) <=> UpdateQueued(p, t) \/ UpdateAtEnd(L, t)
             /\ \A s \in Finals : AtEnd(L, t, s) => ~InQueue(p, t, s)
             /\ AtEnd(L, t, "SUCCEEDED") => ~InQueue(p, t, "RUNNING") /\ ~UpdateQueued(p, t)
             /\ AtEnd(L, t, "FAILED") => ~InQueue(p, t, "RUNNING")
    BY <1>1, Taken
  <1> HIDE DEF L, p
  <1>3. /\ Stack(L) /\ L # <<>>
        /\ \A t \in Tasks :
             /\ ~Firing(L, t)
             /\ Cancels(L, t) <=> Sets(LastOp(L), t, "CANCELLED")
             /\ AtEnd(L, t, "RUNNING") => Scheduling(L)
             /\ AtEnd(L, t, "SUCCEEDED") => FirstHalf(L, "setValue")
             /\ AtEnd(L, t, "FAILED") => FirstHalf(L, "setException")
    BY <1>2, LambdaIsStack
  <1>4. \A t \in Tasks : /\ \A s \in States : ~AtEnd(fx, t, s)
                         /\ ~UpdateAtEnd(fx, t) /\ ~Cancels(fx, t) /\ ~Firing(fx, t)
    BY <1>1 DEF AtEnd, UpdateAtEnd, Cancels, Firing
  <1>5. \A t \in Tasks : FiringOnce(L, t) /\ (Cancels(L, t) <=> AtEnd(L, t, "CANCELLED"))
    BY <1>3 DEF Firing, FiringOnce, AtEnd
  <1> QED BY <1>1, <1>2, <1>3, <1>4, <1>5
-----------------------------------------------------------------------------
(* The steps, in groups: those of the background thread that post nothing, *)
(* those that post, and those of the FX thread.                            *)
Move(t) == \/ Submit(t) \/ Run(t) \/ UpdateValue(t) \/ CallReturns(t) \/ CallThrows(t)
           \/ FutureDone(t) \/ CancelInBackground(t)
Post(t) == \/ CallStarted(t) \/ PostUpdate(t) \/ PostSucceeded(t) \/ PostFailed(t)
           \/ PostCancelled(t)

(* Every step is one of these.                                             *)
LEMMA NextCases ==
  ASSUME [TNext]_tvars
  PROVE  \/ UNCHANGED tvars
         \/ RunLambda \/ Return
         \/ \E t \in Tasks : Move(t) \/ Post(t) \/ CancelOnFx(t) \/ FxStep(t)
  BY DEF TNext, Worker, Finishing, FxThread, Move, Post

(* One event more for t, and none for the others.                          *)
LEMMA FiredOnce ==
  ASSUME Types, NEW t \in Tasks, fired' = [fired EXCEPT ![t][state[t]] = @ + 1]
  PROVE  /\ fired' \in [Tasks -> [States -> Nat]]
         /\ \A u \in Tasks : u # t => fired'[u] = fired[u]
         /\ \A s \in States : fired'[t][s] = IF s = state[t] THEN fired[t][s] + 1 ELSE fired[t][s]
  <1> DEFINE e == [fired[t] EXCEPT ![state[t]] = @ + 1]
  <1>1. fired \in [Tasks -> [States -> Nat]] /\ fired[t] \in [States -> Nat] /\ state[t] \in States
    BY DEF Types
  <1>2. /\ e \in [States -> Nat]
        /\ \A s \in States : e[s] = IF s = state[t] THEN fired[t][s] + 1 ELSE fired[t][s]
    BY <1>1
  <1>3. fired' = [fired EXCEPT ![t] = e]
    BY Zenon
  <1> HIDE DEF e
  <1> QED BY <1>1, <1>2, <1>3

(* The types are kept.                                                     *)
LEMMA TypesStep ==
  ASSUME Base, [TNext]_tvars
  PROVE  Types'
  <1> USE DEF Base, Types, tvars, taskVars, futureVars, propVars
  <1>1. CASE UNCHANGED tvars \/ RunLambda \/ Return
    BY <1>1 DEF RunLambda, Return
  <1>2. ASSUME NEW t \in Tasks, Move(t) PROVE Types'
    BY <1>2 DEF Move, Submit, Run, UpdateValue, CallReturns, CallThrows, FutureDone, Outcome,
                CancelInBackground, CancelFuture, Goto, PCs, Values
  <1>3. ASSUME NEW t \in Tasks, Post(t) PROVE Types'
    BY <1>3 DEF Post, CallStarted, PostUpdate, PostSucceeded, PostFailed, PostCancelled, Goto, PCs
  <1>4. ASSUME NEW t \in Tasks, CancelOnFx(t) PROVE Types'
    BY <1>4 DEF CancelOnFx, CancelFuture
  <1>5. ASSUME NEW t \in Tasks, setState(t) PROVE Types'
    <2>1. Arg \in States
      BY <1>5, SetStateFinds DEF setState
    <2> QED BY ZenonT(60), <1>5, <2>1 DEF setState
  <1>6. ASSUME NEW t \in Tasks, setRunning(t) PROVE Types'
    BY <1>6 DEF setRunning
  <1>9. ASSUME NEW t \in Tasks, fireEvent(t) PROVE Types'
    <2>1. fired' \in [Tasks -> [States -> Nat]]
      BY <1>9, FiredOnce DEF fireEvent
    <2> QED BY <1>9, <2>1 DEF fireEvent
  <1>7. ASSUME NEW t \in Tasks, setValue(t) PROVE Types'
    <2>1. Arg \in Values
      BY <1>7, SetValueFinds DEF setValue
    <2> QED BY <1>7, <2>1 DEF setValue
  <1>8. ASSUME NEW t \in Tasks, _setException(t) \/ TakeUpdate(t) PROVE Types'
    BY <1>8 DEF _setException, TakeUpdate, Values
  <1> QED BY <1>1, <1>2, <1>3, <1>4, <1>5, <1>6, <1>7, <1>8, <1>9, NextCases DEF FxStep

(* Progress is kept by the steps of the background thread that post        *)
(* nothing,                                                                *)
LEMMA MoveProgress ==
  ASSUME Base, NEW t \in Tasks, Move(t), NEW u \in Tasks
  PROVE  Progress(u)'
  <1>1. /\ queue' = queue /\ fx' = fx /\ state' = state
        /\ pc'[u] # pc[u] => \/ pc[u] \in Early /\ pc'[u] \in Early \cup {"done"}
                             \/ pc[u] \in Mid /\ pc'[u] \in Mid \cup {"done"}
                             \/ pc'[u] = "done"
    BY DEF Base, Types, Move, Submit, Run, UpdateValue, CallReturns, CallThrows, FutureDone,
           CancelInBackground, Goto, propVars, Early, Mid
  <1> QED BY <1>1 DEF Base, Progress, Due, UpdateDue, Early, Mid

(* Every post finds the queue as PostState and PostUpdateStep want it.     *)
LEMMA PostSteps ==
  ASSUME Base, NEW t \in Tasks
  PROVE  /\ CallStarted(t) => PostedView(t, "RUNNING")
         /\ PostSucceeded(t) => PostedView(t, "SUCCEEDED")
         /\ PostFailed(t) => PostedView(t, "FAILED")
         /\ PostCancelled(t) => PostedView(t, "CANCELLED")
         /\ PostUpdate(t) =>
              /\ Queue(queue') /\ queue' # <<>>
              /\ \A u \in Tasks : /\ \A r \in States : InQueue(queue', u, r) <=> InQueue(queue, u, r)
                                  /\ UpdateQueued(queue', u) <=> UpdateQueued(queue, u) \/ u = t
  <1>1. /\ Queue(queue)
        /\ pc[t] \in Early => \A s \in Finals : ~InQueue(queue, t, s)
        /\ pc[t] \in Mid => ~InQueue(queue, t, "SUCCEEDED") /\ ~InQueue(queue, t, "FAILED")
    BY DEF Base, Progress, Due
  <1>2. /\ {"RUNNING", "SUCCEEDED", "FAILED", "CANCELLED"} \subseteq States
        /\ Finals = {"RUNNING", "SUCCEEDED", "FAILED"}
    BY DEF States, Finals
  <1>3. ASSUME CallStarted(t) PROVE PostedView(t, "RUNNING")
    BY <1>1, <1>2, <1>3, LastOps, PostState DEF CallStarted, Goto, Early
  <1>4. ASSUME PostSucceeded(t) PROVE PostedView(t, "SUCCEEDED")
    BY <1>1, <1>2, <1>4, LastOps, PostState DEF PostSucceeded, Goto, Mid
  <1>5. ASSUME PostFailed(t) PROVE PostedView(t, "FAILED")
    BY <1>1, <1>2, <1>5, LastOps, PostState DEF PostFailed, Goto, Mid
  <1>6. ASSUME PostCancelled(t) PROVE PostedView(t, "CANCELLED")
    BY <1>1, <1>2, <1>6, LastOps, PostState DEF PostCancelled
  <1>7. ASSUME PostUpdate(t)
        PROVE  /\ Queue(queue') /\ queue' # <<>>
               /\ \A u \in Tasks : /\ \A r \in States : InQueue(queue', u, r) <=> InQueue(queue, u, r)
                                   /\ UpdateQueued(queue', u) <=> UpdateQueued(queue, u) \/ u = t
    <2>1. ~InQueue(queue, t, "SUCCEEDED")
      BY <1>1, <1>7 DEF PostUpdate, Goto, Mid
    <2> QED BY <1>1, <1>7, <2>1, PostUpdateStep
  <1> QED BY <1>3, <1>4, <1>5, <1>6, <1>7

(* by those that post,                                                     *)
LEMMA PostProgress ==
  ASSUME Base, NEW t \in Tasks, Post(t), NEW u \in Tasks
  PROVE  Progress(u)'
  <1>1. fx' = fx /\ state' = state /\ Progress(u) /\ pc \in [Tasks -> PCs]
    BY DEF Base, Types, Post, CallStarted, PostUpdate, PostSucceeded, PostFailed, PostCancelled, propVars
  <1>2. {"RUNNING", "SUCCEEDED", "FAILED", "CANCELLED"} \subseteq States
    BY DEF States
  <1>3. CASE CallStarted(t)
    <2>1. /\ UpdateQueued(queue', u) <=> UpdateQueued(queue, u)
          /\ InQueue(queue', u, "RUNNING") <=> InQueue(queue, u, "RUNNING") \/ u = t
          /\ InQueue(queue', u, "SUCCEEDED") <=> InQueue(queue, u, "SUCCEEDED")
          /\ InQueue(queue', u, "FAILED") <=> InQueue(queue, u, "FAILED")
      BY <1>2, <1>3, PostSteps DEF PostedView
    <2>2. /\ u = t => pc[u] = "started" /\ pc'[u] = "call"
          /\ u # t => pc'[u] = pc[u]
      BY <1>1, <1>3 DEF CallStarted, Goto
    <2> QED BY <1>1, <2>1, <2>2 DEF Progress, Due, UpdateDue, Early, Mid, Finals
  <1>4. CASE PostSucceeded(t)
    <2>1. /\ UpdateQueued(queue', u) <=> UpdateQueued(queue, u)
          /\ InQueue(queue', u, "RUNNING") <=> InQueue(queue, u, "RUNNING")
          /\ InQueue(queue', u, "SUCCEEDED") <=> InQueue(queue, u, "SUCCEEDED") \/ u = t
          /\ InQueue(queue', u, "FAILED") <=> InQueue(queue, u, "FAILED")
      BY <1>2, <1>4, PostSteps DEF PostedView
    <2>2. /\ u = t => pc[u] = "postSucceeded" /\ pc'[u] = "set"
          /\ u # t => pc'[u] = pc[u]
      BY <1>1, <1>4 DEF PostSucceeded, Goto
    <2> QED BY <1>1, <2>1, <2>2 DEF Progress, Due, UpdateDue, Early, Mid, Finals
  <1>5. CASE PostFailed(t)
    <2>1. /\ UpdateQueued(queue', u) <=> UpdateQueued(queue, u)
          /\ InQueue(queue', u, "RUNNING") <=> InQueue(queue, u, "RUNNING")
          /\ InQueue(queue', u, "SUCCEEDED") <=> InQueue(queue, u, "SUCCEEDED")
          /\ InQueue(queue', u, "FAILED") <=> InQueue(queue, u, "FAILED") \/ u = t
      BY <1>2, <1>5, PostSteps DEF PostedView
    <2>2. /\ u = t => pc[u] = "threw" /\ pc'[u] = "setException"
          /\ u # t => pc'[u] = pc[u]
      BY <1>1, <1>5 DEF PostFailed, Goto
    <2> QED BY <1>1, <2>1, <2>2 DEF Progress, Due, UpdateDue, Early, Mid, Finals
  <1>6. CASE PostCancelled(t)
    <2>1. /\ UpdateQueued(queue', u) <=> UpdateQueued(queue, u)
          /\ InQueue(queue', u, "RUNNING") <=> InQueue(queue, u, "RUNNING")
          /\ InQueue(queue', u, "SUCCEEDED") <=> InQueue(queue, u, "SUCCEEDED")
          /\ InQueue(queue', u, "FAILED") <=> InQueue(queue, u, "FAILED")
      BY <1>2, <1>6, PostSteps DEF PostedView
    <2>2. pc' = pc
      BY <1>6 DEF PostCancelled
    <2> QED BY <1>1, <2>1, <2>2 DEF Progress, Due, UpdateDue, Early, Mid, Finals
  <1>7. CASE PostUpdate(t)
    BY <1>1, <1>2, <1>7, PostSteps
       DEF PostUpdate, Goto, Progress, Due, UpdateDue, Early, Mid, Finals
  <1> QED BY <1>3, <1>4, <1>5, <1>6, <1>7 DEF Post

(* by those of the FX thread that leave the lambda at the bottom as it is, *)
LEMMA UnmovedProgress ==
  ASSUME Base, Unmoved, pc' = pc, queue' = queue, NEW u \in Tasks,
         state'[u] # state[u] => state'[u] = "CANCELLED"
  PROVE  Progress(u)'
  BY DEF Base, Unmoved, Progress, Due, UpdateDue, Early, Mid, Finals

(* by the one that takes a lambda,                                         *)
LEMMA RunLambdaProgress ==
  ASSUME Base, RunLambda, NEW u \in Tasks
  PROVE  Progress(u)'
  <1>1. state' = state /\ pc' = pc /\ Progress(u) /\ {"RUNNING", "SUCCEEDED", "FAILED"} \subseteq States
    BY DEF Base, RunLambda, taskVars, propVars, futureVars, States
  <1> QED BY <1>1, RunLambdaStep DEF Base, Progress, Due, UpdateDue, Early, Mid, Finals

(* by setState,                                                            *)
LEMMA SetStateProgress ==
  ASSUME Base, NEW t \in Tasks, setState(t), NEW u \in Tasks
  PROVE  Progress(u)'
  <1>1. pc' = pc /\ queue' = queue /\ Progress(u) /\ Stack(fx) /\ Beneath
    BY SetStateStep DEF Base, setState, futureVars
  <1>2. /\ u # t => state'[u] = state[u]
        /\ state'[u] = state[u] \/ (u = t /\ state'[u] = Arg /\ state[u] # "CANCELLED")
        /\ state[u] \in States
        /\ u = t => state'[u] = IF state[u] = "CANCELLED" THEN state[u] ELSE Arg
    BY DEF Base, Types, setState, Ignored
  <1>3. /\ Len(fx) \in Nat /\ Len(fx) >= 1
        /\ \/ Arg = "CANCELLED"
           \/ Len(fx) = 2 /\ Arg = "SCHEDULED" /\ AtEnd(fx, t, "RUNNING") /\ Scheduling(fx)
           \/ Len(fx) = 1 /\ Arg \in Finals /\ AtEnd(fx, t, Arg)
    BY <1>1, SetStateFinds DEF setState
  <1>4. CASE Arg = "CANCELLED"
    BY <1>1, <1>2, <1>4, SetStateStep, UnmovedProgress
  <1>5. CASE Len(fx) = 2 /\ Arg = "SCHEDULED" /\ AtEnd(fx, t, "RUNNING") /\ Scheduling(fx)
    <2>1. \A s \in Finals : AtEnd(fx', u, s) <=> AtEnd(fx, u, s)
      BY <1>1, <1>5 DEF Beneath
    <2>2. UpdateAtEnd(fx', u) <=> UpdateAtEnd(fx, u)
      BY <1>1, <1>5 DEF Beneath
    <2>3. ~Scheduling(fx') /\ (AtEnd(fx, u, "RUNNING") => u = t)
      BY <1>1, <1>5 DEF Beneath, AtEnd, Sets
    <2>4. \A s \in {"SUCCEEDED", "FAILED"} : ~AtEnd(fx, t, s)
      BY <1>5 DEF AtEnd, Sets
    <2> QED BY <1>1, <1>2, <1>5, <2>1, <2>2, <2>3, <2>4
            DEF Progress, Due, UpdateDue, Early, Mid, Finals
  <1>6. CASE Len(fx) = 1 /\ Arg \in Finals /\ AtEnd(fx, t, Arg)
    <2>1. \A s \in Finals : ~AtEnd(fx', u, s)
      BY <1>1, <1>6 DEF Beneath
    <2>2. ~UpdateAtEnd(fx', u)
      BY <1>1, <1>6 DEF Beneath
    <2>3. \A s \in Finals : AtEnd(fx, u, s) <=> u = t /\ s = Arg
      BY <1>6 DEF AtEnd, Sets
    <2> QED BY <1>1, <1>2, <1>6, <2>1, <2>2, <2>3
            DEF Progress, Due, UpdateDue, Early, Mid, Finals
  <1> QED BY <1>3, <1>4, <1>5, <1>6

(* and by those that set the value or the exception.                       *)
LEMMA SetOutcomeProgress ==
  ASSUME Base, NEW t \in Tasks, setValue(t) \/ _setException(t) \/ TakeUpdate(t), NEW u \in Tasks
  PROVE  Progress(u)'
  <1>1. pc' = pc /\ queue' = queue /\ state' = state /\ Progress(u) /\ Stack(fx) /\ Types
    BY DEF Base, setValue, _setException, TakeUpdate, futureVars
  <1>2. CASE TakeUpdate(t)
    BY <1>1, <1>2, TakeUpdateStep DEF Progress, Due, UpdateDue, Early, Mid, Finals
  <1>3. CASE setValue(t) \/ _setException(t)
    <2>1. Beneath
      BY <1>1, <1>3, SetValueStep, SetExceptionStep
    <2>2. \/ Len(fx) = 2 /\ (FirstHalf(fx, "setValue") \/ FirstHalf(fx, "setException"))
          \/ Len(fx) = 1 /\ UpdateAtEnd(fx, t)
      BY <1>1, <1>3, SetValueFinds, SetExceptionFinds DEF setValue, _setException
    <2>6. ~Scheduling(fx)
      <3>1. CASE Len(fx) = 1
        BY <3>1 DEF Scheduling, FirstHalf
      <3>2. CASE FirstHalf(fx, "setValue")
        BY <3>2 DEF Scheduling, FirstHalf
      <3>3. CASE FirstHalf(fx, "setException")
        BY <3>3 DEF Scheduling, FirstHalf
      <3> QED BY <2>2, <3>1, <3>2, <3>3
    <2>7. Len(fx) = 1 /\ UpdateAtEnd(fx, t) => \A s \in Finals : ~AtEnd(fx, u, s)
      BY DEF UpdateAtEnd, AtEnd, Sets, Shows
    <2>3. ~Scheduling(fx) /\ \A s \in Finals : AtEnd(fx', u, s) <=> AtEnd(fx, u, s)
      BY SMTT(40), <2>1, <2>2, <2>6, <2>7 DEF Beneath
    <2>4. UpdateAtEnd(fx', u) => UpdateAtEnd(fx, u)
      BY <2>1 DEF Beneath
    <2>5. ~Scheduling(fx')
      BY <2>1, <2>3 DEF Beneath
    <2> QED BY <1>1, <2>3, <2>4, <2>5 DEF Progress, Due, UpdateDue, Early, Mid, Finals
  <1> QED BY <1>2, <1>3

(* The first part of the invariant is kept.                                *)
LEMMA BaseStep ==
  ASSUME Base, [TNext]_tvars
  PROVE  Base'
  <1>1. Types'
    BY TypesStep
  <1>2. Stack(fx) /\ Queue(queue) /\ Types /\ \A u \in Tasks : Progress(u)
    BY DEF Base
  <1> DEFINE Kept == Stack(fx') /\ Queue(queue') /\ \A u \in Tasks : Progress(u)'
  <1>3. ASSUME UNCHANGED tvars PROVE Kept
    BY <1>2, <1>3 DEF tvars, taskVars, futureVars, propVars, Progress, Due, UpdateDue
  <1>4. ASSUME RunLambda PROVE Kept
    BY <1>2, <1>4, RunLambdaStep, RunLambdaProgress
  <1>5. ASSUME Return PROVE Kept
    <2>1. pc' = pc /\ queue' = queue /\ state' = state
      BY <1>5 DEF Return, taskVars, futureVars, propVars
    <2> QED BY <1>2, <1>5, <2>1, ReturnStep, UnmovedProgress DEF Unmoved
  <1>6. ASSUME NEW t \in Tasks, Move(t) PROVE Kept
    <2>1. fx' = fx /\ queue' = queue
      BY <1>6 DEF Move, Submit, Run, UpdateValue, CallReturns, CallThrows, FutureDone, CancelInBackground
    <2> QED BY <1>2, <1>6, <2>1, MoveProgress
  <1>7. ASSUME NEW t \in Tasks, Post(t) PROVE Kept
    <2>1. fx' = fx
      BY <1>7 DEF Post, CallStarted, PostUpdate, PostSucceeded, PostFailed, PostCancelled
    <2>2. Queue(queue')
      BY <1>7, PostSteps DEF Post, PostedView
    <2> QED BY <1>2, <1>7, <2>1, <2>2, PostProgress
  <1>8. ASSUME NEW t \in Tasks, CancelOnFx(t) PROVE Kept
    <2>1. pc' = pc /\ queue' = queue /\ state' = state
      BY <1>8 DEF CancelOnFx, propVars
    <2> QED BY <1>2, <1>8, <2>1, CancelOnFxStep, UnmovedProgress DEF Unmoved
  <1>9. ASSUME NEW t \in Tasks, setRunning(t) \/ fireEvent(t) PROVE Kept
    <2>1. pc' = pc /\ queue' = queue /\ state' = state
      BY <1>9 DEF setRunning, fireEvent, futureVars
    <2> QED BY <1>2, <1>9, <2>1, SetRunningStep, FireEventStep, UnmovedProgress DEF Unmoved
  <1>10. ASSUME NEW t \in Tasks, setState(t) PROVE Kept
    <2>1. queue' = queue
      BY <1>10 DEF setState
    <2> QED BY <1>2, <1>10, <2>1, SetStateStep, SetStateProgress DEF Beneath
  <1>11. ASSUME NEW t \in Tasks, setValue(t) \/ _setException(t) \/ TakeUpdate(t) PROVE Kept
    <2>1. queue' = queue
      BY <1>11 DEF setValue, _setException, TakeUpdate
    <2>2. Stack(fx')
      BY <1>2, <1>11, SetValueStep, SetExceptionStep, TakeUpdateStep DEF Beneath
    <2> QED BY <1>2, <1>11, <2>1, <2>2, SetOutcomeProgress
  <1>12. Kept
    BY <1>3, <1>4, <1>5, <1>6, <1>7, <1>8, <1>9, <1>10, <1>11, NextCases DEF FxStep
  <1> QED BY <1>1, <1>12 DEF Base
-----------------------------------------------------------------------------
(* The successors of a state, case by case.                                *)
LEMMA SuccessorsOf ==
  ASSUME NEW s \in States
  PROVE  /\ s = "READY" => "SCHEDULED" \in Successors(s)
         /\ s = "SCHEDULED" => "RUNNING" \in Successors(s)
         /\ s = "RUNNING" => "SUCCEEDED" \in Successors(s) /\ "FAILED" \in Successors(s)
         /\ s # "CANCELLED" => "CANCELLED" \in Successors(s)
  BY DEF States, Successors, Ended

(* setState, unless it is ignored, goes on to a successor, and no event of *)
(* the task lies below it, but for a cancel().                             *)
LEMMA SetStateSucceeds ==
  ASSUME Base, NEW u \in Tasks, setState(u), ~Ignored(u)
  PROVE  /\ state'[u] = Arg /\ Arg \in Successors(state[u]) /\ Arg \in States
         /\ Arg # "CANCELLED" => ~FiringBelow(fx, u)
  <1>2. state'[u] = Arg /\ state[u] # "CANCELLED" /\ state[u] \in States
    BY DEF setState, Ignored, Base, Types
  <1>3. /\ Arg \in States
        /\ \/ Arg = "CANCELLED"
           \/ Len(fx) = 2 /\ Arg = "SCHEDULED" /\ AtEnd(fx, u, "RUNNING") /\ Scheduling(fx)
           \/ Len(fx) = 1 /\ Arg \in Finals /\ AtEnd(fx, u, Arg)
    BY SetStateFinds DEF setState, Base
  <1>4. Progress(u)
    BY DEF Base
  <1>5. CASE Arg = "CANCELLED"
    BY <1>2, <1>3, <1>5, SuccessorsOf
  <1>6. CASE Len(fx) = 2 /\ Arg = "SCHEDULED" /\ AtEnd(fx, u, "RUNNING") /\ Scheduling(fx)
    <2>1. ~FiringBelow(fx, u)
      BY <1>6 DEF FiringBelow, IsEvent, AtEnd, Sets, LastOp
    <2> QED BY <1>2, <1>3, <1>4, <1>6, <2>1, SuccessorsOf DEF Progress
  <1>7. CASE Len(fx) = 1 /\ Arg \in Finals /\ AtEnd(fx, u, Arg)
    <2>1. ~Scheduling(fx) /\ ~FiringBelow(fx, u)
      BY <1>7 DEF Scheduling, FirstHalf, FiringBelow
    <2>2. CASE Arg = "RUNNING"
      BY <1>2, <1>3, <1>4, <1>7, <2>1, <2>2, SuccessorsOf DEF Progress
    <2>3. CASE Arg \in {"SUCCEEDED", "FAILED"}
      <3>1. ~AtEnd(fx, u, "RUNNING")
        BY <1>7, <2>3 DEF AtEnd, Sets
      <3>2. ~InQueue(queue, u, "RUNNING")
        BY <1>4, <1>7, <2>3 DEF Progress
      <3>3. state[u] = "RUNNING"
        BY <1>2, <1>4, <1>7, <2>3, <3>1, <3>2 DEF Progress, Due
      <3> QED BY <1>2, <1>3, <2>1, <2>3, <3>3, SuccessorsOf
    <2> QED BY <1>7, <2>2, <2>3 DEF Finals
  <1> QED BY <1>3, <1>5, <1>6, <1>7

(* Only setState changes the state.                                        *)
LEMMA StateSteps ==
  ASSUME Base, [TNext]_tvars, NEW u \in Tasks, state'[u] # state[u]
  PROVE  /\ setState(u) /\ ~Ignored(u)
         /\ state'[u] \in Successors(state[u])
  <1>1. setState(u)
    BY NextCases DEF tvars, taskVars, propVars, RunLambda, Return, Move, Submit, Run, UpdateValue,
       CallReturns, CallThrows, FutureDone, CancelInBackground, Post, CallStarted, PostUpdate,
       PostSucceeded, PostFailed, PostCancelled, CancelOnFx, FxStep, setState, setRunning, fireEvent,
       setValue, _setException, TakeUpdate, Base, Types
  <1>2. ~Ignored(u)
    BY <1>1 DEF setState
  <1> QED BY <1>1, <1>2, SetStateSucceeds

(* What a step of the FX thread, but for taking a lambda, does to what is  *)
(* due on the stack: each operation leaves it only when it is done.        *)
LEMMA FxDue ==
  ASSUME Base, Return \/ \E t \in Tasks : FxStep(t), NEW u \in Tasks
  PROVE  /\ queue' = queue /\ future' = future /\ pc' = pc /\ cancelling' = cancelling
         /\ \A s \in Finals : AtEnd(fx', u, s) => AtEnd(fx, u, s)
         /\ \A s \in Finals : AtEnd(fx, u, s) =>
              AtEnd(fx', u, s) \/ state'[u] = s \/ state'[u] = "CANCELLED"
         /\ UpdateAtEnd(fx', u) => UpdateAtEnd(fx, u)
         /\ Cancels(fx', u) => Cancels(fx, u)
         /\ Cancels(fx, u) => Cancels(fx', u) \/ state'[u] = "CANCELLED"
         /\ AtEnd(fx, u, "SUCCEEDED") /\ FirstHalf(fx, "setValue") =>
              FirstHalf(fx', "setValue") \/ (setValue(u) /\ Arg = "result")
         /\ AtEnd(fx, u, "FAILED") /\ FirstHalf(fx, "setException") =>
              FirstHalf(fx', "setException") \/ _setException(u)
  <1> DEFINE Leaves ==
               /\ queue' = queue /\ future' = future /\ pc' = pc /\ cancelling' = cancelling
               /\ \A s \in Finals : AtEnd(fx', u, s) => AtEnd(fx, u, s)
               /\ \A s \in Finals : AtEnd(fx, u, s) =>
                    AtEnd(fx', u, s) \/ state'[u] = s \/ state'[u] = "CANCELLED"
               /\ UpdateAtEnd(fx', u) => UpdateAtEnd(fx, u)
               /\ Cancels(fx', u) => Cancels(fx, u)
               /\ Cancels(fx, u) => Cancels(fx', u) \/ state'[u] = "CANCELLED"
               /\ AtEnd(fx, u, "SUCCEEDED") /\ FirstHalf(fx, "setValue") =>
                    FirstHalf(fx', "setValue") \/ (setValue(u) /\ Arg = "result")
               /\ AtEnd(fx, u, "FAILED") /\ FirstHalf(fx, "setException") =>
                    FirstHalf(fx', "setException") \/ _setException(u)
  <1>1. Stack(fx) /\ Types /\ state[u] \in States
    BY DEF Base, Types
  <1>2. queue' = queue /\ future' = future /\ pc' = pc /\ cancelling' = cancelling
    BY DEF FxStep, setState, setRunning, fireEvent, setValue, _setException, TakeUpdate, Return,
           futureVars, taskVars
  <1>3. ASSUME Return PROVE Leaves
    BY <1>1, <1>2, <1>3, ReturnStep DEF Beneath, Unmoved
  <1>4. ASSUME NEW t \in Tasks, setRunning(t) PROVE Leaves
    BY <1>1, <1>2, <1>4, SetRunningStep DEF Beneath, Unmoved
  <1>5. ASSUME NEW t \in Tasks, fireEvent(t) PROVE Leaves
    BY <1>1, <1>2, <1>5, FireEventStep DEF Beneath, Unmoved
  <1>6. ASSUME NEW t \in Tasks, TakeUpdate(t) PROVE Leaves
    BY <1>1, <1>2, <1>6, TakeUpdateStep DEF Finals
  <1>7. ASSUME NEW t \in Tasks, setValue(t) PROVE Leaves
    <2>1. Beneath
      BY <1>1, <1>7, SetValueStep
    <2>2. /\ \/ Len(fx) = 2 /\ Arg = "result" /\ AtEnd(fx, t, "SUCCEEDED")
             \/ Len(fx) = 1 /\ UpdateAtEnd(fx, t)
          /\ ~Sets(Head(fx), u, "CANCELLED")
      BY <1>1, <1>7, SetValueFinds DEF setValue
    <2>3. CASE Len(fx) = 2 /\ Arg = "result" /\ AtEnd(fx, t, "SUCCEEDED")
      <3>1. AtEnd(fx, u, "SUCCEEDED") => u = t
        BY <2>3 DEF AtEnd, Sets
      <3>2. ~AtEnd(fx, u, "FAILED")
        BY <2>3 DEF AtEnd, Sets
      <3> QED BY <1>2, <1>7, <2>1, <2>2, <2>3, <3>1, <3>2 DEF Beneath
    <2>4. CASE Len(fx) = 1 /\ UpdateAtEnd(fx, t)
      <3>1. \A s \in Finals : ~AtEnd(fx, u, s)
        BY <2>4 DEF AtEnd, UpdateAtEnd, Sets, Shows
      <3> QED BY <1>2, <2>1, <2>2, <2>4, <3>1 DEF Beneath, Finals
    <2> QED BY <2>2, <2>3, <2>4
  <1>8. ASSUME NEW t \in Tasks, _setException(t) PROVE Leaves
    <2>1. Beneath
      BY <1>1, <1>8, SetExceptionStep
    <2>2. Len(fx) = 2 /\ AtEnd(fx, t, "FAILED") /\ ~Sets(Head(fx), u, "CANCELLED")
      BY <1>1, <1>8, SetExceptionFinds DEF _setException
    <2>3. AtEnd(fx, u, "FAILED") => u = t
      BY <2>2 DEF AtEnd, Sets
    <2>4. ~AtEnd(fx, u, "SUCCEEDED")
      BY <2>2 DEF AtEnd, Sets
    <2> QED BY <1>2, <1>8, <2>1, <2>2, <2>3, <2>4 DEF Beneath
  <1>9. ASSUME NEW t \in Tasks, setState(t) PROVE Leaves
    <2>1. Beneath /\ (Arg = "CANCELLED" => Unmoved)
      BY <1>1, <1>9, SetStateStep
    <2>2. /\ \/ Arg = "CANCELLED"
             \/ Len(fx) = 2 /\ Arg = "SCHEDULED" /\ AtEnd(fx, t, "RUNNING") /\ Scheduling(fx)
             \/ Len(fx) = 1 /\ Arg \in Finals /\ AtEnd(fx, t, Arg)
          /\ Sets(Head(fx), u, "CANCELLED") <=> u = t /\ Arg = "CANCELLED"
      BY <1>1, <1>9, SetStateFinds DEF setState
    <2>3. state'[t] = Arg \/ state'[t] = "CANCELLED"
      BY <1>1, <1>9 DEF setState, Ignored, Types
    <2>4. CASE Arg = "CANCELLED"
      BY <1>2, <2>1, <2>2, <2>3, <2>4 DEF Beneath, Unmoved
    <2>5. CASE Len(fx) = 2 /\ Arg = "SCHEDULED" /\ AtEnd(fx, t, "RUNNING") /\ Scheduling(fx)
      <3>1. ~AtEnd(fx, u, "SUCCEEDED") /\ ~AtEnd(fx, u, "FAILED")
        BY <2>5 DEF AtEnd, Sets
      <3> QED BY <1>2, <2>1, <2>2, <2>5, <3>1 DEF Beneath
    <2>6. CASE Len(fx) = 1 /\ Arg \in Finals /\ AtEnd(fx, t, Arg)
      <3>1. \A s \in Finals : AtEnd(fx, u, s) => u = t /\ s = Arg
        BY <2>6 DEF AtEnd, Sets
      <3>2. ~FirstHalf(fx, "setValue") /\ ~FirstHalf(fx, "setException") /\ Arg # "CANCELLED"
        BY <2>6 DEF FirstHalf, Finals
      <3> QED BY <1>2, <2>1, <2>2, <2>3, <2>6, <3>1, <3>2 DEF Beneath
    <2> QED BY <2>2, <2>4, <2>5, <2>6
  <1>10. Leaves
    BY <1>3, <1>4, <1>5, <1>6, <1>7, <1>8, <1>9 DEF FxStep
  <1> QED BY <1>10
-----------------------------------------------------------------------------
(* The future and what is due of it stay together.                         *)
LEMMA FutureShownStep ==
  ASSUME Base, Base', [TNext]_tvars, NEW u \in Tasks, FutureShown(u)
  PROVE  FutureShown(u)'
  <1>1. /\ pc \in [Tasks -> PCs] /\ cancelling \in [Tasks -> BOOLEAN] /\ state[u] \in States
        /\ future \in [Tasks -> {"NEW", "NORMAL", "EXCEPTIONAL", "CANCELLED"}] /\ Progress(u)
    BY DEF Base, Types
  <1>2. {"RUNNING", "SUCCEEDED", "FAILED", "CANCELLED"} \subseteq States
    BY DEF States
  <1>3. CASE UNCHANGED tvars
    BY <1>3 DEF tvars, taskVars, futureVars, propVars, FutureShown, CancelDue, Due
  <1>4. CASE RunLambda
    <2>1. future' = future /\ pc' = pc /\ cancelling' = cancelling /\ state' = state
      BY <1>4 DEF RunLambda, taskVars, futureVars, propVars
    <2>2. /\ \A s \in States : InQueue(queue, u, s) <=> InQueue(queue', u, s) \/ AtEnd(fx', u, s)
          /\ \A s \in States : ~AtEnd(fx, u, s)
          /\ Cancels(fx', u) <=> AtEnd(fx', u, "CANCELLED")
          /\ ~Cancels(fx, u)
      BY <1>4, RunLambdaStep DEF Base
    <2> QED BY <1>2, <2>1, <2>2 DEF FutureShown, CancelDue, Due
  <1>5. ASSUME NEW t \in Tasks, Move(t) PROVE FutureShown(u)'
    <2>1. queue' = queue /\ fx' = fx /\ state' = state
      BY <1>5 DEF Move, Submit, Run, UpdateValue, CallReturns, CallThrows, FutureDone,
                  CancelInBackground, propVars
    <2>2. CASE CancelInBackground(t)
      BY <1>1, <2>1, <2>2 DEF CancelInBackground, CancelFuture, FutureShown, CancelDue, Due
    <2>3. CASE FutureDone(t)
      BY <1>1, <2>1, <2>3 DEF FutureDone, Outcome, FutureShown, CancelDue, Due
    <2>4. CASE Submit(t) \/ Run(t) \/ UpdateValue(t) \/ CallReturns(t) \/ CallThrows(t)
      <3>1. future' = future /\ cancelling' = cancelling
        BY <2>4 DEF Submit, Run, UpdateValue, CallReturns, CallThrows
      <3>2. /\ pc'[u] \in {"set", "setException"} => pc'[u] = pc[u]
            /\ pc[u] = "done" => pc'[u] = "done"
            /\ pc'[u] = "done" /\ pc[u] # "done" => future[u] # "NEW"
        BY <1>1, <2>4 DEF Submit, Run, UpdateValue, CallReturns, CallThrows, Goto
      <3> QED BY <2>1, <3>1, <3>2 DEF FutureShown, CancelDue, Due
    <2> QED BY <1>5, <2>2, <2>3, <2>4 DEF Move
  <1>6. ASSUME NEW t \in Tasks, Post(t) PROVE FutureShown(u)'
    <2>1. fx' = fx /\ state' = state /\ future' = future
      BY <1>6 DEF Post, CallStarted, PostUpdate, PostSucceeded, PostFailed, PostCancelled, propVars
    <2>2. \A s \in States : InQueue(queue, u, s) => InQueue(queue', u, s)
      BY <1>6, PostSteps DEF Post, PostedView
    <2>3. CASE PostCancelled(t)
      <3>1. \A s \in States : InQueue(queue', u, s) <=> InQueue(queue, u, s) \/ (u = t /\ s = "CANCELLED")
        BY <2>3, PostSteps DEF PostedView
      <3>2. /\ pc' = pc
            /\ u = t => cancelling[u] /\ ~cancelling'[u]
            /\ u # t => cancelling'[u] = cancelling[u]
        BY <1>1, <2>3 DEF PostCancelled
      <3> QED BY <1>2, <2>1, <2>2, <3>1, <3>2 DEF FutureShown, CancelDue, Due
    <2>4. CASE ~PostCancelled(t)
      <3>1. InQueue(queue', u, "CANCELLED") <=> InQueue(queue, u, "CANCELLED")
        BY <1>2, <1>6, <2>4, PostSteps DEF Post, PostedView
      <3>2. /\ cancelling' = cancelling
            /\ pc[u] = "done" <=> pc'[u] = "done"
            /\ pc'[u] = "set" => pc[u] = "set" \/ (u = t /\ PostSucceeded(t))
            /\ pc'[u] = "setException" => pc[u] = "setException" \/ (u = t /\ PostFailed(t))
        BY <1>1, <1>6, <2>4 DEF Post, CallStarted, PostUpdate, PostSucceeded, PostFailed, Goto
      <3>3. /\ PostSucceeded(t) => InQueue(queue', t, "SUCCEEDED")
            /\ PostFailed(t) => InQueue(queue', t, "FAILED")
        BY <1>2, PostSteps DEF PostedView
      <3> QED BY <1>2, <2>1, <2>2, <3>1, <3>2, <3>3 DEF FutureShown, CancelDue, Due
    <2> QED BY <2>3, <2>4
  <1>7. ASSUME NEW t \in Tasks, CancelOnFx(t) PROVE FutureShown(u)'
    <2>1. pc' = pc /\ cancelling' = cancelling /\ state' = state /\ queue' = queue
      BY <1>7 DEF CancelOnFx, propVars
    <2>2. /\ \A s \in Finals : AtEnd(fx', u, s) <=> AtEnd(fx, u, s)
          /\ Cancels(fx', u) <=> Cancels(fx, u) \/ u = t
      BY <1>7, CancelOnFxStep DEF Base, Unmoved
    <2>3. /\ u = t => future[u] = "NEW" /\ future'[u] = "CANCELLED"
          /\ u # t => future'[u] = future[u]
      BY <1>1, <1>7 DEF CancelOnFx, CancelFuture
    <2> QED BY <2>1, <2>2, <2>3 DEF FutureShown, CancelDue, Due, Finals
  <1>8. CASE Return \/ \E t \in Tasks : FxStep(t)
    <2>1. /\ queue' = queue /\ future' = future /\ pc' = pc /\ cancelling' = cancelling
          /\ \A s \in Finals : AtEnd(fx, u, s) =>
               AtEnd(fx', u, s) \/ state'[u] = s \/ state'[u] = "CANCELLED"
          /\ Cancels(fx', u) => Cancels(fx, u)
          /\ Cancels(fx, u) => Cancels(fx', u) \/ state'[u] = "CANCELLED"
      BY <1>8, FxDue
    <2>2. state'[u] # state[u] => setState(u) /\ state[u] # "CANCELLED" /\ state'[u] = Arg
                                  /\ state'[u] \in Successors(state[u])
      BY StateSteps, SetStateSucceeds DEF Ignored
    <2>3. /\ state[u] = "CANCELLED" => state'[u] = "CANCELLED"
          /\ state[u] \in {"SUCCEEDED", "FAILED"} => state'[u] \in {state[u], "CANCELLED"}
      BY <2>2 DEF Successors
    <2>4. state'[u] = "CANCELLED" /\ state[u] # "CANCELLED" => Cancels(fx, u)
      <3> SUFFICES ASSUME state'[u] = "CANCELLED", state[u] # "CANCELLED" PROVE Cancels(fx, u)
        OBVIOUS
      <3>1. Sets(Head(fx), u, "CANCELLED") /\ fx # <<>> /\ fx \in Seq(Ops)
        BY <2>2, SetStateFinds DEF setState, Top, Base, Stack
      <3>2. Head(fx) = fx[1] /\ 1 \in 1 .. Len(fx)
        BY <3>1, EmptySeq
      <3> QED BY <3>1, <3>2 DEF Cancels
    <2> QED BY <2>1, <2>3, <2>4 DEF FutureShown, CancelDue, Due, Finals
  <1> QED BY <1>3, <1>4, <1>5, <1>6, <1>7, <1>8, NextCases
-----------------------------------------------------------------------------
(* The value and the exception are there before the state says so.         *)
LEMMA OutcomesStep ==
  ASSUME Base, Base', [TNext]_tvars, NEW u \in Tasks, Outcomes(u)
  PROVE  Outcomes(u)'
  <1>1. /\ state[u] \in States /\ Progress(u) /\ pc \in [Tasks -> PCs]
        /\ value \in [Tasks -> Values] /\ exception \in [Tasks -> BOOLEAN]
    BY DEF Base, Types
  <1>2. {"RUNNING", "SUCCEEDED", "FAILED", "CANCELLED"} \subseteq States
    BY DEF States
  <1>3. CASE UNCHANGED tvars
    BY <1>3 DEF tvars, taskVars, futureVars, propVars, Outcomes, UpdateDue
  <1>4. CASE RunLambda
    <2>1. state' = state /\ value' = value /\ exception' = exception
      BY <1>4 DEF RunLambda, taskVars, propVars
    <2>2. /\ AtEnd(fx', u, "SUCCEEDED") => FirstHalf(fx', "setValue")
          /\ AtEnd(fx', u, "FAILED") => FirstHalf(fx', "setException")
          /\ AtEnd(fx', u, "SUCCEEDED") => ~UpdateQueued(queue', u)
          /\ UpdateQueued(queue, u) <=> UpdateQueued(queue', u) \/ UpdateAtEnd(fx', u)
      BY <1>4, RunLambdaStep DEF Base
    <2>3. AtEnd(fx', u, "SUCCEEDED") => ~UpdateAtEnd(fx', u)
      BY DEF AtEnd, UpdateAtEnd, Sets, Shows
    <2> QED BY <2>1, <2>2, <2>3 DEF Outcomes, UpdateDue
  <1>5. ASSUME NEW t \in Tasks, Move(t) PROVE Outcomes(u)'
    <2>1. queue' = queue /\ fx' = fx /\ state' = state /\ value' = value /\ exception' = exception
      BY <1>5 DEF Move, Submit, Run, UpdateValue, CallReturns, CallThrows, FutureDone,
                  CancelInBackground, propVars
    <2> QED BY <2>1 DEF Outcomes, UpdateDue
  <1>6. ASSUME NEW t \in Tasks, Post(t) PROVE Outcomes(u)'
    <2>1. fx' = fx /\ state' = state /\ value' = value /\ exception' = exception
      BY <1>6 DEF Post, CallStarted, PostUpdate, PostSucceeded, PostFailed, PostCancelled, propVars
    <2>2. UpdateQueued(queue', u) => UpdateQueued(queue, u) \/ (u = t /\ PostUpdate(t))
      BY <1>6, PostSteps DEF Post, PostedView
    <2>3. u = t /\ PostUpdate(t) => ~AtEnd(fx, u, "SUCCEEDED") /\ state[u] # "SUCCEEDED"
      <3> SUFFICES ASSUME u = t, PostUpdate(t)
                   PROVE  ~AtEnd(fx, u, "SUCCEEDED") /\ state[u] # "SUCCEEDED"
        OBVIOUS
      <3>1. pc[u] \in Mid
        BY DEF PostUpdate, Goto, Mid
      <3> QED BY <1>1, <3>1 DEF Progress, Due
    <2> QED BY <2>1, <2>2, <2>3 DEF Outcomes, UpdateDue
  <1>7. ASSUME NEW t \in Tasks, CancelOnFx(t) PROVE Outcomes(u)'
    <2>1. state' = state /\ queue' = queue /\ value' = value /\ exception' = exception
      BY <1>7 DEF CancelOnFx, propVars
    <2>2. /\ \A s \in Finals : AtEnd(fx', u, s) <=> AtEnd(fx, u, s)
          /\ UpdateAtEnd(fx', u) <=> UpdateAtEnd(fx, u)
          /\ \A op \in {"setValue", "setException"} : FirstHalf(fx', op) <=> FirstHalf(fx, op)
      BY <1>7, CancelOnFxStep DEF Base, Unmoved
    <2> QED BY <2>1, <2>2 DEF Outcomes, UpdateDue, Finals
  <1>8. CASE Return \/ \E t \in Tasks : FxStep(t)
    <2>1. /\ queue' = queue
          /\ \A s \in Finals : AtEnd(fx', u, s) => AtEnd(fx, u, s)
          /\ UpdateAtEnd(fx', u) => UpdateAtEnd(fx, u)
          /\ AtEnd(fx, u, "SUCCEEDED") /\ FirstHalf(fx, "setValue") =>
               FirstHalf(fx', "setValue") \/ (setValue(u) /\ Arg = "result")
          /\ AtEnd(fx, u, "FAILED") /\ FirstHalf(fx, "setException") =>
               FirstHalf(fx', "setException") \/ _setException(u)
      BY <1>8, FxDue
    <2>2. state'[u] = "SUCCEEDED" /\ state[u] # "SUCCEEDED"
            => AtEnd(fx, u, "SUCCEEDED") /\ ~FirstHalf(fx, "setValue") /\ value' = value
      <3> SUFFICES ASSUME state'[u] = "SUCCEEDED", state[u] # "SUCCEEDED"
                   PROVE  AtEnd(fx, u, "SUCCEEDED") /\ ~FirstHalf(fx, "setValue") /\ value' = value
        OBVIOUS
      <3>1. setState(u) /\ Arg = "SUCCEEDED"
        BY StateSteps, SetStateSucceeds
      <3>2. Len(fx) = 1 /\ AtEnd(fx, u, "SUCCEEDED")
        BY <3>1, SetStateFinds DEF setState, Base
      <3> QED BY <3>1, <3>2 DEF setState, FirstHalf
    <2>3. state'[u] = "FAILED" /\ state[u] # "FAILED"
            => AtEnd(fx, u, "FAILED") /\ ~FirstHalf(fx, "setException")
      <3> SUFFICES ASSUME state'[u] = "FAILED", state[u] # "FAILED"
                   PROVE  AtEnd(fx, u, "FAILED") /\ ~FirstHalf(fx, "setException")
        OBVIOUS
      <3>1. setState(u) /\ Arg = "FAILED"
        BY StateSteps, SetStateSucceeds
      <3>2. Len(fx) = 1 /\ AtEnd(fx, u, "FAILED")
        BY <3>1, SetStateFinds DEF setState, Base
      <3> QED BY <3>2 DEF FirstHalf
    <2>4. exception[u] => exception'[u]
      BY <1>1, <1>8 DEF FxStep, Return, setState, setRunning, fireEvent, setValue, _setException,
                        TakeUpdate, taskVars, propVars
    <2>5. _setException(u) => exception'[u]
      BY <1>1 DEF _setException
    <2>6. value'[u] = value[u] \/ (setValue(u) /\ value'[u] = Arg)
      BY <1>1, <1>8 DEF FxStep, Return, setState, setRunning, fireEvent, setValue, _setException,
                        TakeUpdate, taskVars, propVars
    <2>7. setValue(u) => value'[u] = Arg /\ (Arg = "result" \/ UpdateAtEnd(fx, u))
      BY <1>1, SetValueFinds DEF setValue, Base
    <2> QED BY <2>1, <2>2, <2>3, <2>4, <2>5, <2>6, <2>7 DEF Outcomes, UpdateDue, Finals
  <1> QED BY <1>3, <1>4, <1>5, <1>6, <1>7, <1>8, NextCases

(* A successor other than CANCELLED is new, and nothing reached is lost.   *)
LEMMA ReachedBy ==
  ASSUME NEW s \in States
  PROVE  /\ s \in {"SCHEDULED", "RUNNING", "SUCCEEDED", "FAILED"} => s \in Reached(s)
         /\ \A r \in Successors(s) : r # "CANCELLED" =>
              r \notin Reached(s) /\ Reached(s) \subseteq Reached(r)
         /\ s # "CANCELLED" => "CANCELLED" \notin Reached(s)
         /\ \A r \in Successors(s) : r # "READY"
  BY DEF States, Successors, Reached, Ended

(* The events on the stack and the events fired.  Nothing changes for a    *)
(* task whose events, state and counts stay.                               *)
LEMMA FiredKept ==
  ASSUME NEW u \in Tasks, Fired(u), state'[u] = state[u], fired'[u] = fired[u],
         Firing(fx', u) <=> Firing(fx, u), FiringOnce(fx, u) => FiringOnce(fx', u)
  PROVE  Fired(u)'
  BY DEF Fired

(* The counts and the pending events stay together.                        *)
LEMMA FiredStep ==
  ASSUME Base, Base', [TNext]_tvars, NEW u \in Tasks, Fired(u)
  PROVE  Fired(u)'
  <1>1. Stack(fx) /\ Types /\ state[u] \in States /\ fired[u] \in [States -> Nat]
    BY DEF Base, Types
  <1>2. CASE UNCHANGED tvars
    BY <1>2 DEF tvars, taskVars, propVars, Fired
  <1>3. CASE RunLambda
    <2>1. state' = state /\ fired' = fired
      BY <1>3 DEF RunLambda, taskVars, propVars
    <2> QED BY <1>3, <2>1, RunLambdaStep, FiredKept DEF Base
  <1>4. CASE Return
    <2>1. state' = state /\ fired' = fired
      BY <1>4 DEF Return, taskVars, propVars
    <2> QED BY <1>1, <1>4, <2>1, ReturnStep, FiredKept DEF Beneath, Quiet
  <1>5. ASSUME NEW t \in Tasks, Move(t) \/ Post(t) PROVE Fired(u)'
    <2>1. state' = state /\ fired' = fired /\ fx' = fx
      BY <1>5 DEF Move, Submit, Run, UpdateValue, CallReturns, CallThrows, FutureDone,
                  CancelInBackground, Post, CallStarted, PostUpdate, PostSucceeded, PostFailed,
                  PostCancelled, propVars
    <2> QED BY <2>1 DEF Fired
  <1>6. ASSUME NEW t \in Tasks, CancelOnFx(t) PROVE Fired(u)'
    <2>1. state' = state /\ fired' = fired
      BY <1>6 DEF CancelOnFx, propVars
    <2> QED BY <1>1, <1>6, <2>1, CancelOnFxStep, FiredKept
  <1>7. ASSUME NEW t \in Tasks, setRunning(t) PROVE Fired(u)'
    <2>1. state' = state /\ fired' = fired
      BY <1>7 DEF setRunning
    <2> QED BY <1>1, <1>7, <2>1, SetRunningStep, FiredKept DEF Beneath, Quiet
  <1>8. ASSUME NEW t \in Tasks, setValue(t) \/ _setException(t) PROVE Fired(u)'
    <2>1. state' = state /\ fired' = fired
      BY <1>8 DEF setValue, _setException
    <2>2. Beneath /\ Quiet(u)
      BY <1>1, <1>8, SetValueStep, SetExceptionStep
    <2>3. ~IsEvent(Head(fx), u)
      BY <1>1, <1>8, SetValueFinds, SetExceptionFinds DEF setValue, _setException
    <2> QED BY <2>1, <2>2, <2>3, FiredKept DEF Beneath, Quiet
  <1>9. ASSUME NEW t \in Tasks, TakeUpdate(t) PROVE Fired(u)'
    <2>1. state' = state /\ fired' = fired
      BY <1>9 DEF TakeUpdate
    <2> QED BY <1>1, <1>9, <2>1, TakeUpdateStep, FiredKept
  <1>10. ASSUME NEW t \in Tasks, fireEvent(t) PROVE Fired(u)'
    <2>1. state' = state /\ fired' = [fired EXCEPT ![t][state[t]] = @ + 1]
      BY <1>10 DEF fireEvent
    <2>2. /\ Beneath /\ Quiet(u)
          /\ IsEvent(Head(fx), u) <=> u = t
      BY <1>1, <1>10, FireEventStep
    <2>3. CASE u # t
      BY <1>1, <2>1, <2>2, <2>3, FiredOnce, FiredKept DEF Beneath, Quiet
    <2>4. CASE u = t
      <3>1. \A s \in States : fired'[u][s] = IF s = state[u] THEN fired[u][s] + 1 ELSE fired[u][s]
        BY <1>1, <2>1, <2>4, FiredOnce
      <3>2. Firing(fx, u) /\ (FiringOnce(fx, u) => ~Firing(fx', u) /\ FiringOnce(fx', u))
        BY <2>2, <2>4 DEF Beneath, Quiet
      <3>3. state[u] # "READY"
        BY <3>2 DEF Fired
      <3>4. state[u] # "CANCELLED" => fired[u][state[u]] = 0 /\ ~Firing(fx', u) /\ FiringOnce(fx', u)
        BY <3>2 DEF Fired
      <3>5. fired'[u][state[u]] = fired[u][state[u]] + 1 /\ fired[u][state[u]] \in Nat
        BY <1>1, <3>1
      <3>6. \A s \in States \ {"CANCELLED"} : fired'[u][s] <= 1
        BY <1>1, <3>1, <3>4 DEF Fired
      <3>7. state[u] # "CANCELLED" => \A s \in States \ Reached(state[u]) : fired'[u][s] = 0
        BY <1>1, <3>1, <3>3, ReachedBy DEF Fired, States
      <3> QED BY <2>1, <3>3, <3>4, <3>5, <3>6, <3>7 DEF Fired
    <2> QED BY <2>3, <2>4
  <1>11. ASSUME NEW t \in Tasks, setState(t) PROVE Fired(u)'
    <2>1. fired' = fired /\ Beneath /\ ~IsEvent(Head(fx), u)
      BY <1>1, <1>11, SetStateStep, SetStateFinds DEF setState
    <2>2. CASE u # t \/ Ignored(t)
      <3>1. state'[u] = state[u] /\ Quiet(u)
        BY <1>1, <1>11, <2>2, SetStateStep DEF setState, Types
      <3> QED BY <2>1, <3>1, FiredKept DEF Beneath, Quiet
    <2>3. CASE u = t /\ ~Ignored(t)
      <3>1. /\ state'[u] = Arg /\ Arg \in Successors(state[u]) /\ Arg \in States
            /\ Arg # "CANCELLED" => ~FiringBelow(fx, u)
        BY <1>11, <2>3, SetStateSucceeds
      <3>2. state[u] # "CANCELLED" /\ Loud(u)
        BY <1>1, <1>11, <2>3, SetStateStep DEF Ignored
      <3>3. Arg # "READY" /\ (Arg # "CANCELLED" => /\ Arg \notin Reached(state[u])
                                                   /\ Reached(state[u]) \subseteq Reached(Arg))
        BY <1>1, <3>1, ReachedBy
      <3>4. Firing(fx', u) /\ (Arg # "CANCELLED" => FiringOnce(fx', u))
        BY <3>1, <3>2 DEF Loud
      <3>5. Arg # "CANCELLED" => /\ \A s \in States \ Reached(Arg) : fired[u][s] = 0
                                 /\ fired[u][Arg] = 0
        BY <3>1, <3>2, <3>3 DEF Fired
      <3> QED BY <2>1, <3>1, <3>3, <3>4, <3>5 DEF Fired
    <2> QED BY <2>2, <2>3
  <1> QED BY <1>2, <1>3, <1>4, <1>5, <1>6, <1>7, <1>8, <1>9, <1>10, <1>11, NextCases DEF FxStep
-----------------------------------------------------------------------------
(* The invariant holds initially and is kept by every step.                *)
LEMMA InitInv == TInit => IInv
  <1> SUFFICES ASSUME TInit PROVE IInv
    OBVIOUS
  <1>1. Types
    BY DEF TInit, Types, States, Values, PCs
  <1>2. fx = <<>> /\ queue = <<>>
    BY DEF TInit
  <1>3. Stack(fx) /\ Queue(queue)
    BY <1>2 DEF Stack, Queue
  <1>4. ASSUME NEW t \in Tasks
        PROVE  /\ \A s \in States : ~InQueue(queue, t, s) /\ ~AtEnd(fx, t, s)
               /\ ~UpdateQueued(queue, t) /\ ~UpdateAtEnd(fx, t)
               /\ ~Cancels(fx, t) /\ ~Firing(fx, t) /\ FiringOnce(fx, t)
    BY <1>2 DEF InQueue, AtEnd, UpdateQueued, UpdateAtEnd, Cancels, Firing, FiringOnce
  <1>5. ASSUME NEW t \in Tasks
        PROVE  /\ future[t] = "NEW" /\ pc[t] = "new" /\ ~cancelling[t] /\ state[t] = "READY"
               /\ \A s \in States : fired[t][s] = 0
    BY DEF TInit
  <1>6. \A t \in Tasks : Progress(t) /\ FutureShown(t) /\ Outcomes(t)
    BY ZenonT(60), <1>4, <1>5 DEF Progress, FutureShown, Outcomes, Due, UpdateDue, CancelDue, States, Finals,
                      Early, Mid
  <1>7. ASSUME NEW t \in Tasks PROVE Fired(t)
    <2>1. \A s \in States \ {"CANCELLED"} : fired[t][s] <= 1
      BY <1>5
    <2>2. \A s \in States \ Reached(state[t]) : fired[t][s] = 0
      BY <1>5
    <2>3. state[t] = "READY" /\ ~Firing(fx, t) /\ FiringOnce(fx, t)
      BY <1>4, <1>5
    <2> QED BY <2>1, <2>2, <2>3 DEF Fired
  <1> QED BY <1>1, <1>3, <1>6, <1>7 DEF IInv, Base

(* Every step preserves the invariant.                                     *)
LEMMA StepInv == IInv /\ [TNext]_tvars => IInv'
  <1> SUFFICES ASSUME IInv, [TNext]_tvars PROVE IInv'
    OBVIOUS
  <1>1. Base /\ Base'
    BY BaseStep DEF IInv
  <1>2. \A t \in Tasks : FutureShown(t)' /\ Outcomes(t)' /\ Fired(t)'
    BY <1>1, FutureShownStep, OutcomesStep, FiredStep DEF IInv
  <1> QED BY <1>1, <1>2 DEF IInv

(* So it holds throughout.                                                 *)
LEMMA Invariance == TSpec => []IInv
  BY InitInv, StepInv, PTL DEF TSpec

(* When a task shows SUCCEEDED its value is the result, and when it shows  *)
(* FAILED its exception is there, whatever updateValue left in flight and  *)
(* wherever application code calls cancel().                               *)
THEOREM OutcomeIsAvailable == TSpec => []OutcomeAvailable
  <1>1. IInv => OutcomeAvailable
    BY DEF IInv, Outcomes, OutcomeAvailable
  <1> QED BY <1>1, Invariance, PTL

(* Once everything posted has been run, the state property and the Future  *)
(* agree on how the task ended.                                            *)
THEOREM StateFollowsFuture == TSpec => []StateAgreesWithFuture
  <1>1. IInv => StateAgreesWithFuture
    <2> SUFFICES ASSUME IInv, NEW t \in Tasks, Settled(t)
                 PROVE  state[t] = Conclusion(future[t])
      BY DEF StateAgreesWithFuture
    <2>1. fx = <<>> /\ queue = <<>> /\ ~cancelling[t] /\ pc[t] \in {"new", "done"}
      BY DEF Settled
    <2>2. /\ \A s \in States : ~InQueue(queue, t, s) /\ ~AtEnd(fx, t, s)
          /\ ~Cancels(fx, t)
      BY <2>1 DEF InQueue, AtEnd, Cancels
    <2>3. /\ future[t] \in {"NEW", "NORMAL", "EXCEPTIONAL", "CANCELLED"}
          /\ Progress(t) /\ FutureShown(t)
      BY DEF IInv, Base, Types
    <2>4. future[t] = "CANCELLED" <=> state[t] = "CANCELLED"
      BY <2>1, <2>2, <2>3 DEF FutureShown, CancelDue, States
    <2>5. /\ future[t] = "NORMAL" => state[t] = "SUCCEEDED"
          /\ future[t] = "EXCEPTIONAL" => state[t] = "FAILED"
      BY <2>2, <2>3, <2>4 DEF FutureShown, Due, States
    <2>6. future[t] = "NEW" => state[t] = "READY"
      BY <2>1, <2>3, <2>4 DEF FutureShown, Progress, Early
    <2> QED BY <2>3, <2>4, <2>5, <2>6 DEF Conclusion
  <1> QED BY <1>1, Invariance, PTL

(* The handlers of a state other than CANCELLED are told of it once at     *)
(* most, and when the FX thread is idle those of the state have been told. *)
THEOREM HandlersAreTold == TSpec => []HandlersTold
  <1>1. IInv => HandlersTold
    <2> SUFFICES ASSUME IInv, NEW t \in Tasks
                 PROVE  /\ \A s \in States \ {"CANCELLED"} : fired[t][s] <= 1
                        /\ fx = <<>> /\ state[t] # "READY" => fired[t][state[t]] >= 1
      BY DEF HandlersTold
    <2>1. Fired(t)
      BY DEF IInv
    <2>2. fx = <<>> => ~Firing(fx, t)
      BY DEF Firing
    <2> QED BY <2>1, <2>2 DEF Fired
  <1> QED BY <1>1, Invariance, PTL

(* A task goes from READY to SCHEDULED to RUNNING to one of its ends, from *)
(* any of them to CANCELLED, and from CANCELLED nowhere.                   *)
THEOREM StatesInOrder == TSpec => InOrder
  <1>1. IInv /\ [TNext]_tvars =>
          [\A t \in Tasks : state'[t] # state[t] => state'[t] \in Successors(state[t])]_state
    BY StateSteps DEF IInv
  <1> QED BY <1>1, Invariance, PTL DEF TSpec, InOrder
=============================================================================
