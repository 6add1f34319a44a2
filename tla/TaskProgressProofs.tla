------------------------- MODULE TaskProgressProofs -------------------------
(***************************************************************************)
(* Proofs about updateProgress, for any set of threads, any numbers and    *)
(* any number of calls.                                                    *)
(***************************************************************************)
EXTENDS TaskProgress, TLAPS

(* The updates that adjusting can produce: each number -1 or not negative, *)
(* and workDone limited by totalWork.                                      *)
Bounded == {u \in [workDone : Amount, totalWork : Amount] : u.workDone <= u.totalWork}

(* Whatever numbers are passed, updateProgress makes such an update.       *)
LEMMA AdjustedBounded ==
  ASSUME NEW w \in Amounts \cup {NaN}, NEW m \in Amounts \cup {NaN}
  PROVE  Adjusted(w, m) \in Bounded
<1>1. ASSUME NEW a \in Amounts \cup {NaN}
      PROVE  InRange(a) \in Amount
  <2>1. CASE a = NaN
    BY <2>1 DEF InRange, Amount
  <2>2. CASE a # NaN
    BY <2>2, ProgressAssumption DEF InRange, Amount
  <2> QED BY <2>1, <2>2
<1>2. InRange(w) \in Amount /\ InRange(m) \in Amount
  BY <1>1
<1>3. ASSUME NEW a \in Amount, NEW b \in Amount
      PROVE  Clamp(a, b) \in Amount /\ Clamp(a, b) <= b
  BY DEF Clamp, Amount
<1> QED
  BY <1>2, <1>3 DEF Adjusted, Update, Bounded

(* What is on its way was asked for ... *)
Travelling == /\ asked \subseteq Bounded
              /\ Indeterminate \in asked
              /\ progressUpdate \subseteq asked
              /\ update \in asked

(* ... and the three properties are those of one update as far as the FX   *)
(* thread has come with setting them.                                      *)
Shown == /\ fx \in {"workDone", "progress"} => totalWork = update.totalWork
         /\ fx = "progress" => workDone = update.workDone
         /\ fx = "idle" => /\ Update(workDone, totalWork) \in asked
                           /\ progress = Quotient(workDone, totalWork)

IInv == Travelling /\ Shown /\ fx \in {"idle", "totalWork", "workDone", "progress"}

LEMMA InitInv == Init => IInv
<1>1. Indeterminate \in Bounded
  BY DEF Indeterminate, Update, Bounded, Amount
<1> QED
  BY <1>1 DEF Init, IInv, Travelling, Shown, Indeterminate, Update, Quotient

LEMMA StepInv == IInv /\ [Next]_vars => IInv'
<1> SUFFICES ASSUME IInv, [Next]_vars
             PROVE  IInv'
  OBVIOUS
<1> USE DEF IInv, Travelling, Shown, props
<1>1. ASSUME NEW w \in Amounts \cup {NaN}, NEW m \in Amounts \cup {NaN}, NEW t \in Threads,
             UpdateProgress(t, w, m)
      PROVE  IInv'
  BY <1>1, AdjustedBounded DEF UpdateProgress, Call
<1>2. ASSUME NEW w \in Amounts \cup {NaN}, NEW m \in Amounts \cup {NaN},
             UpdateProgressOnFx(w, m)
      PROVE  IInv'
  BY <1>2, AdjustedBounded DEF UpdateProgressOnFx, Call
<1>3. ASSUME NEW t \in Threads, PostProgress(t) PROVE IInv'
  BY <1>3 DEF PostProgress
<1>4. CASE TakeProgress
  BY <1>4 DEF TakeProgress
<1>5. CASE setTotalWork
  BY <1>5 DEF setTotalWork
<1>6. CASE setWorkDone
  BY <1>6 DEF setWorkDone
<1>7. CASE setProgress
  <2>1. update = Update(update.workDone, update.totalWork)
    BY DEF Bounded, Update
  <2> QED
    BY <1>7, <2>1 DEF setProgress
<1>8. CASE UNCHANGED vars
  BY <1>8 DEF vars
<1> QED
  BY <1>1, <1>2, <1>3, <1>4, <1>5, <1>6, <1>7, <1>8 DEF Next

(* Whenever the FX thread is done with an update, workDone, totalWork and  *)
(* progress are the numbers and the quotient of one call of updateProgress.*)
THEOREM NeverTorn == Spec => []NotTorn
<1>1. IInv => NotTorn
  BY DEF IInv, Shown, NotTorn
<1> QED
  BY <1>1, InitInv, StepInv, PTL DEF Spec

(* Whatever is passed, no negative number but -1 is shown, and workDone    *)
(* does not exceed totalWork.                                              *)
THEOREM WorkStaysBounded == Spec => []WorkBounded
<1>1. IInv => WorkBounded
  BY DEF IInv, Travelling, Shown, WorkBounded, Bounded, Update, Amount
<1> QED
  BY <1>1, InitInv, StepInv, PTL DEF Spec
=============================================================================
