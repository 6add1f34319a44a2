-------------------------- MODULE TaskUpdatesProofs --------------------------
(***************************************************************************)
(* Proofs about the update channel of javafx.concurrent.Task, for any set  *)
(* of background threads and any number of calls.                          *)
(***************************************************************************)
EXTENDS TaskUpdates, TLAPS

(* The ticket to post a lambda exists exactly while a value is in flight. *)
Ticket == pending # Null <=> (lambdas = 1 \/ \E t \in Threads : pc[t] = "post")

OneTicket == TypeOK /\ AtMostOneInFlight /\ Ticket

(* The number of the call in each place grows from the property, over the  *)
(* running lambda, to the reference; the newest is always somewhere.       *)
Ordered ==
  /\ last = calls
  /\ prop <= calls
  /\ fx = "set" => prop < taken /\ taken <= calls
  /\ pending # Null => pending = calls /\ prop < pending
  /\ pending # Null /\ fx = "set" => taken < pending
  /\ pending = Null => IF fx = "set" THEN taken = calls ELSE prop = calls

OrderedInv == OneTicket /\ Ordered
-----------------------------------------------------------------------------
(* The variables of the channel keep their types: no count of queued       *)
(* lambdas is ever negative and every thread is inside or outside the      *)
(* window between getAndSet and runLater.                                  *)
THEOREM TypeCorrect == USpec => []TypeOK
<1>1. UInit => TypeOK
  BY UpdatesAssumption DEF UInit, TypeOK, Null
<1>2. TypeOK /\ [UNext]_vars => TypeOK'
  <2> SUFFICES ASSUME TypeOK, [UNext]_vars PROVE TypeOK'
    OBVIOUS
  <2> USE UpdatesAssumption DEF TypeOK, Null
  <2>1. ASSUME NEW t \in Threads, Update(t) PROVE TypeOK'
    BY <2>1 DEF Update, MustPost, Arguments
  <2>2. ASSUME NEW t \in Threads, Post(t) PROVE TypeOK'
    BY <2>2 DEF Post
  <2>3. CASE Take
    BY <2>3 DEF Take
  <2>4. CASE SetProperty
    BY <2>4 DEF SetProperty
  <2>5. CASE UpdateOnFx
    BY <2>5 DEF UpdateOnFx, Arguments
  <2>6. CASE UNCHANGED vars
    BY <2>6 DEF vars
  <2> QED
    BY <2>1, <2>2, <2>3, <2>4, <2>5, <2>6 DEF UNext
<1> QED
  BY <1>1, <1>2, PTL DEF USpec

(* With non-null arguments a single ticket to post goes around, whatever   *)
(* the threads do.                                                         *)
LEMMA TicketStep ==
  ASSUME ~AllowNull, OneTicket, [UNext]_vars
  PROVE  OneTicket'
<1> USE UpdatesAssumption DEF OneTicket, TypeOK, Null, AtMostOneInFlight, Posting, Ticket
<1>1. ASSUME NEW t \in Threads, Update(t) PROVE OneTicket'
  <2>1. pending' = calls + 1 /\ pending' # Null
    BY <1>1 DEF Update, MustPost, Arguments
  <2>2. CASE pending = Null
    BY <1>1, <2>1, <2>2 DEF Update, MustPost, Arguments
  <2>3. CASE pending # Null
    <3>1. pc' = pc
      BY <1>1, <2>3 DEF Update, MustPost
    <3> QED
      BY <1>1, <2>1, <2>3, <3>1 DEF Update, MustPost, Arguments
  <2> QED
    BY <2>2, <2>3
<1>2. ASSUME NEW t \in Threads, Post(t) PROVE OneTicket'
  <2>1. lambdas = 0 /\ pending # Null
    BY <1>2 DEF Post
  <2>2. \A s \in Threads : pc'[s] = "idle"
    BY <1>2 DEF Post
  <2> QED
    BY <1>2, <2>1, <2>2 DEF Post
<1>3. CASE Take
  BY <1>3 DEF Take
<1>4. CASE SetProperty
  BY <1>4 DEF SetProperty
<1>5. CASE UpdateOnFx
  BY <1>5 DEF UpdateOnFx, Arguments
<1>6. CASE UNCHANGED vars
  BY <1>6 DEF vars
<1> QED
  BY <1>1, <1>2, <1>3, <1>4, <1>5, <1>6 DEF UNext

(* Coalescing is right for non-null arguments even when the FX thread      *)
(* calls the update method too: one lambda at most, and it finds a value.  *)
THEOREM Coalesced ==
  ASSUME ~AllowNull
  PROVE  USpec => [](AtMostOneInFlight /\ LambdaFindsValue)
<1>1. UInit => OneTicket
  BY UpdatesAssumption
     DEF UInit, OneTicket, TypeOK, Null, AtMostOneInFlight, Posting, Ticket
<1>2. OneTicket /\ [UNext]_vars => OneTicket'
  BY TicketStep
<1>3. OneTicket => AtMostOneInFlight /\ LambdaFindsValue
  BY DEF OneTicket, Ticket, LambdaFindsValue, AtMostOneInFlight, TypeOK
<1> QED
  BY <1>1, <1>2, <1>3, PTL DEF USpec

(* When moreover the FX thread does not overtake a value in flight, the    *)
(* order of the calls is kept all the way to the property.                 *)
LEMMA OrderedStep ==
  ASSUME ~AllowNull, ~FxOvertakes, OrderedInv, [UNext]_vars
  PROVE  OrderedInv'
<1>1. OneTicket'
  BY TicketStep DEF OrderedInv
<1> USE UpdatesAssumption DEF OrderedInv, OneTicket, TypeOK, Null, Ordered
<1>2. ASSUME NEW t \in Threads, Update(t) PROVE Ordered'
  BY <1>2 DEF Update, MustPost, Arguments
<1>3. ASSUME NEW t \in Threads, Post(t) PROVE Ordered'
  BY <1>3 DEF Post
<1>4. ASSUME Take PROVE Ordered'
  <2>1. pending # Null
    BY <1>4 DEF Take, Ticket, AtMostOneInFlight
  <2> QED
    BY <1>4, <2>1 DEF Take
<1>5. ASSUME SetProperty PROVE Ordered'
  BY <1>5 DEF SetProperty
<1>6. ASSUME UpdateOnFx PROVE Ordered'
  <2>1. pending = Null /\ fx = "idle"
    BY <1>6 DEF UpdateOnFx, Settled, Posting, Ticket
  <2> QED
    BY <1>6, <2>1 DEF UpdateOnFx, Arguments
<1>7. ASSUME UNCHANGED vars PROVE Ordered'
  BY <1>7 DEF vars
<1>8. Ordered'
  BY <1>2, <1>3, <1>4, <1>5, <1>6, <1>7 DEF UNext
<1> QED
  BY <1>1, <1>8

LEMMA OrderedInit == UInit => OrderedInv
BY UpdatesAssumption
   DEF UInit, OrderedInv, OneTicket, Ordered, TypeOK, Null, AtMostOneInFlight,
       Posting, Ticket

(* Nothing but intermediate values is lost: once the channel is quiet the  *)
(* property shows the argument of the last call.                           *)
THEOREM LastShown ==
  ASSUME ~AllowNull, ~FxOvertakes
  PROVE  USpec => []LastUpdateShown
<1>1. UInit => OrderedInv
  BY OrderedInit
<1>2. OrderedInv /\ [UNext]_vars => OrderedInv'
  BY OrderedStep
<1>3. OrderedInv => LastUpdateShown
  BY DEF OrderedInv, OneTicket, Ordered, Ticket, TypeOK, LastUpdateShown,
         Settled, Posting, Null
<1> QED
  BY <1>1, <1>2, <1>3, PTL DEF USpec

(* The channel implements LatestValue: every step of the implementation    *)
(* is a call, a move of the property to a newer call, both at once (on the *)
(* FX thread), or invisible.                                               *)
THEOREM ImplementsLatestValue ==
  ASSUME ~AllowNull, ~FxOvertakes
  PROVE  USpec => RefinesLatestValue
<1>1. UInit => Promise!Init
  BY DEF UInit, Promise!Init, Null
<1>2. UInit => OrderedInv
  BY OrderedInit
<1>3. OrderedInv /\ [UNext]_vars => OrderedInv'
  BY OrderedStep
<1>4. OrderedInv /\ [UNext]_vars => [Promise!Next]_Promise!vars
  <2> SUFFICES ASSUME OrderedInv, [UNext]_vars
               PROVE  [Promise!Next]_Promise!vars
    OBVIOUS
  <2> USE DEF Promise!Next, Promise!vars
  <2>1. ASSUME NEW t \in Threads, Update(t) PROVE Promise!Call
    BY <2>1 DEF Update, MustPost, Promise!Call
  <2>2. ASSUME NEW t \in Threads, Post(t) PROVE UNCHANGED <<calls, prop>>
    BY <2>2 DEF Post
  <2>3. CASE Take
    BY <2>3 DEF Take
  <2>4. CASE SetProperty
    <3>1. prop' = taken /\ calls' = calls /\ prop < taken /\ taken <= calls
      BY <2>4 DEF SetProperty, OrderedInv, Ordered
    <3>2. Promise!Show
      BY <3>1 DEF Promise!Show, OrderedInv, OneTicket, TypeOK
    <3> QED
      BY <3>2
  <2>5. ASSUME UpdateOnFx PROVE Promise!CallAndShow
    BY <2>5 DEF UpdateOnFx, Arguments, Promise!CallAndShow
  <2>6. CASE UNCHANGED vars
    BY <2>6 DEF vars
  <2> QED
    BY <2>1, <2>2, <2>3, <2>4, <2>5, <2>6 DEF UNext
<1> QED
  BY <1>1, <1>2, <1>3, <1>4, PTL DEF USpec, RefinesLatestValue, Promise!Spec
=============================================================================
