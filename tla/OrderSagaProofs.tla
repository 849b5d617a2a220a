---------------------------- MODULE OrderSagaProofs ----------------------------
(***************************************************************************)
(* Safety of the order saga for any number of orders, pages, faults and    *)
(* pending CompleteOrder messages.                                         *)
(***************************************************************************)
EXTENDS OrderSaga, TLAPS

\* Pages change no message and no saga, apart from what they have posted.
PageOnly(p) == \/ ClickStart(p) \/ StartFails(p) \/ ClickComplete(p) \/ CompleteFails(p)
               \/ \E o \in Orders : EditOrderId(p, o)
Posts(p) == \/ CompleteAccepted(p) \/ CompleteReplyLost(p)
            \/ \E o \in Orders : StartAccepted(p, o) \/ StartReplyLost(p, o)

\* A StartOrder still queued after its saga was stored is a redelivery, and
\* only issued orders are queued or stored.
StartedOnce ==
  /\ \A o \in startQ : (o \in saga \/ ended[o] # "no") => o \in redelivered
  /\ \A o \in Orders : (o \in startQ \/ o \in saga \/ ended[o] # "no") => o \in issued

IInv == TypeOK /\ StartedOnce /\ NoRevival /\ StoredOrderHasTimeout /\ AcceptedOrderIsNotLost

(* Every step keeps each variable in its type.                             *)
LEMMA TypeStep == TypeOK /\ [Next]_vars => TypeOK'
<1> SUFFICES ASSUME TypeOK, [Next]_vars PROVE TypeOK'
  OBVIOUS
<1> USE NoneAssumption, BoundsAssumption
    DEF TypeOK, busVars, sagaVars, startVars, completeVars, pageVars, Fault, MessageTypes
<1>1. ASSUME NEW p \in Pages, PageOnly(p) PROVE TypeOK'
  BY <1>1 DEF PageOnly, ClickStart, StartFails, ClickComplete, CompleteFails, EditOrderId
<1>2. ASSUME NEW p \in Pages, CompleteAccepted(p) \/ CompleteReplyLost(p) PROVE TypeOK'
  BY <1>2 DEF CompleteAccepted, CompleteReplyLost, PostComplete
<1>3. ASSUME NEW p \in Pages, NEW o \in Orders, StartAccepted(p, o) \/ StartReplyLost(p, o)
      PROVE  TypeOK'
  BY <1>3 DEF StartAccepted, StartReplyLost, PostStart
<1>4. ASSUME NEW o \in Orders, HandleStart(o) PROVE TypeOK'
  BY <1>4 DEF HandleStart, Start, StartCrashesBeforeAck, StartThrows, Store
<1>5. ASSUME NEW o \in Orders, HandleComplete(o) \/ CompleteThrows(o) PROVE TypeOK'
  BY <1>5 DEF HandleComplete, CompleteThrows, Delete
<1>6. ASSUME NEW o \in Orders, Timeout(o) PROVE TypeOK'
  BY <1>6 DEF Timeout, HandleTimeout, TimeoutThrows, Delete
<1>7. CASE UNCHANGED vars
  BY <1>7 DEF vars
<1>8. QED
  BY <1>1, <1>2, <1>3, <1>4, <1>5, <1>6, <1>7 DEF Next, Page, PageOnly

(* A saga and its first StartOrder never coexist, and a fresh id is used   *)
(* for every request, so only a redelivered StartOrder revives an order.   *)
LEMMA RevivalStep ==
  TypeOK /\ StartedOnce /\ NoRevival /\ [Next]_vars => StartedOnce' /\ NoRevival'
<1> SUFFICES ASSUME TypeOK, StartedOnce, NoRevival, [Next]_vars
             PROVE  StartedOnce' /\ NoRevival'
  OBVIOUS
<1> USE DEF TypeOK, StartedOnce, NoRevival, busVars, sagaVars, startVars, completeVars, pageVars
<1>1. ASSUME NEW p \in Pages, PageOnly(p) PROVE StartedOnce' /\ NoRevival'
  BY <1>1 DEF PageOnly, ClickStart, StartFails, ClickComplete, CompleteFails, EditOrderId
<1>2. ASSUME NEW p \in Pages, CompleteAccepted(p) \/ CompleteReplyLost(p)
      PROVE  StartedOnce' /\ NoRevival'
  BY <1>2 DEF CompleteAccepted, CompleteReplyLost, PostComplete
<1>3. ASSUME NEW p \in Pages, NEW o \in Orders, StartAccepted(p, o) \/ StartReplyLost(p, o)
      PROVE  StartedOnce' /\ NoRevival'
  BY <1>3 DEF StartAccepted, StartReplyLost, PostStart
<1>4. ASSUME NEW o \in Orders, HandleStart(o) PROVE StartedOnce' /\ NoRevival'
  BY <1>4 DEF HandleStart, Start, StartCrashesBeforeAck, StartThrows, Store
<1>5. ASSUME NEW o \in Orders, HandleComplete(o) \/ CompleteThrows(o)
      PROVE  StartedOnce' /\ NoRevival'
  BY <1>5 DEF HandleComplete, CompleteThrows, Delete
<1>6. ASSUME NEW o \in Orders, Timeout(o) PROVE StartedOnce' /\ NoRevival'
  BY <1>6 DEF Timeout, HandleTimeout, TimeoutThrows, Delete
<1>7. CASE UNCHANGED vars
  BY <1>7 DEF vars
<1>8. QED
  BY <1>1, <1>2, <1>3, <1>4, <1>5, <1>6, <1>7 DEF Next, Page, PageOnly

(* Storing an order schedules a timeout, and the timeout that is consumed  *)
(* deletes the order or becomes a dead letter.                             *)
LEMMA TimeoutStep ==
  TypeOK /\ StoredOrderHasTimeout /\ [Next]_vars => StoredOrderHasTimeout'
<1> SUFFICES ASSUME TypeOK, StoredOrderHasTimeout, [Next]_vars PROVE StoredOrderHasTimeout'
  OBVIOUS
<1> USE DEF TypeOK, StoredOrderHasTimeout, busVars, sagaVars, startVars, completeVars, pageVars
<1>1. ASSUME NEW p \in Pages, Page(p) PROVE StoredOrderHasTimeout'
  BY <1>1 DEF Page, ClickStart, StartFails, ClickComplete, CompleteFails, EditOrderId,
              CompleteAccepted, CompleteReplyLost, PostComplete,
              StartAccepted, StartReplyLost, PostStart
<1>2. ASSUME NEW o \in Orders, HandleStart(o) PROVE StoredOrderHasTimeout'
  <2>1. CASE Start(o) \/ StartCrashesBeforeAck(o)
    <3>1. /\ saga' = saga \cup {o} /\ UNCHANGED dead
          /\ timeouts' = [timeouts EXCEPT ![o] = @ + 1]
      BY <2>1 DEF Start, StartCrashesBeforeAck, Store
    <3>2. \A q \in Orders : timeouts[q] > 0 => timeouts'[q] > 0
      BY <3>1
    <3>3. timeouts'[o] > 0
      BY <3>1
    <3>4. QED
      BY <3>1, <3>2, <3>3
  <2>2. CASE StartThrows(o)
    <3>1. dead \subseteq dead' /\ UNCHANGED <<saga, timeouts>>
      BY <2>2 DEF StartThrows
    <3>2. QED
      BY <3>1
  <2>3. QED
    BY <1>2, <2>1, <2>2 DEF HandleStart
<1>3. ASSUME NEW o \in Orders, HandleComplete(o) \/ CompleteThrows(o)
      PROVE  StoredOrderHasTimeout'
  BY <1>3 DEF HandleComplete, CompleteThrows, Delete
<1>4. ASSUME NEW o \in Orders, Timeout(o) PROVE StoredOrderHasTimeout'
  BY <1>4 DEF Timeout, HandleTimeout, TimeoutThrows, Delete
<1>5. CASE UNCHANGED vars
  BY <1>5 DEF vars
<1>6. QED
  BY <1>1, <1>2, <1>3, <1>4, <1>5 DEF Next

\* Where an accepted order is: it moves from queue to store to its end.
Kept(o) == o \in startQ \/ o \in saga \/ ended[o] # "no" \/ <<"StartOrder", o>> \in dead

(* A saga that is kept stays kept.                                         *)
LEMMA KeptForever ==
  ASSUME TypeOK, [Next]_vars, NEW o \in Orders, Kept(o) PROVE Kept(o)'
<1> USE DEF TypeOK, Kept, busVars, sagaVars, startVars, completeVars, pageVars
<1>1. ASSUME NEW p \in Pages, Page(p) PROVE Kept(o)'
  BY <1>1 DEF Page, ClickStart, StartFails, ClickComplete, CompleteFails, EditOrderId,
              CompleteAccepted, CompleteReplyLost, PostComplete,
              StartAccepted, StartReplyLost, PostStart
<1>2. ASSUME NEW q \in Orders, HandleStart(q) PROVE Kept(o)'
  BY <1>2 DEF HandleStart, Start, StartCrashesBeforeAck, StartThrows, Store
<1>3. ASSUME NEW q \in Orders, HandleComplete(q) \/ CompleteThrows(q) PROVE Kept(o)'
  BY <1>3 DEF HandleComplete, CompleteThrows, Delete
<1>4. ASSUME NEW q \in Orders, Timeout(q) PROVE Kept(o)'
  BY <1>4 DEF Timeout, HandleTimeout, TimeoutThrows, Delete
<1>5. CASE UNCHANGED vars
  BY <1>5 DEF vars
<1>6. QED
  BY <1>1, <1>2, <1>3, <1>4, <1>5 DEF Next

(* A page shows an id only after the order was queued.                     *)
LEMMA AcceptedStep ==
  TypeOK /\ AcceptedOrderIsNotLost /\ [Next]_vars => AcceptedOrderIsNotLost'
<1> SUFFICES ASSUME TypeOK, AcceptedOrderIsNotLost, [Next]_vars,
                    NEW p \in Pages, startedOrderId'[p] # None
             PROVE  Kept(startedOrderId[p])'
  BY DEF AcceptedOrderIsNotLost, Kept
<1>1. CASE startedOrderId'[p] = startedOrderId[p]
  <2>1. startedOrderId[p] \in Orders /\ Kept(startedOrderId[p])
    BY <1>1 DEF AcceptedOrderIsNotLost, Kept, TypeOK
  <2>2. Kept(startedOrderId[p])'
    BY <1>1, <2>1, KeptForever DEF Kept
  <2>3. QED
    BY <2>2
<1>2. CASE startedOrderId'[p] # startedOrderId[p]
  <2>1. \E q \in Pages, o \in Orders : StartAccepted(q, o) /\ q = p /\ startedOrderId'[p] = o
    BY <1>2 DEF Next, Page, ClickStart, StartFails, ClickComplete, CompleteFails, EditOrderId,
              CompleteAccepted, CompleteReplyLost, StartAccepted, StartReplyLost,
              HandleStart, Start, StartCrashesBeforeAck, StartThrows, HandleComplete,
              CompleteThrows, Timeout, HandleTimeout, TimeoutThrows, TypeOK,
              startVars, pageVars, vars
  <2>2. QED
    BY <2>1 DEF StartAccepted, PostStart, Kept
<1>3. QED
  BY <1>1, <1>2
-----------------------------------------------------------------------------
(* The strengthening from which the safety properties follow.              *)
THEOREM Invariance == Spec => []IInv
<1>1. Init => IInv
  BY NoneAssumption, BoundsAssumption
     DEF Init, IInv, TypeOK, StartedOnce, NoRevival, StoredOrderHasTimeout, AcceptedOrderIsNotLost
<1>2. IInv /\ [Next]_vars => IInv'
  BY TypeStep, RevivalStep, TimeoutStep, AcceptedStep DEF IInv
<1>3. QED
  BY <1>1, <1>2, PTL DEF Spec

(* Every stored order has a timeout ahead of it.                           *)
THEOREM NoStuckOrder == Spec => []StoredOrderHasTimeout
BY Invariance, PTL DEF IInv

(* An order whose id was shown to a user is not lost.                      *)
THEOREM NoLostOrder == Spec => []AcceptedOrderIsNotLost
BY Invariance, PTL DEF IInv

(* An ended order comes back only by a redelivered StartOrder.             *)
THEOREM EndedOrdersStayEnded == Spec => []NoRevival
BY Invariance, PTL DEF IInv
(* Every variable keeps its type, for any orders, pages and bounds.        *)
THEOREM TypeCorrect == Spec => []TypeOK
BY Invariance, PTL DEF IInv

(* An order ends once: one that was completed does not time out as well,   *)
(* nor the other way round, unless its StartOrder was delivered twice.     *)
THEOREM EndsOnce ==
  Spec => [][\A o \in Orders : ended'[o] # ended[o] => ended[o] = "no" \/ o \in redelivered]_vars
<1> DEFINE Once == \A o \in Orders : ended'[o] # ended[o] => ended[o] = "no" \/ o \in redelivered
<1>1. TypeOK /\ NoRevival /\ Next => Once
  <2> SUFFICES ASSUME TypeOK, NoRevival, Next PROVE Once
    OBVIOUS
  <2>1. ASSUME NEW o \in Orders, HandleComplete(o) \/ HandleTimeout(o) PROVE Once
    <3>1. ended \in [Orders -> {"no", "completed", "timedOut"}]
      BY DEF TypeOK
    <3>2. \A e \in Orders : ended'[e] # ended[e] => e = o /\ o \in saga
      BY <2>1, <3>1 DEF HandleComplete, HandleTimeout, Delete
    <3>3. QED
      BY <3>2 DEF NoRevival
  <2>2. ASSUME ended' = ended PROVE Once
    BY <2>2
  <2>3. ASSUME NEW p \in Pages, Page(p) PROVE ended' = ended
    BY <2>3 DEF Page, ClickStart, StartFails, ClickComplete, CompleteAccepted, CompleteReplyLost,
                CompleteFails, StartAccepted, StartReplyLost, EditOrderId, sagaVars
  <2>4. ASSUME NEW o \in Orders, HandleStart(o) \/ CompleteThrows(o) \/ TimeoutThrows(o)
        PROVE  ended' = ended
    BY <2>4 DEF HandleStart, Start, StartCrashesBeforeAck, StartThrows, CompleteThrows,
                TimeoutThrows, sagaVars
  <2>5. QED
    BY <2>1, <2>2, <2>3, <2>4 DEF Next, Timeout
<1>2. TypeOK /\ NoRevival /\ [Next]_vars => [Once]_vars
  BY <1>1
<1>3. QED
  BY <1>2, TypeCorrect, EndedOrdersStayEnded, PTL DEF Spec
=============================================================================
