-------------------------- MODULE OrderListenerProofs --------------------------
(***************************************************************************)
(* Safety of the order listener for any number of workers and orders.      *)
(***************************************************************************)
EXTENDS OrderListener, TLAPS

(* Every order published after the first subscription is in the queue,     *)
(* with a worker, or processed.                                            *)
NoOrderLost ==
  \A m \in 1 .. published :
    m \in dropped \cup ready \cup processed \/ \E w \in Workers : m \in delivered[w]

\* Only what was published is anywhere.
Known ==
  /\ ready \cup dropped \cup processed \subseteq 1 .. published
  /\ \A w \in Workers : delivered[w] \subseteq 1 .. published
InHandKnown == \A w \in Workers : \A h \in Busy(w) : h.order \in 1 .. published

\* An order whose handler has ended is counted before it is acknowledged.
DoneIsProcessed == \A w \in Workers : \A h \in done[w] : h.order \in processed

\* Without faults, an order is in one place; a handler has an order its worker
\* may acknowledge, not yet processed while it works; a processed order is with
\* a handler that has ended or gone from the broker.
OnePlace ==
  broken = {} =>
    /\ \A w \in Workers :
         /\ delivered[w] \cap ready = {}
         /\ \A v \in Workers : v # w => delivered[w] \cap delivered[v] = {}
         /\ \A h \in Busy(w) : h.order \in delivered[w] /\ Ackable(w, h)
         /\ \A h \in working[w] : h.order \notin processed
         /\ \A m \in delivered[w] \cap processed : \E h \in done[w] : h.order = m
    /\ processed \cap ready = {}

(* Every step keeps each variable in its type.                             *)
LEMMA TypeStep == TypeOK /\ [Next]_vars => TypeOK'
<1> SUFFICES ASSUME TypeOK, [Next]_vars PROVE TypeOK'
  OBVIOUS
<1> USE ListenerBounds DEF TypeOK, Orders, Handlers
<1>1. CASE Publish
  <2>1. published' \in Nat /\ published' \in 1 .. MaxOrders
    BY <1>1 DEF Publish
  <2>2. ready' \subseteq 1 .. MaxOrders /\ dropped' \subseteq 1 .. MaxOrders
    <3>1. ready \subseteq 1 .. MaxOrders /\ dropped \subseteq 1 .. MaxOrders
      OBVIOUS
    <3>2. /\ ready' = ready \/ ready' = ready \cup {published'}
          /\ dropped' = dropped \/ dropped' = dropped \cup {published'}
      BY <1>1 DEF Publish
    <3> HIDE ListenerBounds DEF TypeOK, Orders, Handlers
    <3>3. QED
      BY <2>1, <3>1, <3>2
  <2>3. UNCHANGED <<run, queue, delivered, handling, history, broken, bounds>>
    BY <1>1 DEF Publish
  <2>4. QED
    BY <2>1, <2>2, <2>3 DEF run, handling, history, bounds
<1>2. ASSUME NEW w \in Workers, Startup(w) PROVE TypeOK'
  BY <1>2 DEF Startup, broker, handling, history
<1>3. ASSUME NEW w \in Workers, Fire(w) PROVE TypeOK'
  BY <1>3 DEF Fire, broker, handling, history, bounds
<1>4. ASSUME NEW w \in Workers, Interrupt(w) PROVE TypeOK'
  BY <1>4 DEF Interrupt, broker, handling, history, bounds
<1>5. ASSUME NEW w \in Workers, TriggerNow(w) PROVE TypeOK'
  BY <1>5 DEF TriggerNow, broker, handling, history
<1>6. ASSUME NEW w \in Workers, Shutdown(w) PROVE TypeOK'
  BY <1>6 DEF Shutdown, broker, handling, history, bounds
<1>7. ASSUME NEW w \in Workers, Stopped(w) PROVE TypeOK'
  BY <1>7 DEF Stopped, broker, handling, history, bounds
<1>8. ASSUME NEW w \in Workers, Crash(w) PROVE TypeOK'
  <2>1. faults' \in Nat
    BY <1>8 DEF Crash, Fault
  <2>2. ready' \subseteq 1 .. MaxOrders /\ delivered' \in [Workers -> SUBSET (1 .. MaxOrders)]
    BY <1>8 DEF Crash, Requeue
  <2>3. QED
    BY <1>8, <2>1, <2>2 DEF Crash, Requeue, Fault, history
<1>9. ASSUME NEW w \in Workers, Subscribed(w) PROVE TypeOK'
  BY <1>9 DEF Subscribed, handling, history, bounds
<1>10. ASSUME NEW w \in Workers, SubscribeThrows(w) PROVE TypeOK'
  BY <1>10 DEF SubscribeThrows, Fault, ExecuteEnds, broker, handling, history, bounds
<1>11. ASSUME NEW w \in Workers, Wakes(w) PROVE TypeOK'
  BY <1>11 DEF Wakes, broker, handling, history, bounds
<1>12. ASSUME NEW w \in Workers, Disposed(w) PROVE TypeOK'
  BY <1>12 DEF Disposed, Requeue, ExecuteEnds, handling, history, bounds
<1>13. ASSUME NEW w \in Workers, Deliver(w) PROVE TypeOK'
  BY <1>13 DEF Deliver, run, handling, history, bounds
<1>14. ASSUME NEW w \in Workers, Begin(w) PROVE TypeOK'
  <2>1. PICK m \in delivered[w] :
          working' = [working EXCEPT ![w] = @ \cup {[order |-> m, conn |-> conn[w]]}]
    BY <1>14 DEF Begin
  <2>2. [order |-> m, conn |-> conn[w]] \in Handlers
    BY <2>1
  <2>3. working' \in [Workers -> SUBSET Handlers]
    <3> HIDE DEF Handlers
    <3>1. QED
      BY <2>1, <2>2
  <2>4. QED
    BY <1>14, <2>3 DEF Begin, run, broker, history, bounds
<1>15. ASSUME NEW w \in Workers, NEW h \in working[w], Process(w, h) PROVE TypeOK'
  <2>1. h \in Handlers /\ h.order \in 1 .. MaxOrders
    OBVIOUS
  <2>2. /\ working' \in [Workers -> SUBSET Handlers] /\ done' \in [Workers -> SUBSET Handlers]
        /\ processed' \subseteq 1 .. MaxOrders /\ twice' \subseteq processed'
    <3>1. /\ working \in [Workers -> SUBSET Handlers] /\ done \in [Workers -> SUBSET Handlers]
          /\ processed \subseteq 1 .. MaxOrders /\ twice \subseteq processed
      OBVIOUS
    <3> HIDE ListenerBounds DEF TypeOK, Orders, Handlers
    <3>2. QED
      BY <1>15, <2>1, <3>1 DEF Process
  <2>3. QED
    BY <1>15, <2>2 DEF Process, run, broker, bounds
<1>16. ASSUME NEW w \in Workers, NEW h \in Busy(w), Ack(w, h) \/ HandlerCancelled(w, h) PROVE TypeOK'
  <2>1. h.order \in 1 .. MaxOrders
    BY DEF Busy
  <2>2. /\ working' \in [Workers -> SUBSET Handlers] /\ done' \in [Workers -> SUBSET Handlers]
        /\ delivered' \in [Workers -> SUBSET (1 .. MaxOrders)] /\ ready' \subseteq 1 .. MaxOrders
    <3>1. /\ working \in [Workers -> SUBSET Handlers] /\ done \in [Workers -> SUBSET Handlers]
          /\ delivered \in [Workers -> SUBSET (1 .. MaxOrders)] /\ ready \subseteq 1 .. MaxOrders
      OBVIOUS
    <3> HIDE ListenerBounds DEF TypeOK, Orders, Handlers
    <3>2. QED
      BY <1>16, <2>1, <3>1 DEF Ack, HandlerCancelled, Settled, broker
  <2>3. UNCHANGED <<run, published, queue, dropped, conn, history, broken, bounds>>
    BY <1>16 DEF Ack, HandlerCancelled, broker
  <2>4. QED
    BY <2>2, <2>3 DEF run, history, bounds
<1>17. ASSUME NEW w \in Workers, ConnectionLost(w) PROVE TypeOK'
  <2>1. faults' \in Nat
    BY <1>17 DEF ConnectionLost, Fault
  <2>2. ready' \subseteq 1 .. MaxOrders /\ delivered' \in [Workers -> SUBSET (1 .. MaxOrders)]
    BY <1>17 DEF ConnectionLost, Requeue
  <2>3. QED
    BY <1>17, <2>1, <2>2 DEF ConnectionLost, Requeue, Fault, run, history
<1>18. CASE UNCHANGED vars
  BY <1>18 DEF vars, run, broker, handling, history, bounds
<1>19. QED
  BY <1>1, <1>2, <1>3, <1>4, <1>5, <1>6, <1>7, <1>8, <1>9, <1>10, <1>11, <1>12, <1>13,
     <1>14, <1>15, <1>16, <1>17, <1>18
  DEF Next, Proceeds, Handles, Busy

\* What the invariant is about, apart from types.
Placed == Known /\ InHandKnown /\ DoneIsProcessed /\ NoOrderLost /\ OnePlace /\ TwiceNeedsFault

\* Steps that leave every order where it is.
LEMMA PlacedStays ==
  ASSUME Placed, UNCHANGED <<published, ready, dropped, delivered, handling, history, broken>>
  PROVE  Placed'
BY DEF Placed, Known, InHandKnown, DoneIsProcessed, NoOrderLost, OnePlace, TwiceNeedsFault,
       handling, history, Busy, Ackable

(* A handler is its order and its connection.                              *)
LEMMA SameHandler ==
  ASSUME NEW g \in Handlers, NEW h \in Handlers, g.order = h.order, g.conn = h.conn
  PROVE  g = h
BY DEF Handlers

(* Without faults, no two handlers have the same order.                    *)
LEMMA OneHandler ==
  ASSUME TypeOK, OnePlace, broken = {},
         NEW v \in Workers, NEW g \in Busy(v), NEW w \in Workers, NEW h \in Busy(w),
         g.order = h.order
  PROVE  v = w /\ g = h
<1>1. g.order \in delivered[v] /\ h.order \in delivered[w] /\ g.conn = conn[v] /\ h.conn = conn[w]
  BY DEF OnePlace, Ackable
<1>2. v = w
  BY <1>1 DEF OnePlace
<1>3. g \in Handlers /\ h \in Handlers
  BY DEF TypeOK, Busy
<1>4. QED
  BY <1>1, <1>2, <1>3, SameHandler

(* Every step keeps each order accounted for.                              *)
LEMMA PlacedStep == TypeOK /\ Placed /\ [Next]_vars => Placed'
<1> SUFFICES ASSUME TypeOK, Placed, [Next]_vars PROVE Placed'
  OBVIOUS
<1>a. /\ delivered \in [Workers -> SUBSET Orders] /\ published \in Nat
      /\ working \in [Workers -> SUBSET Handlers] /\ done \in [Workers -> SUBSET Handlers]
  BY DEF TypeOK
<1>1. CASE Publish
  <2>1. /\ published' = published + 1 /\ 1 .. published' = 1 .. published \cup {published'}
        /\ published' \notin 1 .. published
        /\ UNCHANGED <<delivered, conn, working, done, processed, twice, broken>>
    BY <1>1, <1>a DEF Publish, handling, history
  <2>2. \/ ready' = ready \cup {published'} /\ dropped' = dropped
        \/ dropped' = dropped \cup {published'} /\ ready' = ready
    BY <1>1 DEF Publish
  <2>3. QED
    BY <2>1, <2>2 DEF Placed, Known, InHandKnown, DoneIsProcessed, NoOrderLost, OnePlace,
                      TwiceNeedsFault, Busy, Ackable
<1>2. ASSUME NEW w \in Workers,
             \/ Startup(w) \/ Fire(w) \/ Interrupt(w) \/ TriggerNow(w) \/ Shutdown(w) \/ Stopped(w)
             \/ Subscribed(w) \/ SubscribeThrows(w) \/ Wakes(w)
      PROVE  Placed'
  <2>1. UNCHANGED <<published, ready, dropped, delivered, handling, history, broken>>
    BY <1>2 DEF Startup, Fire, Interrupt, TriggerNow, Shutdown, Stopped, Subscribed,
                SubscribeThrows, Wakes, broker
  <2>2. QED
    BY <2>1, PlacedStays
<1>3. ASSUME NEW w \in Workers, Crash(w) \/ ConnectionLost(w) PROVE Placed'
  <2>1. /\ Requeue(w) /\ broken' # {} /\ UNCHANGED history
        /\ \A v \in Workers : working'[v] \subseteq working[v] /\ done'[v] \subseteq done[v]
    BY <1>3, <1>a DEF Crash, ConnectionLost
  <2>2. Known' /\ NoOrderLost'
    BY <2>1, <1>a DEF Requeue, Placed, Known, NoOrderLost, history
  <2>3. InHandKnown' /\ DoneIsProcessed'
    BY <2>1 DEF Requeue, Placed, InHandKnown, DoneIsProcessed, history, Busy
  <2>4. QED
    BY <2>1, <2>2, <2>3 DEF Placed, OnePlace, TwiceNeedsFault
<1>4. ASSUME NEW w \in Workers, Disposed(w) PROVE Placed'
  <2>1. Requeue(w) /\ Busy(w) = {} /\ UNCHANGED <<handling, history, broken>>
    BY <1>4 DEF Disposed
  <2>2. Known' /\ InHandKnown' /\ DoneIsProcessed' /\ NoOrderLost' /\ TwiceNeedsFault'
    BY <2>1, <1>a DEF Requeue, Placed, Known, InHandKnown, DoneIsProcessed, NoOrderLost,
                      TwiceNeedsFault, handling, history, Busy
  <2>3. OnePlace'
    BY <2>1, <1>a DEF Requeue, Placed, OnePlace, handling, history, Busy, Ackable
  <2>4. QED
    BY <2>2, <2>3 DEF Placed
<1>5. ASSUME NEW w \in Workers, Deliver(w) PROVE Placed'
  <2>1. PICK m \in ready : /\ ready' = ready \ {m}
                           /\ delivered' = [delivered EXCEPT ![w] = @ \cup {m}]
    BY <1>5 DEF Deliver
  <2>2. UNCHANGED <<published, dropped, handling, history, broken>>
    BY <1>5 DEF Deliver
  <2>3. Known' /\ InHandKnown' /\ DoneIsProcessed' /\ NoOrderLost' /\ TwiceNeedsFault'
    BY <2>1, <2>2, <1>a DEF Placed, Known, InHandKnown, DoneIsProcessed, NoOrderLost,
                            TwiceNeedsFault, handling, history, Busy
  <2>4. OnePlace'
    BY <2>1, <2>2, <1>a DEF Placed, OnePlace, handling, history, Busy, Ackable
  <2>5. QED
    BY <2>3, <2>4 DEF Placed
<1>6. ASSUME NEW w \in Workers, Begin(w) PROVE Placed'
  <2>1. PICK m \in delivered[w] :
          LET h == [order |-> m, conn |-> conn[w]]
          IN  h \notin Busy(w) /\ working' = [working EXCEPT ![w] = @ \cup {h}]
    BY <1>6 DEF Begin
  <2> DEFINE h == [order |-> m, conn |-> conn[w]]
  <2>2. UNCHANGED <<published, ready, dropped, delivered, conn, done, history, broken>>
    BY <1>6 DEF Begin, broker
  <2>3. /\ h \notin Busy(w) /\ working'[w] = working[w] \cup {h} /\ h.order = m /\ h.conn = conn[w]
        /\ \A v \in Workers \ {w} : working'[v] = working[v]
    BY <2>1, <1>a
  <2> HIDE DEF h
  <2>4. Known' /\ InHandKnown' /\ DoneIsProcessed' /\ NoOrderLost' /\ TwiceNeedsFault'
    BY <2>2, <2>3, <1>a DEF Placed, Known, InHandKnown, DoneIsProcessed, NoOrderLost,
                            TwiceNeedsFault, history, Busy
  <2>5. OnePlace'
    <3>1. SUFFICES ASSUME broken = {} PROVE OnePlace'
      BY <2>2 DEF OnePlace
    <3>2. m \notin processed
      <4>1. SUFFICES ASSUME m \in processed PROVE FALSE
        OBVIOUS
      <4>2. PICK g \in done[w] : g.order = m
        BY <3>1, <4>1 DEF Placed, OnePlace
      <4>3. g.conn = conn[w] /\ g \in Handlers
        BY <3>1, <1>a DEF Placed, OnePlace, Busy, Ackable
      <4>4. h \in Handlers
        BY <2>1 DEF h, Handlers, TypeOK
      <4>5. g = h
        BY <2>3, <4>2, <4>3, <4>4, SameHandler
      <4>6. QED
        BY <2>3, <4>5 DEF Busy
    <3>3. QED
      BY <2>2, <2>3, <3>1, <3>2 DEF Placed, OnePlace, history, Busy, Ackable
  <2>6. QED
    BY <2>4, <2>5 DEF Placed
<1>7. ASSUME NEW w \in Workers, NEW h \in working[w], Process(w, h) PROVE Placed'
  <2>1. /\ working'[w] = working[w] \ {h} /\ done'[w] = done[w] \cup {h}
        /\ \A v \in Workers \ {w} : working'[v] = working[v] /\ done'[v] = done[v]
        /\ processed' = processed \cup {h.order}
        /\ h.order \notin processed => twice' = twice
        /\ UNCHANGED <<published, ready, dropped, delivered, conn, broken>>
    BY <1>7, <1>a DEF Process, broker
  <2>2. Known' /\ InHandKnown' /\ DoneIsProcessed' /\ NoOrderLost'
    BY <2>1 DEF Placed, Known, InHandKnown, DoneIsProcessed, NoOrderLost, Busy
  <2>3. CASE broken = {}
    <3>1. h.order \in delivered[w] /\ h.order \notin processed /\ Ackable(w, h)
      BY <2>3 DEF Placed, OnePlace, Busy
    <3>2. TwiceNeedsFault'
      BY <2>1, <3>1 DEF Placed, TwiceNeedsFault
    <3>3. \A v \in Workers : \A g \in working'[v] : g \in working[v] /\ g.order # h.order
      <4>1. SUFFICES ASSUME NEW v \in Workers, NEW g \in working'[v]
                     PROVE  g \in working[v] /\ g.order # h.order
        OBVIOUS
      <4>2. g \in working[v] /\ (v = w => g # h)
        BY <2>1
      <4>3. g \in Busy(v) /\ h \in Busy(w)
        BY <4>2 DEF Busy
      <4>4. QED
        BY <2>3, <4>2, <4>3, OneHandler DEF Placed
    <3>4. /\ \A v \in Workers : \A g \in Busy(v)' : g \in Busy(v)
          /\ \A v \in Workers : done[v] \subseteq done'[v]
      BY <2>1 DEF Busy
    <3>5. \A v \in Workers : v # w => h.order \notin delivered[v]
      BY <2>3, <3>1 DEF Placed, OnePlace
    <3>6. h.order \notin ready
      BY <2>3, <3>1 DEF Placed, OnePlace
    <3>7. \A v \in Workers : \A m \in delivered[v] \cap processed' : \E g \in done'[v] : g.order = m
      <4>1. SUFFICES ASSUME NEW v \in Workers, NEW m \in delivered[v], m \in processed'
                     PROVE  \E g \in done'[v] : g.order = m
        OBVIOUS
      <4>2. CASE m = h.order
        BY <2>1, <3>5, <4>1, <4>2
      <4>3. CASE m \in processed
        BY <2>3, <3>4, <4>1, <4>3 DEF Placed, OnePlace
      <4>4. QED
        BY <2>1, <4>1, <4>2, <4>3
    <3>8. \A v \in Workers : \A g \in Busy(v)' : g.order \in delivered[v] /\ g.conn = conn[v]
      BY <2>3, <3>4 DEF Placed, OnePlace, Ackable
    <3>9. OnePlace'
      BY <2>1, <2>3, <3>3, <3>6, <3>7, <3>8 DEF Placed, OnePlace, Ackable
    <3>10. QED
      BY <2>2, <3>2, <3>9 DEF Placed
  <2>4. CASE broken # {}
    BY <2>1, <2>2, <2>4 DEF Placed, TwiceNeedsFault, OnePlace
  <2>5. QED
    BY <2>3, <2>4
<1>8. ASSUME NEW w \in Workers, NEW h \in Busy(w), Ack(w, h) \/ HandlerCancelled(w, h) PROVE Placed'
  <2>1. /\ delivered' = Settled(w, h)
        /\ \A v \in Workers : working'[v] \subseteq working[v] /\ done'[v] \subseteq done[v]
        /\ Busy(w)' \subseteq Busy(w) /\ \A v \in Workers \ {w} : Busy(v)' = Busy(v)
        /\ UNCHANGED <<published, dropped, conn, history, broken>>
        /\ \/ /\ h \in done[w] /\ ready' = ready
              /\ \A v \in Workers : working'[v] = working[v]
              /\ done' = [done EXCEPT ![w] = @ \ {h}]
           \/ /\ h \in working[w] /\ done' = done
              /\ working' = [working EXCEPT ![w] = @ \ {h}]
              /\ ready' = IF Ackable(w, h) THEN ready \cup {h.order} ELSE ready
    BY <1>8, <1>a DEF Ack, HandlerCancelled, broker, Busy
  <2>2. /\ delivered'[w] = IF Ackable(w, h) THEN delivered[w] \ {h.order} ELSE delivered[w]
        /\ \A v \in Workers \ {w} : delivered'[v] = delivered[v]
    BY <2>1, <1>a DEF Settled
  <2>3. InHandKnown' /\ DoneIsProcessed' /\ TwiceNeedsFault'
    BY <2>1 DEF Placed, InHandKnown, DoneIsProcessed, TwiceNeedsFault, history
  <2>4. h.order \in 1 .. published /\ (h \in done[w] => h.order \in processed)
    BY DEF Placed, InHandKnown, DoneIsProcessed
  <2>5. Known' /\ NoOrderLost'
    BY <2>1, <2>2, <2>4 DEF Placed, Known, NoOrderLost, history
  <2>6. CASE broken = {}
    <3>1. /\ h.order \in delivered[w] /\ Ackable(w, h) /\ h.order \notin ready
          /\ h \in working[w] => h.order \notin processed
          /\ \A v \in Workers : v # w => h.order \notin delivered[v]
      BY <2>6 DEF Placed, OnePlace, Busy
    <3>2. \A v \in Workers : \A g \in Busy(v)' : g \in Busy(v) /\ g.order # h.order
      <4>1. SUFFICES ASSUME NEW v \in Workers, NEW g \in Busy(v)'
                     PROVE  g \in Busy(v) /\ g.order # h.order
        OBVIOUS
      <4>2. g \in Busy(v)
        BY <2>1
      <4>3. CASE g.order = h.order
        <5>1. v = w /\ g = h
          BY <2>6, <4>2, <4>3, OneHandler DEF Placed
        <5>2. working[w] \cap done[w] = {}
          BY <2>6 DEF Placed, OnePlace, DoneIsProcessed
        <5>3. h \notin Busy(w)'
          BY <2>1, <5>2, <1>a DEF Busy
        <5>4. QED
          BY <5>1, <5>3
      <4>4. QED
        BY <4>2, <4>3
    <3>3. \A v \in Workers : \A g \in Busy(v)' : g.order \in delivered'[v] /\ g.conn = conn[v]
      BY <2>2, <2>6, <3>2 DEF Placed, OnePlace, Ackable
    <3>4. \A v \in Workers : \A g \in working'[v] : g.order \notin processed
      BY <2>1, <2>6 DEF Placed, OnePlace
    <3>5. \A v \in Workers : \A m \in delivered'[v] \cap processed : \E g \in done'[v] : g.order = m
      <4>1. SUFFICES ASSUME NEW v \in Workers, NEW m \in delivered'[v], m \in processed
                     PROVE  \E g \in done'[v] : g.order = m
        OBVIOUS
      <4>2. m \in delivered[v] /\ m # h.order
        BY <2>2, <3>1
      <4>3. PICK g \in done[v] : g.order = m
        BY <2>6, <4>1, <4>2 DEF Placed, OnePlace
      <4>4. g \in done'[v]
        BY <2>1, <4>2, <4>3, <1>a
      <4>5. QED
        BY <4>3, <4>4
    <3>6. /\ \A v \in Workers : delivered'[v] \cap ready' = {}
          /\ \A v \in Workers : \A u \in Workers : u # v => delivered'[v] \cap delivered'[u] = {}
          /\ processed \cap ready' = {}
      BY <2>1, <2>2, <2>6, <3>1 DEF Placed, OnePlace
    <3>7. OnePlace'
      BY <2>1, <3>3, <3>4, <3>5, <3>6 DEF OnePlace, Ackable, history
    <3>8. QED
      BY <2>3, <2>5, <3>7 DEF Placed
  <2>7. CASE broken # {}
    BY <2>1, <2>3, <2>5, <2>7 DEF Placed, OnePlace
  <2>8. QED
    BY <2>6, <2>7
<1>9. CASE UNCHANGED vars
  BY <1>9, PlacedStays DEF vars, broker
<1>10. QED
  BY <1>1, <1>2, <1>3, <1>4, <1>5, <1>6, <1>7, <1>8, <1>9
  DEF Next, Proceeds, Handles, Busy

(* Every state of the listener satisfies the invariant.                    *)
LEMMA ListenerInvariant == Spec => [](TypeOK /\ Placed)
<1>1. Init => TypeOK /\ Placed
  BY ListenerBounds DEF Init, Orders, TypeOK, Placed, Known, InHandKnown, DoneIsProcessed,
                        NoOrderLost, OnePlace, TwiceNeedsFault, Busy, Handlers
<1>2. TypeOK /\ Placed /\ [Next]_vars => (TypeOK /\ Placed)'
  BY TypeStep, PlacedStep
<1>3. QED
  BY <1>1, <1>2, PTL DEF Spec

(* No run of the listener loses an order or, short of a crash or a lost    *)
(* connection, processes one twice, however many workers there are.        *)
THEOREM ListenerSafety == Spec => [](TypeOK /\ NoOrderLost /\ TwiceNeedsFault)
BY ListenerInvariant, PTL DEF Placed

(* Every order that found a queue is in a place it is processed from, or   *)
(* processed.                                                              *)
THEOREM NothingLost == Spec => []NoOrderLost
BY ListenerSafety, PTL

(* An order is processed twice only after a crash or a lost connection.    *)
THEOREM OnceWithoutFaults == Spec => []TwiceNeedsFault
BY ListenerSafety, PTL
-----------------------------------------------------------------------------
\* Orders the broker dropped are nowhere else; a handler is of the present
\* connection or an earlier one, and what it may acknowledge its worker still has.
Held == /\ ready \cap dropped = {}
        /\ \A w \in Workers :
             /\ delivered[w] \cap dropped = {}
             /\ working[w] \cap done[w] = {}
             /\ \A h \in Busy(w) : /\ h.order \notin dropped /\ h.conn <= conn[w]
                                   /\ Ackable(w, h) => h.order \in delivered[w]

(* Every step keeps that.                                                  *)
LEMMA HeldStep == TypeOK /\ Placed /\ Held /\ [Next]_vars => Held'
<1> SUFFICES ASSUME TypeOK, Placed, Held, [Next]_vars PROVE Held'
  OBVIOUS
<1>a. /\ delivered \in [Workers -> SUBSET Orders] /\ conn \in [Workers -> Nat]
      /\ working \in [Workers -> SUBSET Handlers] /\ done \in [Workers -> SUBSET Handlers]
      /\ published \in Nat /\ ready \subseteq 1 .. published
      /\ \A w \in Workers : /\ delivered[w] \subseteq 1 .. published
                            /\ \A h \in Busy(w) : h.order \in 1 .. published
  BY DEF TypeOK, Placed, Known, InHandKnown
<1>1. CASE Publish
  <2>1. /\ published' \notin 1 .. published
        /\ UNCHANGED <<delivered, conn, working, done>>
    BY <1>1, <1>a DEF Publish, handling
  <2>2. \/ ready' = ready \cup {published'} /\ dropped' = dropped /\ published' \notin dropped
        \/ dropped' = dropped \cup {published'} /\ ready' = ready
    BY <1>1, <2>1 DEF Publish, Placed, Known
  <2>3. QED
    BY <2>1, <2>2, <1>a DEF Held, Busy, Ackable
<1>2. ASSUME UNCHANGED <<ready, dropped, delivered, conn, working, done>> PROVE Held'
  BY <1>2 DEF Held, Busy, Ackable
<1>3. ASSUME NEW w \in Workers, Crash(w) \/ ConnectionLost(w) \/ Disposed(w) PROVE Held'
  <2>1. /\ Requeue(w)
        /\ \A v \in Workers : working'[v] \subseteq working[v] /\ done'[v] \subseteq done[v]
        /\ \A v \in Workers \ {w} : conn'[v] = conn[v]
        /\ (Busy(w)' = {} /\ conn'[w] = conn[w]) \/ conn'[w] = conn[w] + 1
    BY <1>3, <1>a DEF Crash, ConnectionLost, Disposed, handling, Busy
  <2>2. /\ ready' = ready \cup delivered[w] /\ delivered'[w] = {} /\ dropped' = dropped
        /\ \A v \in Workers \ {w} : delivered'[v] = delivered[v]
    BY <2>1, <1>a DEF Requeue
  <2>3. \A v \in Workers : Busy(v)' \subseteq Busy(v)
    BY <2>1 DEF Busy
  <2>4. \A h \in Busy(w)' : h.conn < conn'[w]
    <3>1. \A h \in Busy(w) : h.conn \in Nat /\ h.conn <= conn[w]
      BY <1>a DEF Held, Busy, Handlers
    <3>2. QED
      BY <2>1, <2>3, <3>1, <1>a
  <2>5. ASSUME NEW v \in Workers, NEW h \in Busy(v)'
        PROVE  h.order \notin dropped' /\ h.conn <= conn'[v] /\ (Ackable(v, h)' => h.order \in delivered'[v])
    <3>1. h \in Busy(v) /\ h.order \notin dropped' /\ h.conn \in Nat
      BY <2>2, <2>3, <1>a DEF Held, Busy, Handlers
    <3>2. CASE v = w
      BY <2>1, <2>4, <3>1, <3>2, <1>a DEF Ackable
    <3>3. CASE v # w
      BY <2>1, <2>2, <3>1, <3>3 DEF Held, Ackable
    <3>4. QED
      BY <3>2, <3>3
  <2>6. QED
    BY <2>1, <2>2, <2>5 DEF Held
<1>4. ASSUME NEW w \in Workers, Deliver(w) PROVE Held'
  <2>1. PICK m \in ready : /\ ready' = ready \ {m}
                           /\ delivered' = [delivered EXCEPT ![w] = @ \cup {m}]
    BY <1>4 DEF Deliver
  <2>2. UNCHANGED <<dropped, conn, working, done>>
    BY <1>4 DEF Deliver, handling
  <2>3. QED
    BY <2>1, <2>2, <1>a DEF Held, Busy, Ackable
<1>5. ASSUME NEW w \in Workers, Begin(w) PROVE Held'
  <2>1. PICK m \in delivered[w] :
          LET h == [order |-> m, conn |-> conn[w]]
          IN  h \notin Busy(w) /\ working' = [working EXCEPT ![w] = @ \cup {h}]
    BY <1>5 DEF Begin
  <2> DEFINE h == [order |-> m, conn |-> conn[w]]
  <2>2. UNCHANGED <<ready, dropped, delivered, conn, done>>
    BY <1>5 DEF Begin, broker
  <2>3. /\ h \notin Busy(w) /\ working'[w] = working[w] \cup {h} /\ h.order = m /\ h.conn = conn[w]
        /\ \A v \in Workers \ {w} : working'[v] = working[v]
    BY <2>1, <1>a
  <2> HIDE DEF h
  <2>4. m \notin dropped /\ conn[w] <= conn[w]
    BY <2>1, <1>a DEF Held
  <2>5. QED
    BY <2>1, <2>2, <2>3, <2>4 DEF Held, Busy, Ackable
<1>6. ASSUME NEW w \in Workers, NEW h \in working[w], Process(w, h) PROVE Held'
  <2>1. /\ UNCHANGED <<ready, dropped, delivered, conn>>
        /\ working'[w] = working[w] \ {h} /\ done'[w] = done[w] \cup {h}
        /\ \A v \in Workers \ {w} : working'[v] = working[v] /\ done'[v] = done[v]
    BY <1>6, <1>a DEF Process, broker
  <2>2. \A v \in Workers : Busy(v)' = Busy(v) /\ working'[v] \cap done'[v] = {}
    BY <2>1 DEF Held, Busy
  <2>3. QED
    BY <2>1, <2>2 DEF Held, Ackable
<1>7. ASSUME NEW w \in Workers, NEW h \in Busy(w), Ack(w, h) \/ HandlerCancelled(w, h) PROVE Held'
  <2>1. /\ delivered' = Settled(w, h) /\ UNCHANGED <<dropped, conn>>
        /\ \A v \in Workers : working'[v] \subseteq working[v] /\ done'[v] \subseteq done[v]
        /\ h \notin Busy(w)'
        /\ ready' = ready \/ ready' = ready \cup {h.order}
    BY <1>7, <1>a DEF Ack, HandlerCancelled, broker, Busy, Held
  <2>2. /\ delivered'[w] = IF Ackable(w, h) THEN delivered[w] \ {h.order} ELSE delivered[w]
        /\ \A v \in Workers \ {w} : delivered'[v] = delivered[v]
    BY <2>1, <1>a DEF Settled
  <2>3. \A v \in Workers : Busy(v)' \subseteq Busy(v)
    BY <2>1 DEF Busy
  <2>4. ASSUME NEW v \in Workers, NEW g \in Busy(v)', Ackable(v, g) PROVE g.order \in delivered'[v]
    <3>1. g.order \in delivered[v] /\ g \in Handlers /\ h \in Handlers
      BY <2>3, <2>4, <1>a DEF Held, Busy
    <3>2. CASE v = w /\ Ackable(w, h)
      <4>1. g # h /\ g.conn = h.conn
        BY <2>1, <2>4, <3>2 DEF Ackable
      <4>2. g.order # h.order
        BY <3>1, <4>1, SameHandler
      <4>3. QED
        BY <2>2, <3>1, <3>2, <4>2
    <3>3. QED
      BY <2>2, <3>1, <3>2
  <2>5. /\ ready' \cap dropped' = {}
        /\ \A v \in Workers : delivered'[v] \cap dropped' = {} /\ working'[v] \cap done'[v] = {}
    BY <2>1, <2>2 DEF Held
  <2>6. \A v \in Workers : \A g \in Busy(v)' : g.order \notin dropped' /\ g.conn <= conn'[v]
    BY <2>1, <2>3 DEF Held
  <2>7. QED
    BY <2>1, <2>4, <2>5, <2>6 DEF Held, Ackable
<1>8. QED
  <2>1. ASSUME NEW w \in Workers,
               \/ Startup(w) \/ Fire(w) \/ Interrupt(w) \/ TriggerNow(w) \/ Shutdown(w) \/ Stopped(w)
               \/ Subscribed(w) \/ SubscribeThrows(w) \/ Wakes(w)
        PROVE  UNCHANGED <<ready, dropped, delivered, conn, working, done>>
    BY <2>1 DEF Startup, Fire, Interrupt, TriggerNow, Shutdown, Stopped, Subscribed,
                SubscribeThrows, Wakes, broker, handling
  <2>2. UNCHANGED vars => UNCHANGED <<ready, dropped, delivered, conn, working, done>>
    BY DEF vars, broker, handling
  <2>3. QED
    BY <2>1, <2>2, <1>1, <1>2, <1>3, <1>4, <1>5, <1>6, <1>7 DEF Next, Proceeds, Handles, Busy

(* Each step of the listeners is one of the promise, or changes nothing    *)
(* the promise speaks of.                                                  *)
LEMMA StepSimulation ==
  TypeOK /\ Placed /\ Held /\ [Next]_vars => [Promise!Next]_(Promise!vars)
<1> SUFFICES ASSUME TypeOK, Placed, Held, [Next]_vars PROVE [Promise!Next]_(Promise!vars)
  OBVIOUS
<1>a. /\ delivered \in [Workers -> SUBSET Orders] /\ published \in Nat
      /\ working \in [Workers -> SUBSET Handlers] /\ done \in [Workers -> SUBSET Handlers]
      /\ \A w \in Workers : \A h \in Busy(w) : h.order \in 1 .. published
      /\ ready \cup dropped \subseteq 1 .. published
      /\ \A w \in Workers : delivered[w] \subseteq 1 .. published
  BY DEF TypeOK, Placed, Known, InHandKnown
<1>b. /\ \A m : m \in Kept <=> m \in ready \/ \E v \in Workers : m \in delivered[v]
      /\ \A m : m \in Kept' <=> m \in ready' \/ \E v \in Workers : m \in delivered'[v]
  BY DEF Kept
<1>1. CASE Publish
  <2>1. /\ published' = published + 1 /\ published' \in Orders
        /\ 1 .. published' = 1 .. published \cup {published'} /\ published' \notin 1 .. published
        /\ UNCHANGED <<delivered, processed, twice>>
    BY <1>1, <1>a, ListenerBounds DEF Publish, history, Orders
  <2>2. Handled' = Handled
    BY <2>1 DEF Handled
  <2>3. CASE ready' = ready \cup {published'} /\ dropped' = dropped
    <3>1. Accepted' = Accepted \cup {published'} /\ published' \notin Accepted
      BY <2>1, <2>3, <1>a DEF Accepted
    <3>2. Kept' = Kept \cup {published'} /\ published' \notin Kept
      BY <2>1, <2>3, <1>a, <1>b
    <3>3. Accepted' \ Kept' = Accepted \ Kept
      BY <3>1, <3>2
    <3>4. Promise!Accept({published'})
      BY <2>2, <3>1, <3>3 DEF Promise!Accept
    <3>5. QED
      BY <2>1, <3>4 DEF Promise!Next
  <2>4. CASE dropped' = dropped \cup {published'} /\ ready' = ready
    <3>1. Accepted' = Accepted
      BY <2>1, <2>4, <1>a DEF Accepted
    <3>2. Kept' = Kept
      BY <2>1, <2>4 DEF Kept
    <3>3. QED
      BY <2>2, <3>1, <3>2 DEF Promise!vars
  <2>5. QED
    BY <1>1, <2>3, <2>4 DEF Publish
<1>2. ASSUME UNCHANGED <<published, dropped, processed, twice>>, Kept' = Kept
      PROVE  UNCHANGED Promise!vars
  BY <1>2 DEF Promise!vars, Accepted, Handled
<1>3. ASSUME NEW w \in Workers, Crash(w) \/ ConnectionLost(w) \/ Disposed(w)
      PROVE  UNCHANGED Promise!vars
  <2>1. Requeue(w) /\ UNCHANGED <<published, dropped, processed, twice>>
    BY <1>3 DEF Crash, ConnectionLost, Disposed, Requeue, history
  <2>2. /\ ready' = ready \cup delivered[w] /\ delivered'[w] = {}
        /\ \A v \in Workers \ {w} : delivered'[v] = delivered[v]
    BY <2>1, <1>a DEF Requeue
  <2>3. Kept' = Kept
    BY <2>2, <1>b
  <2>4. QED
    BY <2>1, <2>3, <1>2
<1>4. ASSUME NEW w \in Workers, Deliver(w) PROVE UNCHANGED Promise!vars
  <2>1. PICK m \in ready : /\ ready' = ready \ {m}
                           /\ delivered' = [delivered EXCEPT ![w] = @ \cup {m}]
    BY <1>4 DEF Deliver
  <2>2. /\ delivered'[w] = delivered[w] \cup {m}
        /\ \A v \in Workers \ {w} : delivered'[v] = delivered[v]
    BY <2>1, <1>a
  <2>3. Kept' = Kept
    BY <2>1, <2>2, <1>b
  <2>4. QED
    BY <1>4, <2>3, <1>2 DEF Deliver, history
<1>5. ASSUME NEW w \in Workers, NEW h \in working[w], Process(w, h) PROVE [Promise!Next]_(Promise!vars)
  <2> DEFINE m == h.order
  <2>1. /\ m \in Accepted /\ m \in Orders
        /\ UNCHANGED <<published, ready, dropped, delivered>>
    BY <1>5, <1>a DEF Process, broker, Held, Accepted, Busy, Handlers
  <2>2. Kept' = Kept /\ Accepted' = Accepted
    BY <2>1 DEF Kept, Accepted
  <2>3. /\ processed' = processed \cup {m}
        /\ twice' = IF m \in processed THEN twice \cup {m} ELSE twice
        /\ twice \subseteq processed
    BY <1>5 DEF Process, TypeOK
  <2>4. CASE m \in twice
    <3>1. twice' = twice /\ processed' = processed
      BY <2>3, <2>4
    <3>2. QED
      BY <2>1, <2>2, <3>1, <1>2
  <2>5. CASE m \notin twice
    <3>1. Handled[m] = IF m \in processed THEN 1 ELSE 0
      BY <2>1, <2>5 DEF Handled
    <3>2. Handled'[m] = Handled[m] + 1
      BY <2>1, <2>3, <2>5, <3>1 DEF Handled
    <3>3. \A o \in Orders : o # m => Handled'[o] = Handled[o]
      BY <2>3 DEF Handled
    <3>4. Handled' = [Handled EXCEPT ![m] = @ + 1]
      BY <2>1, <3>2, <3>3 DEF Handled
    <3>5. Promise!Deliver(m)
      BY <2>1, <2>2, <3>4 DEF Promise!Deliver
    <3>6. QED
      BY <2>1, <3>5 DEF Promise!Next
  <2>6. QED
    BY <2>4, <2>5
<1>6. ASSUME NEW w \in Workers, NEW h \in done[w], Ack(w, h) PROVE Promise!Next
  <2> DEFINE ms == (Accepted' \ Kept') \ (Accepted \ Kept)
  <2>1. /\ h.order \in processed /\ h.order \in Orders
        /\ delivered' = Settled(w, h) /\ UNCHANGED <<published, ready, dropped, processed, twice>>
    BY <1>6, <1>a DEF Ack, broker, history, Placed, DoneIsProcessed, Handlers
  <2>2. /\ \A v \in Workers \ {w} : delivered'[v] = delivered[v]
        /\ delivered'[w] \subseteq delivered[w] /\ delivered[w] \subseteq delivered'[w] \cup {h.order}
    BY <2>1, <1>a DEF Settled
  <2>3. Kept' \subseteq Kept /\ Kept \subseteq Kept' \cup {h.order}
    BY <2>1, <2>2, <1>b
  <2>4. Accepted' = Accepted /\ Handled' = Handled
    BY <2>1 DEF Accepted, Handled
  <2>5. ms \subseteq {h.order} \cap Accepted /\ Accepted' \ Kept' = (Accepted \ Kept) \cup ms
    BY <2>3, <2>4
  <2>6. Handled[h.order] > 0
    BY <2>1 DEF Handled
  <2>7. Promise!Acknowledge(ms)
    BY <2>4, <2>5, <2>6 DEF Promise!Acknowledge
  <2>8. ms \in SUBSET Orders
    BY <2>1, <2>5
  <2>9. QED
    BY <2>7, <2>8 DEF Promise!Next
<1>7. ASSUME NEW w \in Workers, NEW h \in working[w], HandlerCancelled(w, h) PROVE UNCHANGED Promise!vars
  <2>1. /\ delivered' = Settled(w, h)
        /\ ready' = IF Ackable(w, h) THEN ready \cup {h.order} ELSE ready
        /\ UNCHANGED <<published, dropped, processed, twice>>
    BY <1>7 DEF HandlerCancelled, history
  <2>2. /\ \A v \in Workers \ {w} : delivered'[v] = delivered[v]
        /\ delivered'[w] = IF Ackable(w, h) THEN delivered[w] \ {h.order} ELSE delivered[w]
    BY <2>1, <1>a DEF Settled
  <2>3. Ackable(w, h) => h.order \in delivered[w]
    BY DEF Held, Busy
  <2>4. Kept' = Kept
    BY <2>1, <2>2, <2>3, <1>b
  <2>5. QED
    BY <2>1, <2>4, <1>2
<1>8. ASSUME NEW w \in Workers,
             \/ Startup(w) \/ Fire(w) \/ Interrupt(w) \/ TriggerNow(w) \/ Shutdown(w) \/ Stopped(w)
             \/ Subscribed(w) \/ SubscribeThrows(w) \/ Wakes(w) \/ Begin(w)
      PROVE  UNCHANGED Promise!vars
  <2>1. UNCHANGED <<published, ready, dropped, delivered, processed, twice>>
    BY <1>8 DEF Startup, Fire, Interrupt, TriggerNow, Shutdown, Stopped, Subscribed,
                SubscribeThrows, Wakes, Begin, broker, history
  <2>2. Kept' = Kept
    BY <2>1 DEF Kept
  <2>3. QED
    BY <2>1, <2>2, <1>2
<1>9. CASE UNCHANGED vars
  <2>1. UNCHANGED <<published, ready, dropped, delivered, processed, twice>>
    BY <1>9 DEF vars, broker, history
  <2>2. Kept' = Kept
    BY <2>1 DEF Kept
  <2>3. QED
    BY <2>1, <2>2, <1>2
<1>10. QED
  BY <1>1, <1>3, <1>4, <1>5, <1>6, <1>7, <1>8, <1>9 DEF Next, Proceeds, Handles

(* However many workers listen, and whatever interrupts them, the orders   *)
(* that found a queue are processed at least once, and leave the broker    *)
(* only then.                                                              *)
THEOREM ListenersKeepPromise == Spec => KeepsPromise
<1>1. Init => Promise!Init /\ Held
  BY DEF Init, Promise!Init, Accepted, Kept, Handled, Held, Busy
<1>2. Spec => []Held
  <2>1. TypeOK /\ Placed /\ Held /\ [Next]_vars => Held'
    BY HeldStep
  <2>2. QED
    BY <1>1, <2>1, ListenerInvariant, PTL DEF Spec
<1>3. QED
  BY <1>1, <1>2, ListenerInvariant, StepSimulation, PTL DEF Spec, KeepsPromise, Promise!Spec
=============================================================================
