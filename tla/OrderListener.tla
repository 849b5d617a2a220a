----------------------------- MODULE OrderListener -----------------------------
(***************************************************************************)
(* Team B of src/QuartzNetAspire: the job order-listener in several        *)
(* queue-worker processes, each with an in-memory Quartz scheduler of its  *)
(* own, over the one queue they share in RabbitMQ.                         *)
(*                                                                         *)
(* Quartz, EasyNetQ, RabbitMQ and the relay that publishes are outside the *)
(* module, and used as the code uses them: the durable queue is declared   *)
(* by the first subscription; a process may have a handler for every order *)
(* it was sent, all at once (onMessage counts with Interlocked); delivered *)
(* orders are acknowledged after their handler; disposing a subscription   *)
(* cancels the handlers in progress, waits for them, and leaves the rest   *)
(* to the queue; an order that is not acknowledged when its consumer or    *)
(* connection is gone is queued again.                                     *)
(***************************************************************************)
EXTENDS Naturals

CONSTANTS Workers,     \* queue-worker processes
          MaxOrders,   \* bound on published orders
          MaxStarts,   \* bound on process starts
          MaxOps,      \* bound on Trigger now; what it starts bounds Interrupt
          MaxFaults    \* bound on crashes, lost connections, failed subscriptions

Orders == 1 .. MaxOrders

ASSUME ListenerBounds == {MaxOrders, MaxStarts, MaxOps, MaxFaults} \subseteq Nat

VARIABLES
  up,          \* worker -> "down", "up" or "stopping"
  triggers,    \* worker -> stored triggers that have not fired
  listener,    \* worker -> where its run of Execute is, or "none"
  cancelled,   \* workers whose run's cancellation token has fired
  published,   \* orders published so far: 1 .. published
  queue,       \* "missing" before the first subscription, then "bound"
  ready,       \* orders waiting in the queue
  delivered,   \* worker -> orders it was sent and has not acknowledged
  conn,        \* worker -> connections it has lost: the number of the present one
  working,     \* worker -> its handlers in their pause
  done,        \* worker -> its handlers that have ended, their orders not acknowledged
  dropped,     \* orders published while there was no queue (history)
  processed,   \* orders whose handler ended (history)
  twice,       \* orders whose handler ended more than once (history)
  broken,      \* workers that crashed or lost a connection (history)
  starts, ops, faults

broker == <<published, queue, ready, dropped>>
run == <<up, triggers, listener, cancelled>>
handling == <<conn, working, done>>
history == <<processed, twice>>
bounds == <<starts, ops, faults>>
vars == <<run, broker, delivered, handling, history, broken, bounds>>

\* A handler has an order, and acknowledges it over the connection it came by.
Handlers == [order : Orders, conn : Nat]
Busy(w) == working[w] \cup done[w]

Init == /\ up = [w \in Workers |-> "down"]
        /\ triggers = [w \in Workers |-> 0]
        /\ listener = [w \in Workers |-> "none"]
        /\ cancelled = {}
        /\ published = 0 /\ queue = "missing" /\ ready = {} /\ dropped = {}
        /\ delivered = [w \in Workers |-> {}]
        /\ conn = [w \in Workers |-> 0]
        /\ working = [w \in Workers |-> {}]
        /\ done = [w \in Workers |-> {}]
        /\ processed = {} /\ twice = {} /\ broken = {}
        /\ starts = 0 /\ ops = 0 /\ faults = 0

Fault == faults < MaxFaults /\ faults' = faults + 1 /\ UNCHANGED <<starts, ops>>
-----------------------------------------------------------------------------
(***************************************************************************)
(* The worker process, its scheduler and the dashboard.                    *)
(***************************************************************************)
Startup(w) == /\ up[w] = "down" /\ starts < MaxStarts
              /\ starts' = starts + 1
              /\ up' = [up EXCEPT ![w] = "up"]
              /\ triggers' = [triggers EXCEPT ![w] = 1]
              /\ UNCHANGED <<listener, cancelled, broker, delivered, handling, history, broken,
                             ops, faults>>

\* A run in progress blocks the other triggers of its process.
Fire(w) == /\ up[w] = "up" /\ listener[w] = "none" /\ triggers[w] > 0
           /\ triggers' = [triggers EXCEPT ![w] = @ - 1]
           /\ listener' = [listener EXCEPT ![w] = "subscribing"]
           /\ UNCHANGED <<up, cancelled, broker, delivered, handling, history, broken, bounds>>

Interrupt(w) == /\ listener[w] # "none" /\ w \notin cancelled
                /\ cancelled' = cancelled \cup {w}
                /\ UNCHANGED <<up, triggers, listener, broker, delivered, handling, history, broken,
                               bounds>>

TriggerNow(w) == /\ up[w] = "up"
                 /\ ops < MaxOps /\ ops' = ops + 1
                 /\ triggers' = [triggers EXCEPT ![w] = @ + 1]
                 /\ UNCHANGED <<up, listener, cancelled, broker, delivered, handling, history, broken,
                                starts, faults>>

\* Mutant of Shutdown: the scheduler waits without firing the token.
ShutdownUntold(w) == /\ up[w] = "up"
                     /\ up' = [up EXCEPT ![w] = "stopping"]
                     /\ UNCHANGED <<triggers, listener, cancelled, broker, delivered, handling,
                                    history, broken, bounds>>

Shutdown(w) == /\ up[w] = "up"
               /\ up' = [up EXCEPT ![w] = "stopping"]
               /\ cancelled' = IF listener[w] # "none" THEN cancelled \cup {w} ELSE cancelled
               /\ UNCHANGED <<triggers, listener, broker, delivered, handling, history, broken, bounds>>

Stopped(w) == /\ up[w] = "stopping" /\ listener[w] = "none"
              /\ up' = [up EXCEPT ![w] = "down"]
              /\ triggers' = [triggers EXCEPT ![w] = 0]
              /\ UNCHANGED <<listener, cancelled, broker, delivered, handling, history, broken, bounds>>

\* What w was sent and has not acknowledged goes back to the queue.
Requeue(w) == /\ ready' = ready \cup delivered[w]
              /\ delivered' = [delivered EXCEPT ![w] = {}]
              /\ UNCHANGED <<published, queue, dropped>>

\* Mutant of Crash: the scheduler's triggers outlive the process.
CrashKeepsTriggers(w) ==
  /\ up[w] # "down" /\ Fault
  /\ up' = [up EXCEPT ![w] = "down"]
  /\ listener' = [listener EXCEPT ![w] = "none"]
  /\ cancelled' = cancelled \ {w}
  /\ working' = [working EXCEPT ![w] = {}]
  /\ done' = [done EXCEPT ![w] = {}]
  /\ Requeue(w)
  /\ broken' = broken \cup {w}
  /\ UNCHANGED <<triggers, conn, history>>

Crash(w) == /\ up[w] # "down" /\ Fault
            /\ up' = [up EXCEPT ![w] = "down"]
            /\ triggers' = [triggers EXCEPT ![w] = 0]
            /\ listener' = [listener EXCEPT ![w] = "none"]
            /\ cancelled' = cancelled \ {w}
            /\ working' = [working EXCEPT ![w] = {}]
            /\ done' = [done EXCEPT ![w] = {}]
            /\ Requeue(w)
            /\ broken' = broken \cup {w}
            /\ UNCHANGED <<conn, history>>
-----------------------------------------------------------------------------
(***************************************************************************)
(* OrderListenerJob.Execute.                                               *)
(***************************************************************************)
Subscribed(w) == /\ listener[w] = "subscribing" /\ w \notin cancelled
                 /\ listener' = [listener EXCEPT ![w] = "listening"]
                 /\ queue' = "bound"
                 /\ UNCHANGED <<up, triggers, cancelled, published, ready, dropped, delivered,
                                handling, history, broken, bounds>>

ExecuteEnds(w) == /\ listener' = [listener EXCEPT ![w] = "none"]
                  /\ cancelled' = cancelled \ {w}
                  /\ UNCHANGED <<up, triggers>>

\* SubscribeAsync throws out of Execute: the token has fired, or the broker failed.
SubscribeThrows(w) == /\ listener[w] = "subscribing"
                      /\ IF w \in cancelled THEN UNCHANGED bounds ELSE Fault
                      /\ ExecuteEnds(w)
                      /\ UNCHANGED <<broker, delivered, handling, history, broken>>

\* The token ends the infinite delay.
Wakes(w) == /\ listener[w] = "listening" /\ w \in cancelled
            /\ listener' = [listener EXCEPT ![w] = "disposing"]
            /\ UNCHANGED <<up, triggers, cancelled, broker, delivered, handling, history, broken, bounds>>

\* Mutant of Disposed: orders that were sent and not begun are forgotten.
DisposedForgets(w) == /\ listener[w] = "disposing" /\ Busy(w) = {}
                      /\ delivered' = [delivered EXCEPT ![w] = {}]
                      /\ ExecuteEnds(w)
                      /\ UNCHANGED <<broker, handling, history, broken, bounds>>

\* Mutant of Disposed: Execute returns without waiting for its handlers.
DisposedAtOnce(w) == /\ listener[w] = "disposing"
                     /\ Requeue(w)
                     /\ ExecuteEnds(w)
                     /\ UNCHANGED <<handling, history, broken, bounds>>

\* The subscription is disposed, and Execute returns.
Disposed(w) == /\ listener[w] = "disposing" /\ Busy(w) = {}
               /\ Requeue(w)
               /\ ExecuteEnds(w)
               /\ UNCHANGED <<handling, history, broken, bounds>>
-----------------------------------------------------------------------------
(***************************************************************************)
(* Orders: publishing, delivery and onMessage.                             *)
(***************************************************************************)
Publish == /\ published < MaxOrders
           /\ published' = published + 1
           /\ IF queue = "bound"
                THEN ready' = ready \cup {published'} /\ UNCHANGED dropped
                ELSE dropped' = dropped \cup {published'} /\ UNCHANGED ready
           /\ UNCHANGED <<run, queue, delivered, handling, history, broken, bounds>>

Deliver(w) == /\ listener[w] = "listening"
              /\ \E m \in ready : /\ ready' = ready \ {m}
                                  /\ delivered' = [delivered EXCEPT ![w] = @ \cup {m}]
              /\ UNCHANGED <<run, published, queue, dropped, handling, history, broken, bounds>>

Begin(w) == /\ listener[w] = "listening"
            /\ \E m \in delivered[w] :
                 LET h == [order |-> m, conn |-> conn[w]]
                 IN  h \notin Busy(w) /\ working' = [working EXCEPT ![w] = @ \cup {h}]
            /\ UNCHANGED <<run, broker, delivered, conn, done, history, broken, bounds>>

\* The pause elapses and the order is counted.
Process(w, h) == /\ h \in working[w]
                 /\ working' = [working EXCEPT ![w] = @ \ {h}]
                 /\ done' = [done EXCEPT ![w] = @ \cup {h}]
                 /\ processed' = processed \cup {h.order}
                 /\ twice' = IF h.order \in processed THEN twice \cup {h.order} ELSE twice
                 /\ UNCHANGED <<run, broker, delivered, conn, broken, bounds>>

\* The order of h is settled with the broker, if its connection is still there.
Ackable(w, h) == h.conn = conn[w]
Settled(w, h) == [delivered EXCEPT ![w] = IF Ackable(w, h) THEN @ \ {h.order} ELSE @]

Ack(w, h) == /\ h \in done[w]
             /\ done' = [done EXCEPT ![w] = @ \ {h}]
             /\ delivered' = Settled(w, h)
             /\ UNCHANGED <<run, broker, conn, working, history, broken, bounds>>

\* Mutant of HandlerCancelled: an order that was cancelled is acknowledged.
CancelledIsAcked(w, h) == /\ h \in working[w] /\ listener[w] = "disposing"
                          /\ working' = [working EXCEPT ![w] = @ \ {h}]
                          /\ delivered' = Settled(w, h)
                          /\ UNCHANGED <<run, broker, conn, done, history, broken, bounds>>

\* ct ends the pause: the order is refused, and queued again.
HandlerCancelled(w, h) ==
  /\ h \in working[w] /\ listener[w] = "disposing"
  /\ working' = [working EXCEPT ![w] = @ \ {h}]
  /\ delivered' = Settled(w, h)
  /\ ready' = IF Ackable(w, h) THEN ready \cup {h.order} ELSE ready
  /\ UNCHANGED <<run, published, queue, dropped, conn, done, history, broken, bounds>>

\* The consumer comes back by itself; the handlers in progress go on.
ConnectionLost(w) == /\ listener[w] \in {"listening", "disposing"} /\ Fault
                     /\ Requeue(w)
                     /\ conn' = [conn EXCEPT ![w] = @ + 1]
                     /\ broken' = broken \cup {w}
                     /\ UNCHANGED <<run, working, done, history>>
-----------------------------------------------------------------------------
Proceeds(w) == \/ Subscribed(w) \/ SubscribeThrows(w) \/ Wakes(w) \/ Disposed(w)
Handles(w) == \/ Begin(w)
              \/ \E h \in working[w] : Process(w, h) \/ HandlerCancelled(w, h)
              \/ \E h \in done[w] : Ack(w, h)

Next == \/ Publish
        \/ \E w \in Workers :
             \/ Startup(w) \/ Fire(w) \/ Interrupt(w) \/ TriggerNow(w)
             \/ Shutdown(w) \/ Stopped(w) \/ Crash(w)
             \/ Proceeds(w) \/ Handles(w) \/ Deliver(w) \/ ConnectionLost(w)

Spec == Init /\ [][Next]_vars

\* Schedulers, Execute, consumers and handlers of live processes go on; nobody
\* has to start a process, publish or press a button.
FairSpec == /\ Spec
            /\ \A w \in Workers : /\ WF_vars(Fire(w)) /\ WF_vars(Stopped(w))
                                  /\ WF_vars(Proceeds(w)) /\ WF_vars(Deliver(w))
                                  /\ WF_vars(Handles(w))
-----------------------------------------------------------------------------
TypeOK ==
  /\ up \in [Workers -> {"down", "up", "stopping"}]
  /\ triggers \in [Workers -> Nat]
  /\ listener \in [Workers -> {"none", "subscribing", "listening", "disposing"}]
  /\ cancelled \subseteq Workers /\ broken \subseteq Workers
  /\ published \in Nat /\ queue \in {"missing", "bound"}
  /\ ready \subseteq Orders /\ dropped \subseteq Orders
  /\ delivered \in [Workers -> SUBSET Orders]
  /\ conn \in [Workers -> Nat]
  /\ working \in [Workers -> SUBSET Handlers] /\ done \in [Workers -> SUBSET Handlers]
  /\ processed \subseteq Orders /\ twice \subseteq processed
  /\ starts \in Nat /\ ops \in Nat /\ faults \in Nat
  /\ \A w \in Workers : up[w] = "down" => triggers[w] = 0 /\ listener[w] = "none"

\* The orders that found a queue, those the broker still has, and how often,
\* up to twice, each was processed.
Accepted == (1 .. published) \ dropped
Kept == ready \cup UNION {delivered[w] : w \in Workers}
Handled == [m \in Orders |-> IF m \in twice THEN 2 ELSE IF m \in processed THEN 1 ELSE 0]

Promise == INSTANCE DeliveryPromise
             WITH Messages <- Orders, Units <- {{m} : m \in Orders},
                  accepted <- Accepted, delivered <- Handled, acked <- Accepted \ Kept

(* The listeners process every order that found a queue at least once: it  *)
(* is gone from the broker only after a handler has ended for it, whatever *)
(* is interrupted, shut down, cut off or killed, and it never comes back.  *)
KeepsPromise == Promise!Spec

(* An order is processed twice only after a crash or a lost connection:    *)
(* Interrupt, Trigger now and a shutdown lose and repeat nothing, though   *)
(* they end a handler wherever it is, and others next to it.               *)
TwiceNeedsFault == broken = {} => twice = {}

(* "Trigger now on order-listener ... the queue drains" (README.md:74),    *)
(* also after a restart (README.md:105): an order that found a queue does  *)
(* not stay unprocessed while a worker listens or has a trigger left.      *)
Serving == {w \in Workers : up[w] = "up" /\ (listener[w] # "none" \/ triggers[w] > 0)}
QueueDrains == \A m \in Orders : []<>(m \in Accepted => m \in processed \/ Serving = {})

(* "WaitForJobsToComplete = true lets a SIGTERM finish the run cleanly"    *)
(* (HowItWasBuilt.md:82): the wait ends, whatever the handlers are doing.  *)
ShutdownCompletes == \A w \in Workers : []<>(up[w] # "stopping")
=============================================================================
