------------------------------- MODULE OrderSaga -------------------------------
(***************************************************************************)
(* The order saga of src/SagasWithWolverine: the Orders page posts to the  *)
(* API, the API publishes StartOrder and CompleteOrder to RabbitMQ, and    *)
(* the saga handlers store, complete or time out the Order.                *)
(*                                                                         *)
(* RabbitMQ and Wolverine are outside the repository: each message type    *)
(* has its own queue, so there is no order between types; a message is     *)
(* taken from its queue after its handler has committed, so a crash in     *)
(* between delivers it again; a handler that throws sends its message to   *)
(* the dead letters (no retry policy is configured); the saga state and    *)
(* the timeout that Start returns are stored in one transaction; a timeout *)
(* of a saga that is gone is ignored.                                      *)
(***************************************************************************)
EXTENDS Naturals, FiniteSets

CONSTANTS Orders,     \* order ids: each Guid.NewGuid is one never used before
          Pages,      \* browser tabs showing Orders.razor
          None,       \* null
          MaxSends,   \* bound on CompleteOrder messages in a queue
          MaxFaults   \* bound on lost replies and on crashes before the ack

ASSUME NoneAssumption == None \notin Orders
ASSUME BoundsAssumption == MaxSends \in Nat /\ MaxFaults \in Nat

MessageTypes == {"StartOrder", "CompleteOrder", "OrderTimeout"}

VARIABLES
  issued,      \* ids handed out by POST /orders/start
  startQ,      \* orders whose StartOrder is in its queue
  completeQ,   \* order -> CompleteOrder messages in their queue
  timeouts,    \* order -> scheduled OrderTimeout messages
  dead,        \* dead letters, as <<message type, order>>
  saga,        \* ids of the stored Order documents
  ended,       \* order -> how its saga was last deleted (history)
  redelivered, \* orders whose StartOrder came a second time (history)
  startBusy, startError,           \* pages whose flag is set, error not null
  startedOrderId,                  \* page -> id shown as started
  completeBusy, completeSuccess,   \* pages whose flag is set
  completeOrderId, submitted,      \* page -> id in the input, id in the request
  faults

busVars == <<startQ, completeQ, timeouts, dead>>
sagaVars == <<saga, ended, redelivered>>
startVars == <<startBusy, startedOrderId, startError>>
completeVars == <<completeBusy, completeOrderId, submitted, completeSuccess>>
vars == <<issued, busVars, sagaVars, startVars, completeVars, faults>>

Init == /\ issued = {} /\ startQ = {} /\ dead = {} /\ saga = {} /\ redelivered = {}
        /\ completeQ = [o \in Orders |-> 0]
        /\ timeouts = [o \in Orders |-> 0]
        /\ ended = [o \in Orders |-> "no"]
        /\ startBusy = {}
        /\ startedOrderId = [p \in Pages |-> None]
        /\ startError = {}
        /\ completeBusy = {}
        /\ completeOrderId = [p \in Pages |-> None]
        /\ submitted = [p \in Pages |-> None]
        /\ completeSuccess = {}
        /\ faults = 0

Fault == faults < MaxFaults /\ faults' = faults + 1
-----------------------------------------------------------------------------
(***************************************************************************)
(* Starting an order: the page's click handler and the API's endpoint.     *)
(***************************************************************************)
ClickStart(p) == /\ p \notin startBusy
                 /\ startBusy' = startBusy \cup {p}
                 /\ startedOrderId' = [startedOrderId EXCEPT ![p] = None]
                 /\ startError' = startError \ {p}
                 /\ UNCHANGED <<issued, busVars, sagaVars, completeVars, faults>>

\* Mutant of PostStart: a retried request gets the id it had before.
PostStartReusesId(o) == /\ issued' = issued \cup {o}
                        /\ startQ' = startQ \cup {o}
                        /\ UNCHANGED <<completeQ, timeouts, dead>>

\* POST /orders/start: a new id for every request, retried or not.
PostStart(o) == /\ o \notin issued
                /\ issued' = issued \cup {o}
                /\ startQ' = startQ \cup {o}
                /\ UNCHANGED <<completeQ, timeouts, dead>>

\* Mutant of StartAccepted: replies with the id although the publish failed.
StartAcceptedUnpublished(p, o) == /\ p \in startBusy /\ o \notin issued
                                  /\ issued' = issued \cup {o}
                                  /\ startBusy' = startBusy \ {p}
                                  /\ startedOrderId' = [startedOrderId EXCEPT ![p] = o]
                                  /\ UNCHANGED <<busVars, sagaVars, startError, completeVars, faults>>

StartAccepted(p, o) == /\ p \in startBusy
                       /\ PostStart(o)
                       /\ startBusy' = startBusy \ {p}
                       /\ startedOrderId' = [startedOrderId EXCEPT ![p] = o]
                       /\ UNCHANGED <<sagaVars, startError, completeVars, faults>>

\* The reply is lost after the publish; the resilience handler of the HTTP
\* client posts again, and the page is still waiting.
StartReplyLost(p, o) == /\ p \in startBusy
                        /\ PostStart(o)
                        /\ Fault
                        /\ UNCHANGED <<sagaVars, startVars, completeVars>>

StartFails(p) == /\ p \in startBusy
                 /\ startBusy' = startBusy \ {p}
                 /\ startError' = startError \cup {p}
                 /\ UNCHANGED <<issued, busVars, sagaVars, startedOrderId, completeVars, faults>>
-----------------------------------------------------------------------------
(***************************************************************************)
(* Completing an order.  The input stays editable while a request is out.  *)
(***************************************************************************)
EditOrderId(p, o) == /\ completeOrderId' = [completeOrderId EXCEPT ![p] = o]
                     /\ UNCHANGED <<completeBusy, submitted, completeSuccess>>
                     /\ UNCHANGED <<issued, busVars, sagaVars, startVars, faults>>

\* Mutant of ClickComplete: an empty input is submitted too.
ClickCompleteEmpty(p) == /\ p \notin completeBusy
                         /\ completeBusy' = completeBusy \cup {p}
                         /\ completeSuccess' = completeSuccess \ {p}
                         /\ submitted' = [submitted EXCEPT ![p] = completeOrderId[p]]
                         /\ UNCHANGED <<issued, busVars, sagaVars, startVars, completeOrderId, faults>>

ClickComplete(p) == /\ p \notin completeBusy /\ completeOrderId[p] # None
                    /\ completeBusy' = completeBusy \cup {p}
                    /\ completeSuccess' = completeSuccess \ {p}
                    /\ submitted' = [submitted EXCEPT ![p] = completeOrderId[p]]
                    /\ UNCHANGED <<issued, busVars, sagaVars, startVars, completeOrderId, faults>>

\* POST /orders/{id}/complete publishes for any id and accepts.
PostComplete(o) == /\ completeQ[o] < MaxSends
                   /\ completeQ' = [completeQ EXCEPT ![o] = @ + 1]
                   /\ UNCHANGED <<issued, startQ, timeouts, dead>>

CompleteAccepted(p) == /\ p \in completeBusy
                       /\ PostComplete(submitted[p])
                       /\ completeBusy' = completeBusy \ {p}
                       /\ completeSuccess' = completeSuccess \cup {p}
                       /\ submitted' = [submitted EXCEPT ![p] = None]
                       /\ UNCHANGED <<sagaVars, startVars, completeOrderId, faults>>

CompleteReplyLost(p) == /\ p \in completeBusy
                        /\ PostComplete(submitted[p])
                        /\ Fault
                        /\ UNCHANGED <<sagaVars, startVars, completeVars>>

CompleteFails(p) == /\ p \in completeBusy
                    /\ completeBusy' = completeBusy \ {p}
                    /\ submitted' = [submitted EXCEPT ![p] = None]
                    /\ UNCHANGED <<completeOrderId, completeSuccess>>
                    /\ UNCHANGED <<issued, busVars, sagaVars, startVars, faults>>
-----------------------------------------------------------------------------
(***************************************************************************)
(* The saga's handlers, each with what becomes of its message.             *)
(***************************************************************************)
pageVars == <<startVars, completeVars>>

\* Mutant of Store: Start returns the order without its OrderTimeout.
StoreUntimed(o) == /\ o \notin saga
                   /\ saga' = saga \cup {o}
                   /\ UNCHANGED timeouts

\* Start stores the order and its timeout; the id of a stored order is a
\* duplicate key, which throws.
Store(o) == /\ o \notin saga
            /\ saga' = saga \cup {o}
            /\ timeouts' = [timeouts EXCEPT ![o] = @ + 1]

Start(o) == /\ o \in startQ
            /\ Store(o)
            /\ startQ' = startQ \ {o}
            /\ UNCHANGED <<issued, completeQ, dead, ended, redelivered, pageVars, faults>>

StartCrashesBeforeAck(o) == /\ o \in startQ
                            /\ Store(o)
                            /\ Fault
                            /\ redelivered' = redelivered \cup {o}
                            /\ UNCHANGED <<issued, startQ, completeQ, dead, ended, pageVars>>

StartThrows(o) == /\ o \in startQ
                  /\ startQ' = startQ \ {o}
                  /\ dead' = dead \cup {<<"StartOrder", o>>}
                  /\ UNCHANGED <<issued, completeQ, timeouts, sagaVars, pageVars, faults>>

\* MarkCompleted deletes the saga; without one, NotFound only logs.
Delete(o, how) == /\ saga' = saga \ {o}
                  /\ ended' = IF o \in saga THEN [ended EXCEPT ![o] = how] ELSE ended
                  /\ UNCHANGED redelivered

HandleComplete(o) == /\ completeQ[o] > 0
                     /\ Delete(o, "completed")
                     /\ \/ completeQ' = [completeQ EXCEPT ![o] = @ - 1] /\ UNCHANGED faults
                        \/ UNCHANGED completeQ /\ Fault
                     /\ UNCHANGED <<issued, startQ, timeouts, dead, pageVars>>

CompleteThrows(o) == /\ completeQ[o] > 0
                     /\ completeQ' = [completeQ EXCEPT ![o] = @ - 1]
                     /\ dead' = dead \cup {<<"CompleteOrder", o>>}
                     /\ UNCHANGED <<issued, startQ, timeouts, sagaVars, pageVars, faults>>

\* Mutant of HandleTimeout: the handler does not call MarkCompleted.
HandleTimeoutKeeps(o) == /\ timeouts[o] > 0
                         /\ \/ timeouts' = [timeouts EXCEPT ![o] = @ - 1] /\ UNCHANGED faults
                            \/ UNCHANGED timeouts /\ Fault
                         /\ UNCHANGED <<issued, startQ, completeQ, dead, sagaVars, pageVars>>

HandleTimeout(o) == /\ timeouts[o] > 0
                    /\ Delete(o, "timedOut")
                    /\ \/ timeouts' = [timeouts EXCEPT ![o] = @ - 1] /\ UNCHANGED faults
                       \/ UNCHANGED timeouts /\ Fault
                    /\ UNCHANGED <<issued, startQ, completeQ, dead, pageVars>>

TimeoutThrows(o) == /\ timeouts[o] > 0
                    /\ timeouts' = [timeouts EXCEPT ![o] = @ - 1]
                    /\ dead' = dead \cup {<<"OrderTimeout", o>>}
                    /\ UNCHANGED <<issued, startQ, completeQ, sagaVars, pageVars, faults>>
-----------------------------------------------------------------------------
Page(p) == \/ ClickStart(p) \/ StartFails(p)
           \/ ClickComplete(p) \/ CompleteAccepted(p) \/ CompleteReplyLost(p) \/ CompleteFails(p)
           \/ \E o \in Orders : StartAccepted(p, o) \/ StartReplyLost(p, o) \/ EditOrderId(p, o)

HandleStart(o) == Start(o) \/ StartCrashesBeforeAck(o) \/ StartThrows(o)
Timeout(o) == HandleTimeout(o) \/ TimeoutThrows(o)

Next == \/ \E p \in Pages : Page(p)
        \/ \E o \in Orders : HandleStart(o) \/ HandleComplete(o) \/ CompleteThrows(o) \/ Timeout(o)

Spec == Init /\ [][Next]_vars

\* The broker and the message store keep delivering; users need not click.
FairSpec == /\ Spec
            /\ \A o \in Orders : WF_vars(HandleStart(o)) /\ WF_vars(Timeout(o))
-----------------------------------------------------------------------------
TypeOK ==
  /\ issued \subseteq Orders /\ startQ \subseteq Orders
  /\ saga \subseteq Orders /\ redelivered \subseteq Orders
  /\ completeQ \in [Orders -> Nat] /\ timeouts \in [Orders -> Nat]
  /\ dead \subseteq MessageTypes \X Orders
  /\ ended \in [Orders -> {"no", "completed", "timedOut"}]
  /\ startBusy \subseteq Pages /\ startError \subseteq Pages
  /\ startedOrderId \in [Pages -> Orders \cup {None}]
  /\ completeBusy \subseteq Pages /\ completeSuccess \subseteq Pages
  /\ completeOrderId \in [Pages -> Orders \cup {None}]
  /\ submitted \in [Pages -> Orders \cup {None}]
  /\ \A p \in completeBusy : submitted[p] \in Orders
  /\ faults \in Nat

(* No order can be stuck: whatever was redelivered or overtaken, a stored  *)
(* order has a timeout scheduled, unless that timeout's handler threw.     *)
StoredOrderHasTimeout ==
  \A o \in saga : timeouts[o] > 0 \/ <<"OrderTimeout", o>> \in dead

(* An order whose id a user was shown is queued, stored or ended, unless   *)
(* its StartOrder ended as a dead letter.                                  *)
AcceptedOrderIsNotLost ==
  \A p \in Pages : startedOrderId[p] # None =>
     LET o == startedOrderId[p]
     IN  o \in startQ \/ o \in saga \/ ended[o] # "no" \/ <<"StartOrder", o>> \in dead

(* An order that has ended comes back only through a second delivery of    *)
(* its StartOrder: retried requests and early CompleteOrders never revive. *)
NoRevival == \A o \in saga : ended[o] # "no" => o \in redelivered

(* Every stored order ends, by completion or by its timeout, unless the    *)
(* timeout's handler throws.                                               *)
EveryOrderEnds ==
  \A o \in Orders : o \in saga ~> (o \notin saga \/ <<"OrderTimeout", o>> \in dead)

(* Orders.razor:50 tells the user "Order <id> completed.": the order so    *)
(* named has been completed.                                               *)
SaysCompletedWhenCompleted ==
  \A p \in completeSuccess \ completeBusy : ended[completeOrderId[p]] = "completed"
=============================================================================
