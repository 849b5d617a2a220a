-------------------------- MODULE RelayClusterProofs --------------------------
(***************************************************************************)
(* Theorems about RelayCluster, for any number of nodes, of runs in each   *)
(* process, and any bounds.                                                *)
(***************************************************************************)
EXTENDS RelayCluster, TLAPS

\* While no live node was taken for dead, a run has its row; and the store
\* never holds the rows of two runs.
RunsHoldTheRow == ~late => Running \subseteq fired
OneRow == \A q, r \in fired : q = r

\* What a process has sent or is publishing it has counted, and no two of its
\* runs publish the same id.
Publishing(r) == relay[r] = "publishing"
SentWasCounted == \A n \in Nodes : \A id \in sent[n] : id <= lastOrderId[n]
OrdersAreCounted == \A r \in Runs : Publishing(r) => order[r] <= lastOrderId[Host(r)]
OrdersDiffer ==
  \A q, r \in Runs : Publishing(q) /\ Publishing(r) /\ Host(q) = Host(r) /\ order[q] = order[r]
                      => q = r

Counting == SentWasCounted /\ OrdersAreCounted /\ OrdersDiffer /\ OrderIdsOncePerProcess

IInv == TypeOK /\ RunsHoldTheRow /\ OneRow /\ Counting

(* A run is in a process of the cluster.                                   *)
LEMMA Hosts == \A r \in Runs : Host(r) \in Nodes
BY DEF Runs, Host

(* The three flags stay Boolean: whoever sets one sets it to a constant.   *)
LEMMA FlagsStep == FlagsOK /\ [Next]_vars => FlagsOK'
<1> SUFFICES ASSUME FlagsOK, [Next]_vars PROVE FlagsOK'
  OBVIOUS
<1> USE DEF FlagsOK
<1>1. CASE TriggerNow
  BY <1>1, Zenon DEF TriggerNow
<1>2. ASSUME NEW n \in Nodes, Startup(n) PROVE FlagsOK'
  BY <1>2, Zenon DEF Startup
<1>3. ASSUME NEW n \in Nodes, Shutdown(n) \/ Stopped(n) \/ Crash(n) PROVE FlagsOK'
  BY <1>3, Zenon DEF Shutdown, Stopped, Crash, storeVars
<1>4. ASSUME NEW n \in Nodes, Interrupt(n) PROVE FlagsOK'
  BY <1>4, Zenon DEF Interrupt, storeVars
<1>5. ASSUME NEW r \in Runs, Fire(r) PROVE FlagsOK'
  BY <1>5, Zenon DEF Fire, TakeTrigger
<1>6. ASSUME NEW r \in Runs, NEW m \in Nodes, Recover(m, r) \/ RecoverLate(m, r) PROVE FlagsOK'
  BY <1>6, Zenon DEF Recover, RecoverLate
<1>7. ASSUME NEW r \in Runs, NextOrder(r) \/ Publish(r) PROVE FlagsOK'
  BY <1>7, Zenon DEF NextOrder, Publish, storeVars
<1>8. ASSUME NEW r \in Runs, Return(r) \/ PublishThrows(r) PROVE FlagsOK'
  BY <1>8, Zenon DEF Return, PublishThrows, EndRun
<1>9. CASE UNCHANGED vars
  BY <1>9, Zenon DEF vars, storeVars
<1> QED
  BY <1>1, <1>2, <1>3, <1>4, <1>5, <1>6, <1>7, <1>8, <1>9 DEF Next, Node, Run

(* Every step keeps every variable in its type; runs belong to processes   *)
(* that are up, and only runs have tokens that fired.                      *)
LEMMA TypeStep == TypeOK /\ [Next]_vars => TypeOK'
<1> SUFFICES ASSUME TypeOK, [Next]_vars PROVE TypeOK'
  OBVIOUS
<1>0. FlagsOK' /\ \A r \in Runs : Host(r) \in Nodes
  BY FlagsStep, Hosts DEF TypeOK
<1> USE <1>0, BoundsAssumption DEF TypeOK, Running
<1>1. CASE TriggerNow
  BY <1>1 DEF TriggerNow, Operate, runVars
<1>2. ASSUME NEW n \in Nodes, Startup(n) PROVE TypeOK'
  BY <1>2 DEF Startup
<1>3. ASSUME NEW n \in Nodes, Shutdown(n) PROVE TypeOK'
  BY <1>3 DEF Shutdown, RunsOf, storeVars, bounds
<1>4. ASSUME NEW n \in Nodes, Stopped(n) PROVE TypeOK'
  BY <1>4 DEF Stopped, RunsOf, storeVars, runVars, bounds
<1>5. ASSUME NEW n \in Nodes, Crash(n) PROVE TypeOK'
  <2>1. /\ relay' = [r \in Runs |-> IF Host(r) = n THEN "none" ELSE relay[r]]
        /\ order' = [r \in Runs |-> IF Host(r) = n THEN 0 ELSE order[r]]
        /\ cancelled' = cancelled \ RunsOf(n) /\ up' = [up EXCEPT ![n] = "down"]
        /\ UNCHANGED <<storeVars, lastOrderId, sent, bounds>>
    BY <1>5 DEF Crash
  <2>2. cancelled' \subseteq Running'
    BY <2>1 DEF RunsOf
  <2>3. \A r \in Running' : up'[Host(r)] # "down"
    BY <2>1
  <2>4. relay' \in [Runs -> {"none", "delaying", "publishing"}] /\ order' \in [Runs -> Nat]
    BY <2>1
  <2>5. QED
    BY <2>1, <2>2, <2>3, <2>4 DEF storeVars, bounds
<1>6. ASSUME NEW n \in Nodes, Interrupt(n) PROVE TypeOK'
  BY <1>6 DEF Interrupt, RunsOf, Operate, storeVars
<1>7. ASSUME NEW r \in Runs, Fire(r) PROVE TypeOK'
  BY <1>7 DEF Fire, TakeTrigger, bounds
<1>8. ASSUME NEW r \in Runs, NEW m \in Nodes, Recover(m, r) \/ RecoverLate(m, r) PROVE TypeOK'
  BY <1>8 DEF Recover, RecoverLate, Fault, runVars, bounds
<1>9. ASSUME NEW r \in Runs, NextOrder(r) PROVE TypeOK'
  BY <1>9 DEF NextOrder, storeVars, bounds
<1>10. ASSUME NEW r \in Runs, Publish(r) PROVE TypeOK'
  BY <1>10 DEF Publish, Send, storeVars, bounds
<1>11. ASSUME NEW r \in Runs, Return(r) PROVE TypeOK'
  BY <1>11 DEF Return, EndRun, bounds
<1>12. ASSUME NEW r \in Runs, PublishThrows(r) PROVE TypeOK'
  BY <1>12 DEF PublishThrows, EndRun, Send, Fault, bounds
<1>13. CASE UNCHANGED vars
  BY <1>13 DEF vars, storeVars, runVars, bounds
<1> QED
  BY <1>1, <1>2, <1>3, <1>4, <1>5, <1>6, <1>7, <1>8, <1>9, <1>10, <1>11, <1>12, <1>13
  DEF Next, Node, Run

(* Rows are taken only when there is none, and given back only by their    *)
(* run's end or by a check-in.                                             *)
LEMMA RowStep == TypeOK /\ RunsHoldTheRow /\ OneRow /\ [Next]_vars => RunsHoldTheRow' /\ OneRow'
<1> SUFFICES ASSUME TypeOK, RunsHoldTheRow, OneRow, [Next]_vars PROVE RunsHoldTheRow' /\ OneRow'
  OBVIOUS
<1> USE DEF TypeOK, Running, RunsHoldTheRow, OneRow
<1>1. CASE TriggerNow
  BY <1>1 DEF TriggerNow, runVars
<1>2. ASSUME NEW n \in Nodes, Startup(n) \/ Shutdown(n) \/ Stopped(n) \/ Interrupt(n)
      PROVE RunsHoldTheRow' /\ OneRow'
  BY <1>2 DEF Startup, Shutdown, Stopped, Interrupt, storeVars, runVars
<1>3. ASSUME NEW n \in Nodes, Crash(n) PROVE RunsHoldTheRow' /\ OneRow'
  BY <1>3 DEF Crash, storeVars
<1>4. ASSUME NEW r \in Runs, Fire(r) PROVE RunsHoldTheRow' /\ OneRow'
  BY <1>4 DEF Fire
<1>5. ASSUME NEW r \in Runs, NEW m \in Nodes, Recover(m, r) \/ RecoverLate(m, r)
      PROVE RunsHoldTheRow' /\ OneRow'
  BY <1>5 DEF Recover, RecoverLate, runVars
<1>6. ASSUME NEW r \in Runs, NextOrder(r) \/ Publish(r) PROVE RunsHoldTheRow' /\ OneRow'
  BY <1>6 DEF NextOrder, Publish, storeVars
<1>7. ASSUME NEW r \in Runs, Return(r) \/ PublishThrows(r) PROVE RunsHoldTheRow' /\ OneRow'
  BY <1>7 DEF Return, PublishThrows, EndRun
<1>8. CASE UNCHANGED vars
  BY <1>8 DEF vars, storeVars, runVars
<1> QED
  BY <1>1, <1>2, <1>3, <1>4, <1>5, <1>6, <1>7, <1>8 DEF Next, Node, Run

(* A process counts before it sends, one run at a time, and its counter    *)
(* never goes back while it lives.                                         *)
LEMMA CounterStep == TypeOK /\ Counting /\ [Next]_vars => Counting'
<1> SUFFICES ASSUME TypeOK, Counting, [Next]_vars PROVE Counting'
  OBVIOUS
<1>0. \A r \in Runs : Host(r) \in Nodes
  BY Hosts
<1> USE <1>0 DEF TypeOK, Counting, SentWasCounted, OrdersAreCounted, OrdersDiffer, Publishing,
                OrderIdsOncePerProcess
<1>1. CASE TriggerNow
  BY <1>1 DEF TriggerNow, runVars
<1>2. ASSUME NEW n \in Nodes, Startup(n) PROVE Counting'
  <2>1. \A r \in Runs : Host(r) = n => relay[r] = "none"
    BY <1>2 DEF Startup, Running
  <2>2. QED
    BY <1>2, <2>1 DEF Startup
<1>3. ASSUME NEW n \in Nodes, Shutdown(n) \/ Stopped(n) \/ Interrupt(n) PROVE Counting'
  BY <1>3 DEF Shutdown, Stopped, Interrupt, runVars
<1>4. ASSUME NEW n \in Nodes, Crash(n) PROVE Counting'
  BY <1>4 DEF Crash
<1>5. ASSUME NEW r \in Runs, Fire(r) PROVE Counting'
  BY <1>5 DEF Fire
<1>6. ASSUME NEW r \in Runs, NEW m \in Nodes, Recover(m, r) \/ RecoverLate(m, r) PROVE Counting'
  BY <1>6 DEF Recover, RecoverLate, runVars
<1>7. ASSUME NEW r \in Runs, NextOrder(r) PROVE Counting'
  <2>1. /\ lastOrderId' = [lastOrderId EXCEPT ![Host(r)] = @ + 1]
        /\ order' = [order EXCEPT ![r] = lastOrderId[Host(r)] + 1]
        /\ relay' = [relay EXCEPT ![r] = "publishing"] /\ sent' = sent
    BY <1>7 DEF NextOrder
  <2>2. QED
    BY <2>1
<1>8. ASSUME NEW r \in Runs, Publish(r) PROVE Counting'
  BY <1>8 DEF Publish, Send
<1>9. ASSUME NEW r \in Runs, Return(r) \/ PublishThrows(r) PROVE Counting'
  BY <1>9 DEF Return, PublishThrows, EndRun, Send
<1>10. CASE UNCHANGED vars
  BY <1>10 DEF vars, runVars
<1> QED
  BY <1>1, <1>2, <1>3, <1>4, <1>5, <1>6, <1>7, <1>8, <1>9, <1>10 DEF Next, Node, Run

(* The three parts hold initially and every step keeps them.               *)
THEOREM Invariance == Spec => []IInv
<1>0. Init => FlagsOK
  BY Zenon DEF Init, FlagsOK
<1>1. Init => IInv
  BY <1>0 DEF Init, IInv, TypeOK, Running, RunsHoldTheRow, OneRow, Counting, SentWasCounted,
              OrdersAreCounted, OrdersDiffer, Publishing, OrderIdsOncePerProcess
<1>2. IInv /\ [Next]_vars => IInv'
  BY TypeStep, RowStep, CounterStep DEF IInv
<1> QED
  BY <1>1, <1>2, PTL DEF Spec

(* Type correctness, with runs only in processes that are up.              *)
THEOREM TypeCorrect == Spec => []TypeOK
<1>1. IInv => TypeOK
  BY DEF IInv
<1> QED
  BY <1>1, Invariance, PTL

(* At most one relay runs in the cluster unless a live node was taken for  *)
(* dead: for any number of nodes, crashes, restarts and triggers.          *)
THEOREM AtMostOneRelay == Spec => []OneRelayPerCluster
<1>1. IInv => OneRelayPerCluster
  BY DEF IInv, RunsHoldTheRow, OneRow, OneRelayPerCluster, Running
<1> QED
  BY <1>1, Invariance, PTL

(* No process publishes an order id twice, however many runs it has.       *)
THEOREM IdsOncePerProcess == Spec => []OrderIdsOncePerProcess
<1>1. IInv => OrderIdsOncePerProcess
  BY DEF IInv, Counting
<1> QED
  BY <1>1, Invariance, PTL
=============================================================================
