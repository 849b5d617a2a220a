----------------------------- MODULE RelayCluster -----------------------------
(***************************************************************************)
(* The outbox relay of src/QuartzNetAspire, Team A: one long-running job,  *)
(* outbox-relay, in a cluster of scheduled-worker processes that share a   *)
(* Quartz job store in SQL Server, operated from the central dashboard.    *)
(*                                                                         *)
(* Quartz is outside the repository.  Its clustered store is modelled as   *)
(* the configuration and HowItWasBuilt.md use it: a trigger of a job that  *)
(* disallows concurrent execution is BLOCKED while any run of the job has  *)
(* a fired row; the row of a process that died stays until a live node     *)
(* misses its check-ins and removes it; without RequestRecovery the lost   *)
(* run is not repeated.  A node that is alive but late with its check-in   *)
(* cannot be told from a dead one: its run goes on without the row, and    *)
(* the next one may start on any node, the same process included.          *)
(***************************************************************************)
EXTENDS Naturals

CONSTANTS Nodes,      \* scheduled-worker processes, by instance
          MaxRuns,    \* bound on runs of Execute one process has at a time
          MaxId,      \* bound on order ids of one process
          MaxStarts,  \* bound on process starts
          MaxOps,     \* bound on dashboard operations
          MaxFaults   \* bound on failed publishes and late check-ins

ASSUME BoundsAssumption == {MaxRuns, MaxId, MaxStarts, MaxOps, MaxFaults} \subseteq Nat

VARIABLES
  up,           \* node -> "down", "up" or "stopping"
  startTrigger, \* outbox-relay-start is stored and has not fired
  nowTriggers,  \* stored triggers from the dashboard's Trigger now
  fired,        \* runs with a fired row of outbox-relay in the store
  relay,        \* run -> where its Execute is, or "none"
  order,        \* run -> id of the order it publishes, 0 between orders
  cancelled,    \* runs whose cancellation token has fired
  lastOrderId,  \* node -> the static counter of the process
  sent,         \* node -> ids its process brought to RabbitMQ (history)
  interrupted,  \* Interrupt came after the last start or Trigger now (history)
  late,         \* a live node was once taken for dead (history)
  starts, ops, faults

storeVars == <<startTrigger, nowTriggers, fired>>
runVars == <<relay, order, cancelled, lastOrderId, sent>>
bounds == <<starts, ops, faults>>
vars == <<up, storeVars, runVars, interrupted, late, bounds>>

\* The runs of Execute, a process having room for MaxRuns of them.
Runs == Nodes \X (1 .. MaxRuns)
Host(r) == r[1]
Running == {r \in Runs : relay[r] # "none"}
RunsOf(n) == {r \in Running : Host(r) = n}
Live == {n \in Nodes : up[n] = "up"}

\* A run that begins takes the first place free in its process.
FirstFree(r) == /\ relay[r] = "none"
                /\ \A k \in 1 .. r[2] - 1 : relay[<<Host(r), k>>] # "none"

Init == /\ up = [n \in Nodes |-> "down"]
        /\ startTrigger = FALSE /\ nowTriggers = 0 /\ fired = {}
        /\ relay = [r \in Runs |-> "none"]
        /\ order = [r \in Runs |-> 0]
        /\ cancelled = {}
        /\ lastOrderId = [n \in Nodes |-> 0]
        /\ sent = [n \in Nodes |-> {}]
        /\ interrupted = FALSE /\ late = FALSE
        /\ starts = 0 /\ ops = 0 /\ faults = 0

Fault == faults < MaxFaults /\ faults' = faults + 1 /\ UNCHANGED <<starts, ops>>
-----------------------------------------------------------------------------
(***************************************************************************)
(* The worker process and its scheduler.                                   *)
(***************************************************************************)
\* The job is durable; its StartNow trigger is stored again on every startup,
\* in the place of one that has not fired yet.
Startup(n) == /\ up[n] = "down"
              /\ starts < MaxStarts
              /\ starts' = starts + 1
              /\ up' = [up EXCEPT ![n] = "up"]
              /\ startTrigger' = TRUE
              /\ lastOrderId' = [lastOrderId EXCEPT ![n] = 0]
              /\ sent' = [sent EXCEPT ![n] = {}]
              /\ interrupted' = FALSE
              /\ UNCHANGED <<nowTriggers, fired, relay, order, cancelled, late, ops, faults>>

TakeTrigger == \/ /\ startTrigger /\ startTrigger' = FALSE
                  /\ UNCHANGED nowTriggers
               \/ /\ nowTriggers > 0 /\ nowTriggers' = nowTriggers - 1
                  /\ UNCHANGED startTrigger

\* Mutant of Fire: the job lacks [DisallowConcurrentExecution].
FireConcurrently(r) == /\ up[Host(r)] = "up" /\ FirstFree(r)
                       /\ TakeTrigger
                       /\ fired' = fired \cup {r}
                       /\ relay' = [relay EXCEPT ![r] = "delaying"]
                       /\ UNCHANGED <<up, order, cancelled, lastOrderId, sent, interrupted, late, bounds>>

\* A node acquires a trigger that is not BLOCKED and begins to execute the job.
Fire(r) == /\ up[Host(r)] = "up" /\ FirstFree(r)
           /\ fired = {}
           /\ TakeTrigger
           /\ fired' = {r}
           /\ relay' = [relay EXCEPT ![r] = "delaying"]
           /\ UNCHANGED <<up, order, cancelled, lastOrderId, sent, interrupted, late, bounds>>

\* Mutant of Recover: a restarted instance waits for another to clean up after it.
RecoverOthers(m, r) == /\ m \in Live \ {Host(r)} /\ r \in fired \ Running
                       /\ fired' = fired \ {r}
                       /\ UNCHANGED <<up, startTrigger, nowTriggers, runVars, interrupted, late, bounds>>

\* Cluster check-in removes the row of an instance whose run is gone ...
Recover(m, r) == /\ m \in Live /\ r \in fired \ Running
                 /\ fired' = fired \ {r}
                 /\ UNCHANGED <<up, startTrigger, nowTriggers, runVars, interrupted, late, bounds>>

\* ... or of one that still runs and was too late to check in.
RecoverLate(m, r) == /\ m \in Live \ {Host(r)} /\ r \in fired \cap Running
                     /\ Fault
                     /\ fired' = fired \ {r}
                     /\ late' = TRUE
                     /\ UNCHANGED <<up, startTrigger, nowTriggers, runVars, interrupted>>

\* Mutant of Shutdown: the scheduler waits without firing the tokens.
ShutdownUntold(n) == /\ up[n] = "up"
                     /\ up' = [up EXCEPT ![n] = "stopping"]
                     /\ UNCHANGED <<storeVars, runVars, interrupted, late, bounds>>

\* SIGTERM: the scheduler fires the tokens of its jobs and waits for them.
Shutdown(n) == /\ up[n] = "up"
               /\ up' = [up EXCEPT ![n] = "stopping"]
               /\ cancelled' = cancelled \cup RunsOf(n)
               /\ UNCHANGED <<storeVars, relay, order, lastOrderId, sent, interrupted, late, bounds>>

Stopped(n) == /\ up[n] = "stopping" /\ RunsOf(n) = {}
              /\ up' = [up EXCEPT ![n] = "down"]
              /\ UNCHANGED <<storeVars, runVars, interrupted, late, bounds>>

\* Mutant of Crash: the runs go on without their process.
CrashKeepsRun(n) == /\ up[n] # "down"
                    /\ up' = [up EXCEPT ![n] = "down"]
                    /\ UNCHANGED <<storeVars, runVars, interrupted, late, bounds>>

\* A hard kill leaves the fired row behind.
Crash(n) == /\ up[n] # "down"
            /\ up' = [up EXCEPT ![n] = "down"]
            /\ relay' = [r \in Runs |-> IF Host(r) = n THEN "none" ELSE relay[r]]
            /\ order' = [r \in Runs |-> IF Host(r) = n THEN 0 ELSE order[r]]
            /\ cancelled' = cancelled \ RunsOf(n)
            /\ UNCHANGED <<storeVars, lastOrderId, sent, interrupted, late, bounds>>
-----------------------------------------------------------------------------
(***************************************************************************)
(* OutboxRelayJob.Execute, run r.                                          *)
(***************************************************************************)
\* The pause elapses, the loop takes the next id and calls PublishAsync.
NextOrder(r) ==
  /\ relay[r] = "delaying" /\ r \notin cancelled
  /\ lastOrderId[Host(r)] < MaxId
  /\ lastOrderId' = [lastOrderId EXCEPT ![Host(r)] = @ + 1]
  /\ order' = [order EXCEPT ![r] = lastOrderId[Host(r)] + 1]
  /\ relay' = [relay EXCEPT ![r] = "publishing"]
  /\ UNCHANGED <<up, storeVars, cancelled, sent, interrupted, late, bounds>>

\* Mutant of Send: the message is built from the counter as it is by now.
SendCounter(r) == sent' = [sent EXCEPT ![Host(r)] = @ \cup {lastOrderId[Host(r)]}]

Send(r) == sent' = [sent EXCEPT ![Host(r)] = @ \cup {order[r]}]

\* The broker confirms; the loop goes on and looks at its token again.
Publish(r) == /\ relay[r] = "publishing"
              /\ Send(r)
              /\ relay' = [relay EXCEPT ![r] = "delaying"]
              /\ order' = [order EXCEPT ![r] = 0]
              /\ UNCHANGED <<up, storeVars, cancelled, lastOrderId, interrupted, late, bounds>>

\* Execute ends, and the scheduler completes the trigger and its fired row.
EndRun(r) == /\ relay' = [relay EXCEPT ![r] = "none"]
             /\ order' = [order EXCEPT ![r] = 0]
             /\ cancelled' = cancelled \ {r}
             /\ fired' = fired \ {r}
             /\ UNCHANGED <<up, startTrigger, nowTriggers, lastOrderId, interrupted, late>>

\* The token ends the pause or the loop.
Return(r) == /\ relay[r] = "delaying" /\ r \in cancelled
             /\ EndRun(r)
             /\ UNCHANGED <<sent, bounds>>

\* PublishAsync throws out of Execute: its token has fired, or the broker failed
\* or did not confirm.  Either way the message may have arrived.
PublishThrows(r) == /\ relay[r] = "publishing"
                    /\ IF r \in cancelled THEN UNCHANGED bounds ELSE Fault
                    /\ Send(r) \/ UNCHANGED sent
                    /\ EndRun(r)
-----------------------------------------------------------------------------
(***************************************************************************)
(* The dashboard.                                                          *)
(***************************************************************************)
Operate == ops < MaxOps /\ ops' = ops + 1 /\ UNCHANGED <<starts, faults>>

\* Interrupt goes through the agent of one node, to what it executes of the job.
Interrupt(n) == /\ RunsOf(n) # {}
                /\ Operate
                /\ cancelled' = cancelled \cup RunsOf(n)
                /\ interrupted' = TRUE
                /\ UNCHANGED <<up, storeVars, relay, order, lastOrderId, sent, late>>

\* The dashboard is attached to the store, where the job is from the first
\* startup on: no node has to be up.
TriggerNow == /\ starts > 0
              /\ Operate
              /\ nowTriggers' = nowTriggers + 1
              /\ interrupted' = FALSE
              /\ UNCHANGED <<up, startTrigger, fired, runVars, late>>
-----------------------------------------------------------------------------
Run(r) == \/ Fire(r) \/ \E m \in Nodes : Recover(m, r) \/ RecoverLate(m, r)
          \/ NextOrder(r) \/ Publish(r) \/ Return(r) \/ PublishThrows(r)

Node(n) == Startup(n) \/ Shutdown(n) \/ Stopped(n) \/ Crash(n) \/ Interrupt(n)

Next == TriggerNow \/ (\E n \in Nodes : Node(n)) \/ (\E r \in Runs : Run(r))

Spec == Init /\ [][Next]_vars

\* The scheduler threads of a live process run, check-ins come, and a call in
\* progress ends; nobody has to start a process or press a button.
FairSpec == /\ Spec
            /\ \A n \in Nodes : WF_vars(Stopped(n))
            /\ WF_vars(\E r \in Runs : Fire(r))
            /\ \A r \in Runs : /\ WF_vars(\E m \in Nodes : Recover(m, r))
                               /\ WF_vars(Publish(r) \/ PublishThrows(r) \/ Return(r))
-----------------------------------------------------------------------------
FlagsOK == startTrigger \in BOOLEAN /\ interrupted \in BOOLEAN /\ late \in BOOLEAN

TypeOK == /\ FlagsOK
          /\ up \in [Nodes -> {"down", "up", "stopping"}]
          /\ nowTriggers \in Nat
          /\ fired \subseteq Runs
          /\ relay \in [Runs -> {"none", "delaying", "publishing"}]
          /\ order \in [Runs -> Nat]
          /\ cancelled \subseteq Running
          /\ \A r \in Running : up[Host(r)] # "down"
          /\ lastOrderId \in [Nodes -> Nat]
          /\ sent \in [Nodes -> SUBSET Nat]
          /\ starts \in Nat /\ ops \in Nat /\ faults \in Nat

(* "The clustered persistent store plus [DisallowConcurrentExecution]      *)
(* guarantees at most one relay per cluster" (Program.cs:58-59): through   *)
(* crashes, restarts and repeated triggers, unless a node that still runs  *)
(* was taken for dead.                                                     *)
OneRelayPerCluster == ~late => \A q, r \in Running : q = r

(* A process never publishes an order id twice, however often its relay    *)
(* was interrupted, failed and was triggered again, and even while a late  *)
(* check-in lets two runs in it count with the same static counter.        *)
OrderIdsOncePerProcess ==
  \A r \in Runs : relay[r] = "publishing" => order[r] \notin sent[Host(r)]

(* "A restarted process restarts the relay": a stored trigger never waits  *)
(* for ever behind the row of a dead process.                              *)
WaitingRunStarts == startTrigger \/ nowTriggers > 0 ~> Running # {} \/ Live = {}

(* "WaitForJobsToComplete = true lets a SIGTERM finish the run cleanly":   *)
(* the wait ends, wherever the relay's loop was.                           *)
ShutdownCompletes == \A n \in Nodes : up[n] = "stopping" ~> up[n] # "stopping"

(* OutboxRelayJob.cs:10: the job "Runs until the job's cancellation token  *)
(* fires": in a process that lives on, Execute ends only after that.       *)
RunsUntilCancelled ==
  [][\A r \in Running : relay'[r] = "none"
                         => r \in cancelled \/ up'[Host(r)] = "down"]_vars

(* README.md:75: "Interrupt stops publishing", until a Trigger now or a    *)
(* restart: no relay runs whose token has not fired.                       *)
InterruptStops == interrupted => Running \subseteq cancelled
=============================================================================
