---------------------------- MODULE ReconnectProofs ----------------------------
(***************************************************************************)
(* Safety of the reconnection dialog for any number of overlapping calls.  *)
(***************************************************************************)
EXTENDS Reconnect, TLAPS

Quiet == \A c \in Calls : call[c] = "idle"

\* What an invocation of retry awaits, or is about to throw.
Retrying == {"reconnect", "resume", "failing"}

\* Nothing of the old page is left while a new one loads.
Gone == page = "reloading" => Quiet /\ dialog = "closed" /\ listening = "no"

\* Without overlaps, the ways back exclude each other: Blazor's attempts, one
\* call, or the listener.
OneWayBack ==
  overlapped = "no" =>
    /\ \A c, d \in Calls : call[c] # "idle" /\ call[d] # "idle" => c = d
    /\ ~ Quiet => listening = "no"
    /\ circuit = "connected" \/ auto = "trying" => Quiet /\ listening = "no"
    /\ circuit = "paused" => /\ listening = "no"
                             /\ \A c \in Calls : call[c] \notin Retrying

\* Blazor tries, or has tried, only to bring back a circuit not paused.
TriesWhenDown == auto # "idle" => circuit \in {"kept", "lost"}

\* While the circuit is connected the server is up, and an invocation beyond
\* reconnect was outrun.
OthersOutrun ==
  circuit = "connected" =>
    /\ server = "up"
    /\ \A c \in Calls : call[c] \in {"idle", "reconnect"} \/ c \in outrun

Inv == TypeOK /\ Gone /\ OneWayBack /\ TriesWhenDown /\ NeverStuck

(* Nothing runs when every call is idle.                                   *)
LEMMA RunningQuiet == (Running = {} <=> Quiet) /\ (Running' = {} <=> Quiet')
BY DEF Running, Quiet

(* Every step keeps each variable in its type.                             *)
LEMMA TypeStep == TypeOK /\ [Next]_vars => TypeOK'
<1> SUFFICES ASSUME TypeOK, [Next]_vars PROVE TypeOK'
  OBVIOUS
<1> USE DEF TypeOK, world, script, history, Stages, Reload, Show, Hide, Failed, Rejected, ReturnsTo, Up,
            Invoke, Retry, Resume, Running
<1>1. CASE Drops
  BY <1>1 DEF Drops
<1>2. CASE Evicts \/ ServerFails \/ ServerReturns \/ BecomesHidden
  BY <1>2 DEF Evicts, ServerFails, ServerReturns, BecomesHidden
<1>3. CASE BecomesVisible
  BY <1>3 DEF BecomesVisible
<1>4. CASE AutoEnds \/ Loads
  BY <1>4 DEF AutoEnds, Loads
<1>5. ASSUME NEW c \in Calls, ClickRetry(c) \/ ClickResume(c) PROVE TypeOK'
  BY <1>5 DEF ClickRetry, ClickResume
<1>6. ASSUME NEW c \in Calls, ReconnectReturns(c) PROVE TypeOK'
  BY <1>6 DEF ReconnectReturns
<1>7. ASSUME NEW c \in Calls, ResumeReturns(c) PROVE TypeOK'
  BY <1>7 DEF ResumeReturns
<1>8. ASSUME NEW c \in Calls, Misses(c) \/ Throws(c) PROVE TypeOK'
  BY <1>8 DEF Misses, Throws
<1>9. CASE UNCHANGED vars
  BY <1>9 DEF vars
<1>10. QED
  BY <1>1, <1>2, <1>3, <1>4, <1>5, <1>6, <1>7, <1>8, <1>9 DEF Next, World, Returns

(* Starting a call takes the listener away and leaves one way back.        *)
LEMMA InvokeStep ==
  ASSUME Inv, NEW c \in Calls, NEW x \in Stages \ {"idle"}, Invoke(c, x),
         page = "here", UNCHANGED <<world, page, dialog>>,
         overlapped = "no" =>
           /\ listening' = "no" /\ auto # "trying" /\ circuit # "connected"
           /\ (circuit = "paused" => x \notin Retrying)
  PROVE  Gone' /\ OneWayBack' /\ TriesWhenDown' /\ NeverStuck'
<1>1. /\ call \in [Calls -> Stages] /\ call[c] = "idle" /\ call' = [call EXCEPT ![c] = x]
      /\ Running = {} \/ overlapped' = "yes"
      /\ Running # {} \/ overlapped' = overlapped
  BY DEF Inv, TypeOK, Invoke
<1>2. ~ Quiet' /\ Running' # {}
  BY <1>1, RunningQuiet DEF Quiet
<1>3. Gone'
  BY DEF Gone
<1>4. OneWayBack'
  <2>1. CASE overlapped' = "yes"
    BY <2>1 DEF OneWayBack
  <2>2. CASE Quiet /\ overlapped' = overlapped
    <3>1. /\ circuit' = circuit /\ auto' = auto
          /\ \A d \in Calls : d # c => call'[d] = "idle"
          /\ call'[c] = x
      BY <1>1, <2>2 DEF Quiet, world
    <3>2. QED
      BY <2>2, <3>1 DEF OneWayBack, Retrying
  <2>3. QED
    BY <1>1, <2>1, <2>2, RunningQuiet
<1>5. NeverStuck'
  BY <1>2 DEF Inv, NeverStuck, world
<1>6. QED
  BY <1>3, <1>4, <1>5 DEF Inv, TriesWhenDown, world

(* Every step keeps one way back, and the dialog with the connection.      *)
LEMMA SafetyStep == Inv /\ [Next]_vars => Gone' /\ OneWayBack' /\ TriesWhenDown' /\ NeverStuck'
<1> SUFFICES ASSUME Inv, [Next]_vars
             PROVE  Gone' /\ OneWayBack' /\ TriesWhenDown' /\ NeverStuck'
  OBVIOUS
<1>0. call \in [Calls -> Stages] /\ TypeOK
  BY DEF Inv, TypeOK
<1> USE DEF Retrying, Gone, OneWayBack, TriesWhenDown, NeverStuck
<1>1. CASE Drops
  BY <1>1, RunningQuiet DEF Inv, Drops, Show, Quiet, history
<1>2. CASE Evicts \/ ServerFails \/ ServerReturns \/ BecomesHidden
  <2>1. /\ UNCHANGED <<auto, page, dialog, listening, call, overlapped>>
        /\ circuit' = circuit \/ (circuit = "kept" /\ circuit' = "lost")
    BY <1>2 DEF Evicts, ServerFails, ServerReturns, BecomesHidden, script, history, world
  <2>2. Running' = Running /\ (Quiet' <=> Quiet)
    BY <2>1 DEF Running, Quiet
  <2>3. Gone' /\ TriesWhenDown' /\ NeverStuck'
    BY <2>1, <2>2 DEF Inv
  <2>4. OneWayBack'
    BY <2>1, <2>2 DEF Inv
  <2>5. QED
    BY <2>3, <2>4
<1>3. CASE BecomesVisible
  <2>1. CASE UNCHANGED <<listening, call, history>>
    BY <1>3, <2>1, RunningQuiet DEF Inv, BecomesVisible, Quiet, world, history
  <2>2. ASSUME NEW c \in Calls, listening = "yes", Retry(c)
        PROVE  Gone' /\ OneWayBack' /\ TriesWhenDown' /\ NeverStuck'
    <3>1. Invoke(c, "reconnect") /\ listening' = "no"
      BY <2>2 DEF Retry
    <3>2. page = "here" /\ (overlapped = "no" => auto # "trying" /\ circuit \notin {"connected", "paused"})
      BY <1>0, <2>2 DEF Inv, TypeOK
    <3>3. UNCHANGED <<world, page, dialog>>
      BY <1>3 DEF BecomesVisible
    <3>4. QED
      BY <3>1, <3>2, <3>3, InvokeStep DEF Stages
  <2>3. QED
    BY <1>3, <2>1, <2>2 DEF BecomesVisible
<1>4. CASE AutoEnds
  <2>1. overlapped = "no" => Quiet /\ listening = "no"
    BY <1>4 DEF Inv, AutoEnds
  <2>2. CASE circuit' = "connected" /\ auto' = "idle" /\ Hide /\ UNCHANGED <<page, listening, call>>
    BY <1>4, <2>1, <2>2, RunningQuiet DEF Inv, AutoEnds, Hide, Quiet
  <2>3. CASE Rejected /\ auto' = "idle" /\ UNCHANGED circuit
    BY <1>4, <2>3, RunningQuiet DEF Inv, AutoEnds, Rejected, Reload, Quiet
  <2>4. CASE Failed /\ auto' = "failed" /\ UNCHANGED <<circuit, page, dialog, call>>
    BY <1>4, <2>1, <2>4, RunningQuiet DEF Inv, AutoEnds, Failed, Quiet
  <2>5. QED
    BY <1>4, <2>2, <2>3, <2>4 DEF AutoEnds
<1>5. CASE Loads
  BY <1>5, RunningQuiet DEF Inv, Loads, Quiet
<1>6. ASSUME NEW c \in Calls, ClickRetry(c)
      PROVE  Gone' /\ OneWayBack' /\ TriesWhenDown' /\ NeverStuck'
  <2>1. /\ Invoke(c, "reconnect") /\ listening' = "no" /\ page = "here"
        /\ UNCHANGED <<world, page, dialog>> /\ auto # "trying" /\ circuit \notin {"connected", "paused"}
    BY <1>6 DEF ClickRetry, Retry, Inv
  <2>2. QED
    BY <2>1, InvokeStep DEF Stages, Retrying
<1>7. ASSUME NEW c \in Calls, ClickResume(c)
      PROVE  Gone' /\ OneWayBack' /\ TriesWhenDown' /\ NeverStuck'
  <2>1. /\ Invoke(c, "resumeOnly") /\ page = "here" /\ circuit = "paused"
        /\ UNCHANGED <<world, page, dialog, listening>>
    BY <1>7 DEF ClickResume, Resume
  <2>2. auto # "trying" /\ (overlapped = "no" => listening = "no")
    BY <2>1 DEF Inv
  <2>3. QED
    BY <2>1, <2>2, InvokeStep DEF Stages, Retrying
<1>8. ASSUME NEW c \in Calls, ReconnectReturns(c) \/ ResumeReturns(c) \/ Misses(c) \/ Throws(c)
      PROVE  Gone' /\ OneWayBack' /\ TriesWhenDown' /\ NeverStuck'
  <2>1. /\ call[c] # "idle" /\ page = "here" /\ overlapped' = overlapped
        /\ overlapped = "no" => /\ listening = "no" /\ circuit # "connected" /\ auto # "trying"
                                /\ \A d \in Calls : d # c => call[d] = "idle"
    <3>1. call[c] # "idle" /\ overlapped' = overlapped
      BY <1>8 DEF ReconnectReturns, ResumeReturns, Misses, Throws, history
    <3>2. ~ Quiet
      BY <3>1 DEF Quiet
    <3>3. page = "here"
      BY <3>2, <1>0 DEF Inv, TypeOK
    <3>4. QED
      BY <3>1, <3>2, <3>3 DEF Inv
  <2>2. CASE Reload /\ UNCHANGED <<circuit, auto>>
    BY <2>1, <2>2, <1>0, RunningQuiet DEF Inv, Reload, Quiet
  <2>3. CASE Up(c)
    <3>1. overlapped = "no" => Quiet' /\ listening' = "no"
      BY <2>1, <2>3, <1>0 DEF Up, ReturnsTo, Quiet
    <3>2. circuit' = "connected" /\ auto' = "idle" /\ dialog' = "closed" /\ page' = "here"
      BY <2>1, <2>3 DEF Up, Hide
    <3>3. QED
      BY <2>1, <3>1, <3>2 DEF Inv, Quiet
  <2>4. CASE /\ \E x \in Stages \ {"idle"} : ReturnsTo(c, x) /\ (x \in Retrying => call[c] \in Retrying)
             /\ UNCHANGED <<circuit, auto, page, dialog, listening>>
    <3>1. /\ call'[c] # "idle" /\ (call'[c] \in Retrying => call[c] \in Retrying)
          /\ \A d \in Calls : d # c => call'[d] = call[d]
      BY <2>4, <1>0 DEF ReturnsTo
    <3>2. ~ Quiet' /\ Running' # {}
      BY <3>1, RunningQuiet DEF Quiet
    <3>3. QED
      BY <2>1, <2>4, <3>1, <3>2 DEF Inv, Quiet
  <2>5. CASE /\ ReturnsTo(c, "idle") /\ listening' = "yes" /\ call[c] \in Retrying
             /\ UNCHANGED <<circuit, auto, page, dialog>>
    <3>1. overlapped = "no" => Quiet'
      BY <2>1, <2>5, <1>0 DEF ReturnsTo, Quiet
    <3>2. circuit # "paused" \/ overlapped = "yes"
      BY <1>0, <2>5 DEF Inv, TypeOK
    <3>3. QED
      BY <2>1, <2>5, <3>1, <3>2 DEF Inv, Quiet
  <2>6. QED
    BY <1>8, <2>1, <2>2, <2>3, <2>4, <2>5
       DEF ReconnectReturns, ResumeReturns, Misses, Throws, world, Stages, Retrying
<1>9. CASE UNCHANGED vars
  BY <1>9, RunningQuiet DEF Inv, vars, world, script, history, Quiet
<1>10. QED
  BY <1>1, <1>2, <1>3, <1>4, <1>5, <1>6, <1>7, <1>8, <1>9 DEF Next, World, Returns

(* Every step keeps who may await what while the circuit is connected.     *)
LEMMA OutrunStep == Inv /\ OthersOutrun /\ [Next]_vars => OthersOutrun'
<1> SUFFICES ASSUME Inv, OthersOutrun, [Next]_vars PROVE OthersOutrun'
  OBVIOUS
<1>0. call \in [Calls -> Stages] /\ (page = "reloading" => Quiet /\ listening = "no")
  BY DEF Inv, TypeOK, Gone
<1>1. CASE Drops
  BY <1>1 DEF Drops, OthersOutrun
<1>2. CASE Evicts \/ ServerFails \/ ServerReturns \/ BecomesHidden
  BY <1>2 DEF Evicts, ServerFails, ServerReturns, BecomesHidden, world, script, history, OthersOutrun
<1>3. ASSUME NEW c \in Calls, NEW x \in {"reconnect", "resumeOnly"}, Invoke(c, x),
             UNCHANGED world, circuit = "connected" => x = "reconnect"
      PROVE  OthersOutrun'
  <2>1. /\ call'[c] = x /\ outrun' = outrun \ {c}
        /\ \A d \in Calls : d # c => call'[d] = call[d]
    BY <1>0, <1>3 DEF Invoke
  <2>2. QED
    BY <1>3, <2>1 DEF OthersOutrun, world
<1>4. CASE BecomesVisible
  <2>1. CASE UNCHANGED <<listening, call, history>>
    BY <1>4, <2>1 DEF BecomesVisible, world, history, OthersOutrun
  <2>2. QED
    BY <1>3, <1>4, <2>1 DEF BecomesVisible, Retry
<1>5. ASSUME NEW c \in Calls, ClickRetry(c) \/ ClickResume(c) PROVE OthersOutrun'
  BY <1>3, <1>5 DEF ClickRetry, ClickResume, Retry, Resume
<1>6. CASE AutoEnds
  <2>1. CASE circuit' = "connected" /\ server = "up" /\ outrun' = outrun \cup Running /\ call' = call
    BY <1>0, <1>6, <2>1 DEF AutoEnds, OthersOutrun, Running
  <2>2. CASE circuit' = circuit /\ circuit # "connected"
    BY <2>2 DEF OthersOutrun
  <2>3. QED
    BY <1>6, <2>1, <2>2 DEF AutoEnds, Inv, TriesWhenDown
<1>7. CASE Loads
  BY <1>0, <1>7 DEF Loads, Quiet, OthersOutrun
<1>8. ASSUME NEW c \in Calls, Returns(c) PROVE OthersOutrun'
  <2>1. CASE Up(c) /\ server' = server /\ server = "up"
    <3>1. /\ call'[c] = "idle" /\ outrun' = outrun \cup (Running \ {c})
          /\ \A d \in Calls : d # c => call'[d] = call[d]
      BY <1>0, <2>1 DEF Up, ReturnsTo
    <3>2. QED
      BY <2>1, <3>1 DEF OthersOutrun, Running
  <2>2. CASE /\ Reload \/ ReturnsTo(c, "idle")
             /\ UNCHANGED <<circuit, server, outrun>>
    <3>1. /\ call'[c] = "idle"
          /\ \A d \in Calls : call'[d] = call[d] \/ call'[d] = "idle"
      BY <1>0, <2>2 DEF Reload, ReturnsTo
    <3>2. QED
      BY <2>2, <3>1 DEF OthersOutrun
  <2>3. CASE circuit' = circuit /\ (circuit # "connected" \/ server = "down")
    BY <2>3 DEF OthersOutrun
  <2>4. QED
    BY <1>8, <2>1, <2>2, <2>3
       DEF Returns, ReconnectReturns, ResumeReturns, Misses, Throws, world, history
<1>9. CASE UNCHANGED vars
  BY <1>9 DEF vars, world, script, history, OthersOutrun
<1>10. QED
  BY <1>1, <1>2, <1>4, <1>5, <1>6, <1>7, <1>8, <1>9 DEF Next, World

(* A page with a connected circuit is reloaded only by a call that was     *)
(* outrun.                                                                 *)
LEMMA ReloadStep ==
  Inv /\ OthersOutrun /\ [Next]_vars =>
    (page = "here" /\ page' = "reloading" => circuit # "connected" \/ Running \cap outrun # {})
<1> SUFFICES ASSUME Inv, OthersOutrun, [Next]_vars, page = "here", page' = "reloading",
                    circuit = "connected"
             PROVE  Running \cap outrun # {}
  OBVIOUS
<1>1. ~ AutoEnds
  BY DEF Inv, TriesWhenDown, AutoEnds
<1>2. ASSUME NEW c \in Calls, Returns(c) PROVE call[c] \in Stages \ {"idle", "reconnect"}
  BY <1>2 DEF Returns, ReconnectReturns, ResumeReturns, Misses, Throws, Up, Stages
<1>3. (\E c \in Calls : Returns(c)) \/ Loads
  BY <1>1 DEF Next, World, vars, Drops, Evicts, ServerFails, ServerReturns, BecomesHidden,
              BecomesVisible, ClickRetry, ClickResume
<1>4. ~ Loads
  BY DEF Loads
<1>5. QED
  BY <1>2, <1>3, <1>4 DEF OthersOutrun, Running

(* The invariant holds at first.                                           *)
LEMMA InvFromInit == Init => Inv /\ OthersOutrun
<1> SUFFICES ASSUME Init PROVE Inv /\ OthersOutrun
  OBVIOUS
<1>1. TypeOK /\ Quiet
  BY DEF Init, TypeOK, Stages, Quiet
<1>2. QED
  BY <1>1, RunningQuiet DEF Init, Inv, Gone, OneWayBack, TriesWhenDown, NeverStuck, OthersOutrun, Quiet

(* It holds always.                                                        *)
LEMMA InvAlways == Spec => [](Inv /\ OthersOutrun)
<1>1. Inv /\ OthersOutrun /\ [Next]_vars => Inv' /\ OthersOutrun'
  BY TypeStep, SafetyStep, OutrunStep DEF Inv
<1>2. QED
  BY <1>1, InvFromInit, PTL DEF Spec

(* While the connection is down the dialog is open and something leads out *)
(* of it; and a connected page does not listen for its return, unless      *)
(* calls overlapped.                                                       *)
THEOREM DialogSafety == Spec => [](TypeOK /\ NeverStuck /\ NoStaleListener)
<1>1. Inv => TypeOK /\ NeverStuck /\ NoStaleListener
  BY DEF Inv, TypeOK, OneWayBack, NoStaleListener
<1>2. QED
  BY <1>1, InvAlways, PTL

(* A page whose circuit is connected is thrown away only by a call that    *)
(* was under way when the circuit came back otherwise.                     *)
THEOREM CircuitKept == Spec => LiveCircuitIsKept
<1>1. Inv /\ OthersOutrun /\ [Next]_vars =>
        [page = "here" /\ page' = "reloading" => circuit # "connected" \/ Running \cap outrun # {}]_vars
  BY ReloadStep
<1>2. QED
  BY <1>1, InvAlways, PTL DEF Spec, LiveCircuitIsKept

(* The page never shows a dialog that leads nowhere: while the circuit is  *)
(* gone, some try is under way or some way back is open.                   *)
THEOREM AlwaysAWayBack == Spec => []NeverStuck
BY DialogSafety, PTL

(* On a connected page no listener of an earlier disconnection is left.    *)
THEOREM ListenersEnd == Spec => []NoStaleListener
BY DialogSafety, PTL
=============================================================================
