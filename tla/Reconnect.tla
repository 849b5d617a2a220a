------------------------------- MODULE Reconnect -------------------------------
(***************************************************************************)
(* The reconnection dialog of src/Azure/EntraAuthBlazor10SI: the script    *)
(* ReconnectModal.razor.js between the user, the document and Blazor.      *)
(*                                                                         *)
(* blazor.web.js and the server are outside the repository.  They are      *)
(* modelled from the events and results the script handles: a lost         *)
(* connection shows the dialog and starts Blazor's own attempts, which     *)
(* end in "hide", "rejected" or "failed"; reconnect and resumeCircuit      *)
(* return true (the circuit is back, Blazor says "hide"), return false     *)
(* (the server answered without a circuit), or throw (it was not reached,  *)
(* which may be noticed late).  Of two overlapping resumeCircuit calls the *)
(* second may get either result.  That Blazor says "hide" is what closes   *)
(* the dialog after a click on resume, whose handler never closes it.      *)
(***************************************************************************)
EXTENDS Naturals

CONSTANT Calls   \* invocations of retry and resume that may run at a time

VARIABLES
  circuit,    \* "connected", "kept" or "lost" by the server, or "paused" by it
  server,     \* "up" or "down"
  auto,       \* Blazor's own attempts: "idle", "trying" or "failed"
  document,   \* its visibilityState: "visible" or "hidden"
  page,       \* "here", or "reloading" after location.reload
  dialog,     \* "open" or "closed"
  listening,  \* the visibilitychange listener: "yes" or "no"
  call,       \* invocation -> what it awaits
  overlapped, \* "yes" once two invocations ran at the same time (history)
  outrun      \* invocations during which the circuit came back otherwise (history)

world == <<circuit, server, auto>>
history == <<overlapped, outrun>>
script == <<dialog, listening, call, history>>
vars == <<world, document, page, script>>

\* retry awaits reconnect, then resumeCircuit; resume awaits resumeCircuit
\* only; "failing" calls have not reached the server and are about to throw.
Stages == {"idle", "reconnect", "resume", "failing", "resumeOnly", "failingOnly"}
Running == {c \in Calls : call[c] # "idle"}

Init == /\ circuit = "connected" /\ server = "up" /\ auto = "idle"
        /\ document = "visible" /\ page = "here"
        /\ dialog = "closed" /\ listening = "no" /\ overlapped = "no" /\ outrun = {}
        /\ call = [c \in Calls |-> "idle"]
-----------------------------------------------------------------------------
(***************************************************************************)
(* The script.                                                             *)
(***************************************************************************)
Reload == /\ page' = "reloading"
          /\ call' = [c \in Calls |-> "idle"]
          /\ dialog' = "closed" /\ listening' = "no"

\* handleReconnectStateChanged, by the state of the event.
Show == dialog' = "open"

\* Mutant of Hide: the dialog stays open.
HideNothing == UNCHANGED dialog

\* Mutant of Hide: a state the dialog does not have.
HideAway == dialog' = "hidden"

Hide == dialog' = "closed"
Failed == listening' = "yes"
Rejected == Reload

Invoke(c, stage) == /\ call[c] = "idle"
                    /\ call' = [call EXCEPT ![c] = stage]
                    /\ overlapped' = IF Running = {} THEN overlapped ELSE "yes"
                    /\ outrun' = outrun \ {c}

\* Mutant of Retry: the listener is not removed first.
RetryListens(c) == Invoke(c, "reconnect") /\ UNCHANGED listening

Retry(c) == /\ listening' = "no"
            /\ Invoke(c, "reconnect")

Resume(c) == Invoke(c, "resumeOnly") /\ UNCHANGED listening

ClickRetry(c) == /\ page = "here" /\ dialog = "open" /\ auto = "failed"
                 /\ Retry(c)
                 /\ UNCHANGED <<world, document, page, dialog>>

ClickResume(c) == /\ page = "here" /\ dialog = "open" /\ circuit = "paused"
                  /\ Resume(c)
                  /\ UNCHANGED <<world, document, page, dialog>>

BecomesHidden == /\ document = "visible" /\ document' = "hidden"
                 /\ UNCHANGED <<world, page, script>>

\* Calls bounds the invocations: the user does not come back to a page that
\* listens while all of them run.
BecomesVisible == /\ document = "hidden" /\ document' = "visible"
                  /\ IF listening = "yes"
                       THEN \E c \in Calls : Retry(c)
                       ELSE UNCHANGED <<listening, call, history>>
                  /\ UNCHANGED <<world, page, dialog>>

ReturnsTo(c, stage) == call' = [call EXCEPT ![c] = stage]

\* Mutant of Throws: the catch block does not listen again.
ThrowsQuietly(c) == /\ \/ call[c] = "failing" /\ ReturnsTo(c, "idle")
                          /\ UNCHANGED <<page, dialog, listening>>
                       \/ call[c] = "failingOnly" /\ Reload
                    /\ UNCHANGED <<world, document, history>>

\* The catch blocks: retry waits for the user to come back, resume reloads.
Throws(c) == /\ \/ call[c] = "failing" /\ ReturnsTo(c, "idle") /\ listening' = "yes"
                   /\ UNCHANGED <<page, dialog>>
                \/ call[c] = "failingOnly" /\ Reload
             /\ UNCHANGED <<world, document, history>>

\* The circuit is back, and Blazor says so before it returns true.
Up(c) == /\ circuit' = "connected" /\ auto' = "idle"
         /\ Hide /\ ReturnsTo(c, "idle")
         /\ outrun' = outrun \cup (Running \ {c})
         /\ UNCHANGED <<page, listening>>

\* Mutant of ReconnectReturns: the result of reconnect is not negated.
ReconnectReturnsUnchecked(c) ==
  /\ call[c] = "reconnect" /\ server = "up"
  /\ \/ circuit \in {"kept", "connected"} /\ circuit' = "connected" /\ auto' = "idle"
        /\ Hide /\ ReturnsTo(c, "resume") /\ UNCHANGED <<page, listening, outrun>>
     \/ circuit \in {"lost", "paused"} /\ ReturnsTo(c, "idle")
        /\ UNCHANGED <<circuit, auto, page, dialog, listening, outrun>>
  /\ UNCHANGED <<server, document, overlapped>>

ReconnectReturns(c) ==
  /\ call[c] = "reconnect" /\ server = "up"
  /\ \/ circuit \in {"kept", "connected"} /\ Up(c)
     \/ circuit \in {"lost", "paused"} /\ ReturnsTo(c, "resume")
        /\ UNCHANGED <<circuit, auto, page, dialog, listening, outrun>>
  /\ UNCHANGED <<server, document, overlapped>>

ResumeReturns(c) ==
  /\ call[c] \in {"resume", "resumeOnly"} /\ server = "up"
  /\ Up(c) \/ (Reload /\ UNCHANGED <<circuit, auto, outrun>>)
  /\ UNCHANGED <<server, document, overlapped>>

\* The server is not reached.
Misses(c) == /\ server = "down"
             /\ \/ call[c] \in {"reconnect", "resume"} /\ ReturnsTo(c, "failing")
                \/ call[c] = "resumeOnly" /\ ReturnsTo(c, "failingOnly")
             /\ UNCHANGED <<world, document, page, dialog, listening, history>>

Returns(c) == ReconnectReturns(c) \/ ResumeReturns(c) \/ Misses(c) \/ Throws(c)
-----------------------------------------------------------------------------
(***************************************************************************)
(* Blazor, the server and the browser.                                     *)
(***************************************************************************)
Drops == /\ page = "here" /\ circuit = "connected"
         /\ \/ circuit' = "kept" /\ auto' = "trying"
            \/ circuit' = "paused" /\ UNCHANGED auto
         /\ Show
         /\ UNCHANGED <<server, document, page, listening, call, history>>

Evicts == /\ circuit = "kept" /\ circuit' = "lost"
          /\ UNCHANGED <<server, auto, document, page, script>>

ServerFails == /\ server = "up" /\ circuit # "connected" /\ server' = "down"
               /\ UNCHANGED <<circuit, auto, document, page, script>>

ServerReturns == /\ server = "down" /\ server' = "up"
                 /\ UNCHANGED <<circuit, auto, document, page, script>>

\* A call of the script may have brought the circuit back meanwhile.
AutoEnds == /\ page = "here" /\ auto = "trying"
            /\ \/ /\ server = "up" /\ circuit = "kept"
                  /\ circuit' = "connected" /\ auto' = "idle" /\ Hide
                  /\ outrun' = outrun \cup Running
                  /\ UNCHANGED <<page, listening, call>>
               \/ /\ server = "up" /\ circuit = "lost" /\ Rejected
                  /\ auto' = "idle" /\ UNCHANGED <<circuit, outrun>>
               \/ /\ server = "down" /\ Failed /\ auto' = "failed"
                  /\ UNCHANGED <<circuit, page, dialog, call, outrun>>
            /\ UNCHANGED <<server, document, overlapped>>

Loads == /\ page = "reloading" /\ server = "up"
         /\ circuit' = "connected" /\ auto' = "idle" /\ page' = "here"
         /\ overlapped' = "no" /\ outrun' = {}
         /\ UNCHANGED <<server, document, dialog, listening, call>>

World == Drops \/ Evicts \/ ServerFails \/ ServerReturns \/ BecomesHidden \/ BecomesVisible

Next == \/ World \/ AutoEnds \/ Loads
        \/ \E c \in Calls : ClickRetry(c) \/ ClickResume(c) \/ Returns(c)

Spec == Init /\ [][Next]_vars

\* Calls return and Blazor's attempts end; users need not click anything.
FairSpec == /\ Spec /\ WF_vars(AutoEnds) /\ WF_vars(Loads)
            /\ \A c \in Calls : WF_vars(Returns(c))
-----------------------------------------------------------------------------
TypeOK == /\ circuit \in {"connected", "kept", "lost", "paused"}
          /\ server \in {"up", "down"} /\ auto \in {"idle", "trying", "failed"}
          /\ document \in {"visible", "hidden"} /\ page \in {"here", "reloading"}
          /\ dialog \in {"open", "closed"} /\ listening \in {"yes", "no"}
          /\ overlapped \in {"yes", "no"} /\ outrun \subseteq Calls /\ call \in [Calls -> Stages]

(* The dialog is open exactly while the connection is down, and then there *)
(* is a way out of it: Blazor or a call is trying, the next return to the  *)
(* page tries, or the page offers to resume.                               *)
NeverStuck ==
  page = "here" =>
    /\ dialog = "open" <=> circuit # "connected"
    /\ circuit # "connected" =>
         auto = "trying" \/ listening = "yes" \/ Running # {} \/ circuit = "paused"

(* A connected page does not listen for its return any more, unless        *)
(* retries overlapped: a failed retry may listen again after another's     *)
(* success.                                                                *)
NoStaleListener == page = "here" /\ circuit = "connected" /\ listening = "yes"
                     => overlapped = "yes"

(* The page is reloaded, and its state lost, only when its circuit is not  *)
(* connected (ReconnectModal.razor.js:33), or by an invocation that runs   *)
(* since before the circuit came back otherwise: not by one that was alone *)
(* with its outage, nor by one that began after it, however many overlap.  *)
LiveCircuitIsKept ==
  [][page = "here" /\ page' = "reloading" => circuit # "connected" \/ Running \cap outrun # {}]_vars

(* Once the server stays up, a user who keeps coming back to the page gets *)
(* it connected or reloaded without clicking, unless the server has paused *)
(* it.                                                                     *)
BackWithoutClicking ==
  <>[](server = "up") /\ []<>(document = "visible") /\ []<>(document = "hidden") =>
    (circuit \in {"kept", "lost"} ~> circuit \in {"connected", "paused"} \/ page = "reloading")
=============================================================================
