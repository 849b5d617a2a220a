-------------------------------- MODULE TodoApp --------------------------------
(***************************************************************************)
(* The single-page app of src/AspirePlaywrightTodoApp in several browser   *)
(* tabs: the App component (session) and the TodoList component (list),    *)
(* over the API of TodoStore.  Angular runs one handler at a time; between *)
(* a request and its answer anything may happen.                           *)
(*                                                                         *)
(* angular-auth-oidc-client, outside the repository, keeps the tokens in   *)
(* the tab's session storage; signing in and out leave the page for the    *)
(* identity server and come back to a new one.  Without silent renewal a   *)
(* token expires: the API refuses its calls, and a new page finds it       *)
(* expired.  /api/config and checkAuth have no error handler: when they    *)
(* fail the page stays at "checking" until it is reloaded.                 *)
(***************************************************************************)
EXTENDS TodoStore, FiniteSets

CONSTANT MaxWrites   \* bound on the writes users ask for

ASSUME WritesAssumption == MaxWrites \in Nat

VARIABLES
  page,      \* tab -> "checking", "signedIn", "signedOut" or "away"
  token,     \* tab -> user whose tokens are in its session storage
  todos,     \* tab -> rows in the todos signal
  newTitle,  \* tab -> text in the input
  newest,    \* tab -> connection of its newest load, while that is out
  showing,   \* tab -> whether todos is from the "newest" load or "older"
  shownAt,   \* tab -> version its todos are from
  acked      \* tab -> version of the last write it was told is done

session == <<page, token>>
loads == <<newest, showing>>
list == <<todos, shownAt>>
tabVars == <<session, list, newTitle, loads, acked>>
vars == <<table, call, worker, tabVars>>

Init == /\ StoreInit
        /\ page = [t \in Tabs |-> "checking"]
        /\ token = [t \in Tabs |-> Nobody]
        /\ todos = [t \in Tabs |-> {}]
        /\ newTitle = [t \in Tabs |-> ""]
        /\ newest = [t \in Tabs |-> Nobody]
        /\ showing = [t \in Tabs |-> "older"]
        /\ shownAt = [t \in Tabs |-> 0]
        /\ acked = [t \in Tabs |-> 0]

\* The API starts when the worker has completed, the frontend after the API.
Running == seeding = "done"
Idle(c) == call[c].verb = "none"

Request(t, verb) == [Free EXCEPT !.tab = t, !.user = token[t], !.verb = verb]

\* this.http.get('/api/todos') over a connection of the given ones.
Load(t, c, calls) == /\ call' = [calls EXCEPT ![c] = Request(t, "GET")]
                     /\ newest' = [newest EXCEPT ![t] = c]
                     /\ showing' = [showing EXCEPT ![t] = "older"]
-----------------------------------------------------------------------------
(***************************************************************************)
(* App: the session, and the pages that come and go with it.               *)
(***************************************************************************)
\* The tab's page is gone, and with it all it knew and its calls' answers.
Unload(t) ==
  /\ call' = [c \in Connections |-> IF call[c].tab # t THEN call[c]
                                    ELSE IF call[c].status = "answered" THEN Free
                                    ELSE [call[c] EXCEPT !.tab = Nobody]]
  /\ todos' = [todos EXCEPT ![t] = {}]
  /\ newTitle' = [newTitle EXCEPT ![t] = ""]
  /\ newest' = [newest EXCEPT ![t] = Nobody]
  /\ showing' = [showing EXCEPT ![t] = "older"]
  /\ shownAt' = [shownAt EXCEPT ![t] = 0]
  /\ acked' = [acked EXCEPT ![t] = 0]

Reload(t) == /\ page[t] # "away"
             /\ page' = [page EXCEPT ![t] = "checking"]
             /\ Unload(t)
             /\ UNCHANGED <<table, worker, token>>

\* checkAuth finds a session; TodoList is created and loads.
CheckedIn(t, c) == /\ Running /\ page[t] = "checking" /\ token[t] # Nobody /\ Idle(c)
                   /\ page' = [page EXCEPT ![t] = "signedIn"]
                   /\ Load(t, c, call)
                   /\ UNCHANGED <<table, worker, token, list, newTitle, acked>>

\* checkAuth finds none, or one that has expired.
CheckedOut(t) == /\ Running /\ page[t] = "checking"
                 /\ page' = [page EXCEPT ![t] = "signedOut"]
                 /\ token' = [token EXCEPT ![t] = Nobody]
                 /\ UNCHANGED <<table, call, worker, list, newTitle, loads, acked>>

Login(t) == /\ page[t] = "signedOut"
            /\ page' = [page EXCEPT ![t] = "away"]
            /\ UNCHANGED <<table, call, worker, token, list, newTitle, loads, acked>>

\* logoff() forgets the tokens and leaves for the identity server.  Until the
\* page is gone it can still show an answer of the session that ends, or send a
\* request without a token, which is refused: neither outlives the page.
Logout(t) == /\ page[t] = "signedIn"
             /\ page' = [page EXCEPT ![t] = "away"]
             /\ token' = [token EXCEPT ![t] = Nobody]
             /\ Unload(t)
             /\ UNCHANGED <<table, worker>>

\* Back from the identity server, signed in or not.
Return(t, u) == /\ page[t] = "away"
                /\ page' = [page EXCEPT ![t] = "checking"]
                /\ token' = [token EXCEPT ![t] = u]
                /\ UNCHANGED <<table, call, worker, list, newTitle, loads, acked>>
-----------------------------------------------------------------------------
(***************************************************************************)
(* TodoList: what the user does, and what the answers do.                  *)
(***************************************************************************)
Writes == {c \in Connections : call[c].verb \in {"POST", "PUT", "DELETE"}}
MayWrite(t, c) == /\ page[t] = "signedIn" /\ Idle(c)
                  /\ version + Cardinality(Writes) < MaxWrites

Send(c, request) == /\ call' = [call EXCEPT ![c] = request]
                    /\ UNCHANGED <<table, worker, tabVars>>

Type(t, x) == /\ page[t] = "signedIn"
              /\ newTitle' = [newTitle EXCEPT ![t] = x]
              /\ UNCHANGED <<table, call, worker, session, list, loads, acked>>

\* Mutant of Add: a blank title is posted too.
AddAnything(t, c) == /\ MayWrite(t, c)
                     /\ Send(c, [Request(t, "POST") EXCEPT !.title = newTitle[t]])

Add(t, c) == /\ MayWrite(t, c) /\ newTitle[t] # ""
             /\ Send(c, [Request(t, "POST") EXCEPT !.title = newTitle[t]])

Toggle(t, c, r) == /\ MayWrite(t, c) /\ r \in todos[t]
                   /\ Send(c, [Request(t, "PUT") EXCEPT !.id = r.id, !.isDone = ~r.isDone])

Remove(t, c, r) == /\ MayWrite(t, c) /\ r \in todos[t]
                   /\ Send(c, [Request(t, "DELETE") EXCEPT !.id = r.id])

Answered(t, c) == call[c].tab = t /\ call[c].status = "answered"

ListArrives(t, c) ==
  /\ Answered(t, c) /\ call[c].verb = "GET"
  /\ todos' = [todos EXCEPT ![t] = call[c].list]
  /\ shownAt' = [shownAt EXCEPT ![t] = call[c].at]
  /\ showing' = [showing EXCEPT ![t] = IF newest[t] = c THEN "newest" ELSE "older"]
  /\ newest' = [newest EXCEPT ![t] = IF @ = c THEN Nobody ELSE @]
  /\ call' = [call EXCEPT ![c] = Free]
  /\ UNCHANGED <<table, worker, session, newTitle, acked>>

Told(t, c) == /\ acked' = [acked EXCEPT ![t] = IF @ < call[c].at THEN call[c].at ELSE @]
              /\ newTitle' = [newTitle EXCEPT ![t] = IF call[c].verb = "POST" THEN "" ELSE @]

\* Mutant of WriteDone: the list is not loaded again.
WriteDoneQuietly(t, c) == /\ Answered(t, c) /\ call[c].verb # "GET"
                          /\ Told(t, c)
                          /\ call' = [call EXCEPT ![c] = Free]
                          /\ UNCHANGED <<table, worker, session, list, loads>>

\* The new load takes over the connection.
WriteDone(t, c) == /\ Answered(t, c) /\ call[c].verb # "GET"
                   /\ Told(t, c)
                   /\ Load(t, c, call)
                   /\ UNCHANGED <<table, worker, session, list>>

\* The tab gets an error, which no subscriber handles.
Fails(t, c) == /\ call[c].tab = t
               /\ call' = [call EXCEPT ![c] = IF @.status = "answered" THEN Free
                                              ELSE [@ EXCEPT !.tab = Nobody]]
               /\ newest' = [newest EXCEPT ![t] = IF @ = c THEN Nobody ELSE @]
               /\ UNCHANGED <<table, worker, session, list, newTitle, showing, acked>>
-----------------------------------------------------------------------------
App(t) == \/ Reload(t) \/ CheckedOut(t) \/ Login(t) \/ Logout(t)
          \/ \E c \in Connections : CheckedIn(t, c)
          \/ \E u \in Users \cup {Nobody} : Return(t, u)

TodoList(t) == \/ \E x \in Titles \cup {""} : Type(t, x)
               \/ \E c \in Connections :
                    \/ Add(t, c) \/ ListArrives(t, c) \/ WriteDone(t, c) \/ Fails(t, c)
                    \/ \E r \in todos[t] : Toggle(t, c, r) \/ Remove(t, c, r)

Serve(c) == Running /\ Api(c) /\ UNCHANGED tabVars
Seed == Worker /\ UNCHANGED tabVars

Next == \/ Seed
        \/ \E c \in Connections : Serve(c)
        \/ \E t \in Tabs : App(t) \/ TodoList(t)

Spec == Init /\ [][Next]_vars
-----------------------------------------------------------------------------
Row == [id : Nat, user : Users, title : Titles \cup SeedTitles, isDone : BOOLEAN]

Call == [tab : Tabs \cup {Nobody}, user : Users \cup {Nobody},
         verb : {"none", "GET", "POST", "PUT", "DELETE"}, id : Nat,
         title : Titles \cup {""}, isDone : BOOLEAN,
         status : {"sent", "read", "answered"}, list : SUBSET Row, at : Nat]

TypeOK ==
  /\ rows \subseteq Row /\ nextId \in Nat /\ version \in Nat
  /\ call \in [Connections -> Call]
  /\ seeding \in {"migrating", "saving", "done", "failed"}
  /\ tracked \in Nat /\ retries \in Nat /\ failedSaves \in Nat
  /\ page \in [Tabs -> {"checking", "signedIn", "signedOut", "away"}]
  /\ token \in [Tabs -> Users \cup {Nobody}]
  /\ todos \in [Tabs -> SUBSET Row]
  /\ newTitle \in [Tabs -> Titles \cup {""}]
  /\ newest \in [Tabs -> Connections \cup {Nobody}]
  /\ showing \in [Tabs -> {"newest", "older"}]
  /\ shownAt \in [Tabs -> Nat] /\ acked \in [Tabs -> Nat]

(* A tab shows only items of the user it is signed in as, and none when it *)
(* is signed out: no answer to an earlier session's request gets into it.  *)
ShownIsOwn == \A t \in Tabs : \A r \in todos[t] : r.user = token[t]

(* Whatever order requests are handled and answered in: a list from the    *)
(* newest load contains every write the tab was told is done, and is the   *)
(* user's part of the table if nothing was written since.                  *)
ListShowsOwnWrites ==
  \A t \in Tabs : showing[t] = "newest" =>
     /\ shownAt[t] >= acked[t]
     /\ shownAt[t] = version => todos[t] = RowsOf(token[t])

(* An item that was removed does not come back, though an update reads it  *)
(* and writes it in two steps: new ids are new.                            *)
RemovedStaysRemoved ==
  [][\A r \in rows' : r.id >= nextId \/ \E s \in rows : s.id = r.id]_vars

(* A seed is in the table at most once for each save of the worker that    *)
(* failed before its commit, and once more: a retry after the answer to a  *)
(* save that did commit was lost adds none, nor do users.                  *)
Copies(x) == {r \in rows : r.title = x}
SeedCopies == \A x \in SeedTitles : Cardinality(Copies(x)) <= failedSaves + 1

(* HowItWasBuilt.md:45 and :133: the worker's seed is "idempotent", so its *)
(* retries seed no item twice.                                             *)
SeededOnce == \A r, s \in rows : r.title \in SeedTitles /\ r.title = s.title => r = s
=============================================================================
