------------------------------- MODULE TodoStore -------------------------------
(***************************************************************************)
(* The server side of src/AspirePlaywrightTodoApp: the Todos table, the    *)
(* worker that migrates and seeds it, and the handlers of TodoApp.Api, one *)
(* call per browser connection.                                            *)
(*                                                                         *)
(* A call carries the sub of its token.  A refused call (401, 404, 500)    *)
(* and a broken connection look the same to the page, which has no error   *)
(* handler: its tab is told nothing.  A handler takes no cancellation      *)
(* token, so it goes on when its tab is gone, unless its process dies.     *)
(* Titles are never blank (the page does not send a blank one) and nothing *)
(* edits a title: PUT sends back the one that is stored.                   *)
(***************************************************************************)
EXTENDS Naturals, Sequences

CONSTANTS Users, Tabs, Connections,
          Titles,       \* what users type, trimmed
          Seeds,        \* the seeded items, a sequence of [user, title]; one is
                        \* seeded as done, which is left out
          Nobody,       \* no user, no tab, no connection
          MaxRetries    \* attempts the execution strategy adds to the first

SeedTitles == {Seeds[i].title : i \in DOMAIN Seeds}

ASSUME NobodyAssumption == Nobody \notin Users \cup Tabs \cup Connections
ASSUME SeedsAssumption ==
  /\ Seeds \in Seq([user : Users, title : SeedTitles]) /\ Len(Seeds) > 0
  /\ SeedTitles \cap Titles = {} /\ "" \notin Titles \cup SeedTitles
  /\ \A i, j \in DOMAIN Seeds : Seeds[i].title = Seeds[j].title => i = j
ASSUME RetriesAssumption == MaxRetries \in Nat

VARIABLES
  rows,        \* the table
  nextId,      \* its identity column
  version,     \* number of changes committed by the API (history)
  call,        \* what each connection carries
  seeding,     \* the worker: "migrating", "saving", "done" or "failed"
  tracked,     \* copies of the seeds its DbContext tracks as added
  retries,     \* retries of its execution strategy
  failedSaves  \* saves that failed before their commit (history)

table == <<rows, nextId, version>>
worker == <<seeding, tracked, retries, failedSaves>>

Free == [tab |-> Nobody, user |-> Nobody, verb |-> "none", id |-> 0, title |-> "",
         isDone |-> FALSE, status |-> "sent", list |-> {}, at |-> 0]

StoreInit == /\ rows = {} /\ nextId = 1 /\ version = 0
             /\ call = [c \in Connections |-> Free]
             /\ seeding = "migrating" /\ tracked = 0 /\ retries = 0 /\ failedSaves = 0
-----------------------------------------------------------------------------
(***************************************************************************)
(* The worker.  A transient failure runs the delegate again with the same  *)
(* DbContext, so seeds whose save failed are still tracked as added.       *)
(***************************************************************************)
\* Mutant of SeedAsync: no AnyAsync before the seeds are added.
SeedAsyncUnchecked == /\ seeding = "migrating"
                      /\ seeding' = "saving" /\ tracked' = tracked + 1
                      /\ UNCHANGED <<table, call, retries, failedSaves>>

SeedAsync == /\ seeding = "migrating"
             /\ \/ rows # {} /\ seeding' = "done" /\ UNCHANGED tracked
                \/ rows = {} /\ seeding' = "saving" /\ tracked' = tracked + 1
             /\ UNCHANGED <<table, call, retries, failedSaves>>

\* Each tracked copy becomes a row with an identity of its own.
SeedRow(k, i) == [id |-> nextId + k * Len(Seeds) + i, user |-> Seeds[i + 1].user,
                  title |-> Seeds[i + 1].title, isDone |-> FALSE]

InsertSeeds ==
  /\ rows' = rows \cup {SeedRow(k, i) : k \in 0 .. tracked - 1, i \in 0 .. Len(Seeds) - 1}
  /\ nextId' = nextId + tracked * Len(Seeds)

Again == IF retries < MaxRetries
           THEN seeding' = "migrating" /\ retries' = retries + 1
           ELSE seeding' = "failed" /\ UNCHANGED retries

SeedsSaved == /\ seeding = "saving"
              /\ InsertSeeds /\ seeding' = "done"
              /\ UNCHANGED <<version, call, tracked, retries, failedSaves>>

SaveAnswerLost == /\ seeding = "saving"
                  /\ InsertSeeds /\ Again
                  /\ UNCHANGED <<version, call, tracked, failedSaves>>

SaveFails == /\ seeding = "saving"
             /\ Again /\ failedSaves' = failedSaves + 1
             /\ UNCHANGED <<table, call, tracked>>

Worker == SeedAsync \/ SeedsSaved \/ SaveAnswerLost \/ SaveFails
-----------------------------------------------------------------------------
(***************************************************************************)
(* The handlers.  Each works on the rows of the caller only.               *)
(***************************************************************************)
RowsOf(u) == {r \in rows : r.user = u}
Target(c) == {r \in RowsOf(call[c].user) : r.id = call[c].id}
Serves(c, verb, status) == call[c].verb = verb /\ call[c].status = status

\* The answer waits for its tab, if that still listens.
Answer(c, list, at) ==
  call' = [call EXCEPT ![c] =
             IF @.tab = Nobody THEN Free
             ELSE [@ EXCEPT !.status = "answered", !.list = list, !.at = at]]

Refuse(c) == call' = [call EXCEPT ![c] = Free]

Commit(newRows) == rows' = newRows /\ version' = version + 1

\* Mutant of GetTodos: the rows are not filtered by the caller's sub.
GetAllTodos(c) == /\ Serves(c, "GET", "sent")
                  /\ Answer(c, rows, version)
                  /\ UNCHANGED <<table, worker>>

GetTodos(c) == /\ Serves(c, "GET", "sent")
               /\ Answer(c, RowsOf(call[c].user), version)
               /\ UNCHANGED <<table, worker>>

PostTodo(c) == /\ Serves(c, "POST", "sent")
               /\ Commit(rows \cup {[id |-> nextId, user |-> call[c].user,
                                     title |-> call[c].title, isDone |-> FALSE]})
               /\ nextId' = nextId + 1
               /\ Answer(c, {}, version')
               /\ UNCHANGED worker

\* PUT reads the row,
PutReads(c) == /\ Serves(c, "PUT", "sent")
               /\ IF Target(c) = {} THEN Refuse(c)
                  ELSE call' = [call EXCEPT ![c].status = "read", ![c].list = Target(c),
                                            ![c].at = version]
               /\ UNCHANGED <<table, worker>>

\* Mutant of PutSaves: the row that was read is written back, gone or not.
PutSavesBlindly(c) ==
  /\ Serves(c, "PUT", "read")
  /\ Commit((rows \ Target(c)) \cup {[r EXCEPT !.isDone = call[c].isDone] : r \in call[c].list})
  /\ Answer(c, {}, version')
  /\ UNCHANGED <<nextId, worker>>

\* and saves it: nothing if it was read as requested, an error if it is gone.
PutSaves(c) ==
  /\ Serves(c, "PUT", "read")
  /\ IF \A r \in call[c].list : r.isDone = call[c].isDone
       THEN Answer(c, {}, call[c].at) /\ UNCHANGED <<rows, version>>
     ELSE IF Target(c) = {}
       THEN Refuse(c) /\ UNCHANGED <<rows, version>>
     ELSE /\ Commit((rows \ Target(c)) \cup
                    {[r EXCEPT !.isDone = call[c].isDone] : r \in Target(c)})
          /\ Answer(c, {}, version')
  /\ UNCHANGED <<nextId, worker>>

DeleteTodo(c) == /\ Serves(c, "DELETE", "sent")
                 /\ IF Target(c) = {}
                      THEN Refuse(c) /\ UNCHANGED <<rows, version>>
                      ELSE Commit(rows \ Target(c)) /\ Answer(c, {}, version')
                 /\ UNCHANGED <<nextId, worker>>

\* A call nobody waits for ends without being handled further.
Dies(c) == /\ call[c].verb # "none" /\ call[c].tab = Nobody
           /\ Refuse(c)
           /\ UNCHANGED <<table, worker>>

Api(c) == \/ GetTodos(c) \/ PostTodo(c) \/ PutReads(c) \/ PutSaves(c) \/ DeleteTodo(c)
          \/ Dies(c)
=============================================================================
