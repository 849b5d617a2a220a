----------------------------- MODULE TodoAppProofs -----------------------------
(***************************************************************************)
(* Safety of the todo list for any number of users, tabs, connections,     *)
(* seeds, retries and writes.                                              *)
(***************************************************************************)
EXTENDS TodoApp, FiniteSetTheorems, TLAPS

StoreTypes ==
  /\ rows \subseteq Row /\ nextId \in Nat /\ version \in Nat
  /\ call \in [Connections -> Call]
  /\ seeding \in {"migrating", "saving", "done", "failed"}
  /\ tracked \in Nat /\ retries \in Nat /\ failedSaves \in Nat

TabTypes ==
  /\ page \in [Tabs -> {"checking", "signedIn", "signedOut", "away"}]
  /\ token \in [Tabs -> Users \cup {Nobody}]
  /\ todos \in [Tabs -> SUBSET Row]
  /\ newTitle \in [Tabs -> Titles \cup {""}]
  /\ newest \in [Tabs -> Connections \cup {Nobody}]
  /\ showing \in [Tabs -> {"newest", "older"}]
  /\ shownAt \in [Tabs -> Nat] /\ acked \in [Tabs -> Nat]

(* The types of the store and of the tabs are those of the app.            *)
LEMMA TypesSplit == (TypeOK <=> StoreTypes /\ TabTypes) /\ (TypeOK' <=> StoreTypes' /\ TabTypes')
BY DEF TypeOK, StoreTypes, TabTypes

\* Calls belong to a session: who made one is a user, and a tab that awaits
\* one is still signed in as that user.  Nothing runs before the worker is done.
CallInSession(c) ==
  /\ call[c].verb # "none" => call[c].user \in Users /\ Running
  /\ call[c].verb = "POST" => call[c].title # ""
  /\ call[c].tab # Nobody => /\ page[call[c].tab] = "signedIn" /\ call[c].verb # "none"
                            /\ call[c].user = token[call[c].tab]

TabInSession(t) ==
  /\ page[t] = "signedIn" => token[t] \in Users /\ Running
  /\ page[t] # "signedIn" => todos[t] = {} /\ showing[t] = "older" /\ newest[t] = Nobody

Sessions == /\ \A t \in Tabs : TabInSession(t)
            /\ \A c \in Connections : CallInSession(c)

(* Updating the fields of a call keeps it a call.                          *)
LEMMA Updated ==
  ASSUME NEW r \in Call
  PROVE  /\ [r EXCEPT !.tab = Nobody] \in Call
         /\ \A l \in SUBSET Row, n \in Nat :
              /\ [r EXCEPT !.status = "answered", !.list = l, !.at = n] \in Call
              /\ [r EXCEPT !.status = "read", !.list = l, !.at = n] \in Call
<1>1. [r EXCEPT !.tab = Nobody] \in Call
  BY DEF Call
<1>2. ASSUME NEW l \in SUBSET Row, NEW n \in Nat
      PROVE  /\ [r EXCEPT !.status = "answered", !.list = l, !.at = n] \in Call
             /\ [r EXCEPT !.status = "read", !.list = l, !.at = n] \in Call
  BY DEF Call
<1>3. QED
  BY <1>1, <1>2

(* Filling in a request leaves it a call.                                  *)
LEMMA Requested ==
  ASSUME NEW r \in Call, NEW x \in Titles \cup {""}, NEW i \in Nat, NEW b \in BOOLEAN
  PROVE  /\ [r EXCEPT !.title = x] \in Call
         /\ [r EXCEPT !.id = i] \in Call
         /\ [r EXCEPT !.id = i, !.isDone = b] \in Call
BY DEF Call

(* An updated row is a row.                                                *)
LEMMA UpdatedRow ==
  ASSUME NEW r \in Row, NEW b \in BOOLEAN
  PROVE  [r EXCEPT !.isDone = b] \in Row
BY DEF Row

(* Requests, answers and refusals are calls.                               *)
LEMMA CallTypes ==
  ASSUME TypeOK
  PROVE  /\ Free \in Call
         /\ \A c \in Connections, l \in SUBSET Row, n \in Nat :
              Answer(c, l, n) => call' \in [Connections -> Call]
         /\ \A c \in Connections : Refuse(c) => call' \in [Connections -> Call]
         /\ \A t \in Tabs : Unload(t) => call' \in [Connections -> Call]
         /\ \A t \in Tabs, v \in {"GET", "POST", "PUT", "DELETE"} : Request(t, v) \in Call
<1>0. call \in [Connections -> Call]
  BY DEF TypeOK
<1>1. Free \in Call
  BY DEF Free, Call
<1>2. ASSUME NEW c \in Connections, NEW l \in SUBSET Row, NEW n \in Nat, Answer(c, l, n)
      PROVE  call' \in [Connections -> Call]
  <2> DEFINE r == [call[c] EXCEPT !.status = "answered", !.list = l, !.at = n]
  <2>1. r \in Call
    BY <1>0, Updated
  <2>2. call' = [call EXCEPT ![c] = IF call[c].tab = Nobody THEN Free ELSE r]
    BY <1>2 DEF Answer
  <2> HIDE DEF r
  <2>3. QED
    BY <1>0, <1>1, <2>1, <2>2
<1>3. \A c \in Connections : Refuse(c) => call' \in [Connections -> Call]
  BY <1>0, <1>1 DEF Refuse
<1>4. ASSUME NEW t \in Tabs, Unload(t) PROVE call' \in [Connections -> Call]
  <2> DEFINE r(c) == [call[c] EXCEPT !.tab = Nobody]
  <2>1. \A c \in Connections : r(c) \in Call
    BY <1>0, Updated
  <2>2. call' = [c \in Connections |-> IF call[c].tab # t THEN call[c]
                                       ELSE IF call[c].status = "answered" THEN Free ELSE r(c)]
    BY <1>4 DEF Unload
  <2> HIDE DEF r
  <2>3. QED
    BY <1>0, <1>1, <2>1, <2>2
<1>5. \A t \in Tabs, v \in {"GET", "POST", "PUT", "DELETE"} : Request(t, v) \in Call
  BY DEF TypeOK, Request, Free, Call
<1>6. QED
  BY <1>1, <1>2, <1>3, <1>4, <1>5

(* What a handler does to the rows and to its call.                        *)
LEMMA Handlers ==
  ASSUME TypeOK, Sessions, NEW c \in Connections, Api(c)
  PROVE  rows' \subseteq Row /\ nextId' \in Nat /\ version' \in Nat /\ UNCHANGED worker
         /\ call' \in [Connections -> Call]
<1>0. call \in [Connections -> Call] /\ call[c] \in Call /\ rows \subseteq Row
      /\ nextId \in Nat /\ version \in Nat
  BY DEF TypeOK
<1>t. Target(c) \subseteq Row /\ RowsOf(call[c].user) \subseteq Row
  BY <1>0 DEF Target, RowsOf
<1> USE DEF table
<1>1. CASE GetTodos(c)
  BY <1>1, <1>0, <1>t, CallTypes DEF GetTodos
<1>2. CASE PostTodo(c)
  <2>1. call[c].user \in Users /\ call[c].title \in Titles
    BY <1>2, <1>0 DEF PostTodo, Serves, Sessions, CallInSession, Call
  <2> DEFINE new == [id |-> nextId, user |-> call[c].user, title |-> call[c].title,
                     isDone |-> FALSE]
  <2>a. new \in Row
    BY <2>1, <1>0 DEF Row
  <2>b. rows' = rows \cup {new} /\ version' = version + 1 /\ nextId' = nextId + 1
    BY <1>2 DEF PostTodo, Commit
  <2> HIDE DEF new
  <2>2. rows' \subseteq Row /\ version' \in Nat /\ nextId' \in Nat
    BY <2>a, <2>b, <1>0
  <2>3. Answer(c, {}, version') /\ UNCHANGED worker
    BY <1>2 DEF PostTodo
  <2>4. call' \in [Connections -> Call]
    BY <2>2, <2>3, CallTypes
  <2>5. QED
    BY <2>2, <2>3, <2>4
<1>3. CASE PutReads(c)
  <2> DEFINE r == [call[c] EXCEPT !.status = "read", !.list = Target(c), !.at = version]
  <2>1. r \in Call
    BY <1>0, <1>t, Updated
  <2>2. Refuse(c) \/ call' = [call EXCEPT ![c] = r]
    BY <1>3 DEF PutReads
  <2> HIDE DEF r
  <2>3. QED
    BY <1>3, <1>0, <2>1, <2>2, CallTypes DEF PutReads
<1>4. CASE PutSaves(c)
  <2> DEFINE new == {[r EXCEPT !.isDone = call[c].isDone] : r \in Target(c)}
  <2>1. new \subseteq Row
    <3>1. call[c].isDone \in BOOLEAN
      BY <1>0 DEF Call
    <3>2. QED
      BY <1>t, <3>1, UpdatedRow
  <2>2. call[c].at \in Nat
    BY <1>0 DEF Call
  <2>3. /\ (rows' = rows /\ version' = version) \/ Commit((rows \ Target(c)) \cup new)
        /\ Refuse(c) \/ Answer(c, {}, call[c].at) \/ Answer(c, {}, version')
        /\ UNCHANGED <<nextId, worker>>
    BY <1>4 DEF PutSaves
  <2> HIDE DEF new
  <2>4. rows' \subseteq Row /\ version' \in Nat
    BY <1>0, <2>1, <2>3 DEF Commit
  <2>5. call' \in [Connections -> Call]
    BY <2>2, <2>3, <2>4, CallTypes
  <2>6. QED
    BY <1>0, <2>3, <2>4, <2>5
<1>5. CASE DeleteTodo(c)
  <2>1. /\ (rows' = rows /\ version' = version) \/ Commit(rows \ Target(c))
        /\ Refuse(c) \/ Answer(c, {}, version')
        /\ UNCHANGED <<nextId, worker>>
    BY <1>5 DEF DeleteTodo
  <2>2. rows' \subseteq Row /\ version' \in Nat
    BY <1>0, <2>1 DEF Commit
  <2>3. call' \in [Connections -> Call]
    BY <2>1, <2>2, CallTypes
  <2>4. QED
    BY <1>0, <2>1, <2>2, <2>3
<1>6. CASE Dies(c)
  BY <1>6, <1>0, CallTypes DEF Dies
<1>7. QED
  BY <1>1, <1>2, <1>3, <1>4, <1>5, <1>6 DEF Api

(* The seeds are of users, and their titles differ.                        *)
LEMMA SeedFacts ==
  /\ Len(Seeds) \in Nat /\ Len(Seeds) > 0
  /\ \A i \in 1 .. Len(Seeds) : Seeds[i].user \in Users /\ Seeds[i].title \in SeedTitles
  /\ \A i, j \in 1 .. Len(Seeds) : Seeds[i].title = Seeds[j].title => i = j
<1> DEFINE S == [user : Users, title : SeedTitles]
<1>1. Seeds \in Seq(S) /\ Len(Seeds) > 0
  BY SeedsAssumption
<1>2. \A x \in S : x.user \in Users /\ x.title \in SeedTitles
  OBVIOUS
<1> HIDE DEF S
<1>3. Len(Seeds) \in Nat /\ DOMAIN Seeds = 1 .. Len(Seeds) /\ \A i \in 1 .. Len(Seeds) : Seeds[i] \in S
  BY <1>1
<1>4. \A i, j \in DOMAIN Seeds : Seeds[i].title = Seeds[j].title => i = j
  BY SeedsAssumption
<1>5. QED
  BY <1>1, <1>2, <1>3, <1>4

(* A set whose members are values of a function on S is not larger than S. *)
LEMMA ImageSize ==
  ASSUME NEW S, IsFiniteSet(S), NEW V, NEW f \in [S -> V], NEW T,
         \A t \in T : \E s \in S : t = f[s]
  PROVE  /\ IsFiniteSet(T) /\ Cardinality(T) \in Nat
         /\ Cardinality(T) <= Cardinality(S) /\ Cardinality(S) \in Nat
<1> DEFINE U == {f[s] : s \in S}
<1>1. f \in Surjection(S, U)
  BY DEF Surjection
<1>2. IsFiniteSet(U) /\ Cardinality(U) <= Cardinality(S)
  BY <1>1, FS_Surjection
<1>3. T \in SUBSET U
  OBVIOUS
<1>4. IsFiniteSet(T) /\ Cardinality(T) <= Cardinality(U)
  BY <1>2, <1>3, FS_Subset
<1>5. QED
  BY <1>2, <1>4, FS_CardinalityType

(* The rows the worker inserts: fresh ids, and each seed once per copy.    *)
LEMMA Seeded ==
  ASSUME TypeOK, InsertSeeds
  PROVE  /\ rows' \subseteq Row /\ nextId' \in Nat
         /\ \A r \in rows' : r \in rows \/ r.id >= nextId
         /\ tracked > 0 => rows' # {}
         /\ rows = {} => \A x \in SeedTitles : IsFiniteSet(Copies(x)') /\ Cardinality(Copies(x)') <= tracked
<1> DEFINE m == Len(Seeds)
<1>1. m \in Nat /\ m > 0 /\ tracked \in Nat /\ nextId \in Nat /\ rows \subseteq Row
  BY SeedFacts DEF TypeOK
<1>2. /\ rows' = rows \cup {SeedRow(k, i) : k \in 0 .. tracked - 1, i \in 0 .. m - 1}
      /\ nextId' = nextId + tracked * m
  BY DEF InsertSeeds
<1>3. ASSUME NEW k \in 0 .. tracked - 1, NEW i \in 0 .. m - 1
      PROVE  SeedRow(k, i) \in Row /\ SeedRow(k, i).id >= nextId
             /\ SeedRow(k, i).title = Seeds[i + 1].title
  <2>1. i + 1 \in 1 .. m /\ k \in Nat /\ i \in Nat
    BY <1>1
  <2>2. \A a, b \in Nat : a * b \in Nat
    OBVIOUS
  <2>3. nextId + k * m + i \in Nat /\ nextId + k * m + i >= nextId
    <3>1. k * m \in Nat
      BY <1>1, <2>1, <2>2
    <3>2. QED
      BY <1>1, <2>1, <3>1
  <2>4. Seeds[i + 1].user \in Users /\ Seeds[i + 1].title \in Titles \cup SeedTitles
    BY <2>1, SeedFacts
  <2>5. QED
    BY <2>3, <2>4 DEF SeedRow, Row
<1>4. ASSUME rows = {}, NEW x \in SeedTitles
      PROVE  IsFiniteSet(Copies(x)') /\ Cardinality(Copies(x)') <= tracked
  <2>1. PICK i \in 0 .. m - 1 : Seeds[i + 1].title = x
    <3>1. PICK j \in 1 .. m : Seeds[j].title = x
      BY SeedFacts DEF SeedTitles
    <3>2. j - 1 \in 0 .. m - 1 /\ j - 1 + 1 = j
      BY <1>1
    <3>3. QED
      BY <3>1, <3>2
  <2> DEFINE f == [k \in 0 .. tracked - 1 |-> SeedRow(k, i)]
  <2>2. f \in [0 .. tracked - 1 -> Row]
    BY <1>3
  <2>3. ASSUME NEW r \in Copies(x)' PROVE \E k \in 0 .. tracked - 1 : r = f[k]
    <3>1. PICK k \in 0 .. tracked - 1, j \in 0 .. m - 1 : r = SeedRow(k, j)
      BY <1>2, <1>4, <2>3 DEF Copies
    <3>2. Seeds[j + 1].title = Seeds[i + 1].title /\ i + 1 \in 1 .. m /\ j + 1 \in 1 .. m
      BY <1>1, <1>3, <2>1, <2>3, <3>1 DEF Copies
    <3>3. i + 1 = j + 1
      BY <3>2, SeedFacts
    <3>4. i = j
      BY <3>3
    <3>5. QED
      BY <3>1, <3>4
  <2>4. IsFiniteSet(0 .. tracked - 1) /\ Cardinality(0 .. tracked - 1) = tracked
    <3>1. 0 \in Int /\ tracked - 1 \in Int /\ (IF 0 > tracked - 1 THEN 0 ELSE tracked - 1 - 0 + 1) = tracked
      BY <1>1
    <3>2. QED
      BY <3>1, FS_Interval
  <2> HIDE DEF f
  <2>5. QED
    BY <2>2, <2>3, <2>4, ImageSize
<1>5. ASSUME tracked > 0 PROVE rows' # {}
  <2>1. 0 \in 0 .. tracked - 1 /\ 0 \in 0 .. m - 1
    BY <1>1, <1>5
  <2>2. SeedRow(0, 0) \in rows'
    BY <1>2, <2>1
  <2>3. QED
    BY <2>2
<1>6. nextId' \in Nat
  <2>1. \A a, b \in Nat : a * b \in Nat
    OBVIOUS
  <2>2. tracked * m \in Nat
    BY <1>1, <2>1
  <2>3. QED
    BY <1>1, <1>2, <2>2
<1> HIDE DEF m
<1>7. \A r \in rows' : r \in rows \/ (r \in Row /\ r.id >= nextId)
  BY <1>2, <1>3
<1>8. rows' \subseteq Row
  BY <1>1, <1>7
<1>9. rows = {} => \A x \in SeedTitles : IsFiniteSet(Copies(x)') /\ Cardinality(Copies(x)') <= tracked
  BY <1>4
<1>10. QED
  BY <1>5, <1>6, <1>7, <1>8, <1>9

(* Every step keeps each variable in its type.                             *)
LEMMA TypeStep == TypeOK /\ Sessions /\ [Next]_vars => TypeOK'
<1> SUFFICES ASSUME TypeOK, Sessions, [Next]_vars PROVE TypeOK'
  OBVIOUS
<1> USE DEF table, worker, tabVars, session, list, loads
<1>0. call \in [Connections -> Call] /\ \A c \in Connections : call[c] \in Call
  BY DEF TypeOK
<1>n. tracked \in Nat /\ retries \in Nat /\ failedSaves \in Nat
  BY DEF TypeOK
<1>f. UNCHANGED tabVars => TabTypes'
  BY DEF TypeOK, TabTypes
<1>1. CASE Seed
  <2>1. ASSUME SeedAsync PROVE StoreTypes'
    <3>1. seeding' \in {"done", "saving"} /\ tracked' \in {tracked, tracked + 1}
      BY <2>1 DEF SeedAsync
    <3>2. tracked' \in Nat /\ UNCHANGED <<table, call, retries, failedSaves>>
      BY <2>1, <3>1, <1>n DEF SeedAsync
    <3>3. QED
      BY <3>1, <3>2 DEF TypeOK, StoreTypes
  <2>2. Again => seeding' \in {"migrating", "failed"} /\ retries' \in Nat
    BY <1>n DEF Again
  <2>3. ASSUME SeedsSaved \/ SaveAnswerLost PROVE StoreTypes'
    <3>1. /\ seeding' = "done" \/ seeding' \in {"migrating", "failed"}
          /\ retries' \in Nat /\ InsertSeeds
          /\ UNCHANGED <<version, call, tracked, failedSaves>>
      BY <2>2, <2>3 DEF SeedsSaved, SaveAnswerLost, TypeOK
    <3>2. QED
      BY <3>1, Seeded DEF TypeOK, StoreTypes
  <2>4. ASSUME SaveFails PROVE StoreTypes'
    <3>1. /\ seeding' \in {"migrating", "failed"} /\ retries' \in Nat /\ failedSaves' \in Nat
          /\ UNCHANGED <<table, call, tracked>>
      BY <2>2, <2>4, <1>n DEF SaveFails
    <3>2. QED
      BY <3>1 DEF TypeOK, StoreTypes
  <2>5. QED
    BY <1>1, <1>f, <2>1, <2>3, <2>4, TypesSplit DEF Seed, Worker
<1>2. ASSUME NEW c \in Connections, Serve(c) PROVE TypeOK'
  BY <1>2, Handlers DEF TypeOK, Serve
<1>3. ASSUME NEW t \in Tabs, App(t) PROVE TypeOK'
  <2>1. CASE Reload(t)
    <3>1. call' \in [Connections -> Call]
      BY <2>1, CallTypes DEF Reload
    <3>2. QED
      BY <2>1, <3>1 DEF TypeOK, Reload, Unload
  <2>2. CASE Logout(t)
    <3>1. call' \in [Connections -> Call]
      BY <2>2, CallTypes DEF Logout
    <3>2. QED
      BY <2>2, <3>1 DEF TypeOK, Logout, Unload
  <2>5. CASE CheckedOut(t)
    BY <2>5 DEF TypeOK, CheckedOut
  <2>6. CASE Login(t)
    BY <2>6 DEF TypeOK, Login
  <2>7. ASSUME NEW u \in Users \cup {Nobody}, Return(t, u) PROVE TypeOK'
    BY <2>7 DEF TypeOK, Return
  <2>3. ASSUME NEW c \in Connections, CheckedIn(t, c) PROVE TypeOK'
    <3>1. call' \in [Connections -> Call]
      BY <1>0, <2>3, CallTypes DEF CheckedIn, Load
    <3>2. QED
      BY <2>3, <3>1 DEF TypeOK, CheckedIn, Load
  <2>4. QED
    BY <1>3, <2>1, <2>2, <2>3, <2>5, <2>6, <2>7 DEF App
<1>4. ASSUME NEW t \in Tabs, TodoList(t) PROVE TypeOK'
  <2>1. CASE \E x \in Titles \cup {""} : Type(t, x)
    BY <2>1 DEF TypeOK, Type
  <2>2. ASSUME NEW c \in Connections, NEW r \in Call, Send(c, r) PROVE TypeOK'
    BY <2>2 DEF TypeOK, Send
  <2>3. ASSUME NEW c \in Connections, Add(t, c) PROVE TypeOK'
    <3>1. newTitle[t] \in Titles \cup {""}
      BY DEF TypeOK
    <3>2. [Request(t, "POST") EXCEPT !.title = newTitle[t]] \in Call
      BY <3>1, CallTypes, Requested
    <3>3. QED
      BY <2>2, <2>3, <3>2 DEF Add
  <2>4. ASSUME NEW c \in Connections, NEW r \in todos[t], Toggle(t, c, r) \/ Remove(t, c, r)
        PROVE  TypeOK'
    <3>0. r \in Row
      BY DEF TypeOK
    <3>1. r.id \in Nat /\ (~r.isDone) \in BOOLEAN
      BY <3>0 DEF Row
    <3>2. ASSUME NEW v \in {"PUT", "DELETE"}, NEW b \in BOOLEAN
          PROVE  /\ [Request(t, v) EXCEPT !.id = r.id] \in Call
                 /\ [Request(t, v) EXCEPT !.id = r.id, !.isDone = b] \in Call
      BY <3>1, CallTypes, Requested
    <3>3. QED
      BY <2>2, <2>4, <3>1, <3>2 DEF Toggle, Remove
  <2>5. ASSUME NEW c \in Connections, ListArrives(t, c) PROVE TypeOK'
    <3>1. call[c].list \subseteq Row /\ call[c].at \in Nat
      BY <1>0 DEF Call
    <3>2. call' \in [Connections -> Call]
      BY <1>0, <2>5, CallTypes DEF ListArrives
    <3>3. QED
      BY <2>5, <3>1, <3>2 DEF TypeOK, ListArrives
  <2>6. ASSUME NEW c \in Connections, WriteDone(t, c) PROVE TypeOK'
    <3>1. call[c].at \in Nat
      BY <1>0 DEF Call
    <3>2. call' \in [Connections -> Call]
      BY <1>0, <2>6, CallTypes DEF WriteDone, Load
    <3>3. QED
      BY <2>6, <3>1, <3>2 DEF TypeOK, WriteDone, Load, Told
  <2>7. ASSUME NEW c \in Connections, Fails(t, c) PROVE TypeOK'
    <3> DEFINE r == [call[c] EXCEPT !.tab = Nobody]
    <3>1. r \in Call
      BY <1>0, Updated
    <3>2. call' = [call EXCEPT ![c] = IF call[c].status = "answered" THEN Free ELSE r]
      BY <2>7 DEF Fails
    <3> HIDE DEF r
    <3>3. call' \in [Connections -> Call]
      BY <1>0, <3>1, <3>2, CallTypes
    <3>4. QED
      BY <2>7, <3>3 DEF TypeOK, Fails
  <2>8. QED
    BY <1>4, <2>1, <2>3, <2>4, <2>5, <2>6, <2>7 DEF TodoList
<1>5. CASE UNCHANGED vars
  BY <1>5 DEF TypeOK, vars
<1>6. QED
  BY <1>1, <1>2, <1>3, <1>4, <1>5 DEF Next

(***************************************************************************)
(* What the server does to a call, and what a call is when its tab leaves. *)
(***************************************************************************)
Alike(r, s) == s.user = r.user /\ s.verb = r.verb /\ s.title = r.title

Settled(r, x, l, n) == [r EXCEPT !.status = x, !.list = l, !.at = n]
Orphan(r) == [r EXCEPT !.tab = Nobody]

(* What orphaning and answering a call leave of it.                        *)
LEMMA Fields ==
  ASSUME NEW r \in Call, NEW l \in SUBSET Row, NEW n \in Nat, NEW x \in {"answered", "read"}
  PROVE  /\ Alike(r, Orphan(r)) /\ Orphan(r).tab = Nobody /\ Orphan(r).status = r.status
         /\ Orphan(r).list = r.list /\ Orphan(r).at = r.at
         /\ Alike(r, Settled(r, x, l, n)) /\ Settled(r, x, l, n).tab = r.tab
         /\ Settled(r, x, l, n).status = x /\ Settled(r, x, l, n).list = l
         /\ Settled(r, x, l, n).at = n
BY DEF Alike, Call, Orphan, Settled

Effect(c) ==
  /\ \A d \in Connections \ {c} : call'[d] = call[d]
  /\ \/ call'[c] = Free /\ (call[c].verb = "GET" => call[c].tab = Nobody)
     \/ /\ Alike(call[c], call'[c]) /\ call'[c].tab = call[c].tab
        /\ call'[c].at <= version' /\ \A r \in call'[c].list : r.user = call[c].user
        /\ call[c].verb = "GET" => /\ call'[c].status = "answered" /\ call'[c].at = version
                                  /\ call'[c].list = RowsOf(call[c].user)
  /\ version' >= version /\ (version' = version => rows' = rows)

(* An answer concerns one call, and frees it or answers it.                *)
LEMMA AnswerEffect ==
  ASSUME TypeOK, NEW c \in Connections, NEW l \in SUBSET Row, NEW n \in Nat, Answer(c, l, n)
  PROVE  /\ \A d \in Connections \ {c} : call'[d] = call[d]
         /\ \/ call'[c] = Free /\ call[c].tab = Nobody
            \/ /\ Alike(call[c], call'[c]) /\ call'[c].tab = call[c].tab
               /\ call'[c].at = n /\ call'[c].list = l /\ call'[c].status = "answered"
<1> DEFINE r == Settled(call[c], "answered", l, n)
<1>1. call[c] \in Call /\ call \in [Connections -> Call]
  BY DEF TypeOK
<1>2. Alike(call[c], r) /\ r.tab = call[c].tab /\ r.at = n /\ r.list = l /\ r.status = "answered"
  BY <1>1, Fields
<1>3. call' = [call EXCEPT ![c] = IF call[c].tab = Nobody THEN Free ELSE r]
  BY DEF Answer, Settled
<1> HIDE DEF r
<1>4. QED
  BY <1>1, <1>2, <1>3

(* A handler changes the table together with its version.                  *)
LEMMA ApiEffect ==
  ASSUME TypeOK, \A d \in Connections : call[d].at <= version, NEW c \in Connections, Api(c)
  PROVE  Effect(c)
<1>0. /\ call \in [Connections -> Call] /\ call[c] \in Call /\ rows \subseteq Row
      /\ version \in Nat /\ call[c].at \in Nat /\ call[c].at <= version
      /\ {} \in SUBSET Row
  BY DEF TypeOK, Call
<1>t. /\ Target(c) \subseteq Row /\ RowsOf(call[c].user) \subseteq Row
      /\ \A r \in Target(c) : r.user = call[c].user
      /\ \A r \in RowsOf(call[c].user) : r.user = call[c].user
  BY <1>0 DEF Target, RowsOf
<1>r. Refuse(c) => call'[c] = Free /\ \A d \in Connections \ {c} : call'[d] = call[d]
  BY <1>0 DEF Refuse
<1> USE DEF table
<1>1. CASE GetTodos(c)
  <2> DEFINE l == RowsOf(call[c].user)
  <2>1. Answer(c, l, version) /\ rows' = rows /\ version' = version /\ l \in SUBSET Row
    BY <1>1, <1>t DEF GetTodos
  <2>2. \A r \in l : r.user = call[c].user
    BY <1>t
  <2>3. l = RowsOf(call[c].user) /\ version <= version'
    BY <1>0, <2>1
  <2> HIDE DEF l
  <2>4. /\ \A d \in Connections \ {c} : call'[d] = call[d]
        /\ \/ call'[c] = Free /\ call[c].tab = Nobody
           \/ /\ Alike(call[c], call'[c]) /\ call'[c].tab = call[c].tab
              /\ call'[c].at = version /\ call'[c].list = l /\ call'[c].status = "answered"
    BY <1>0, <2>1, AnswerEffect
  <2>5. version' >= version /\ (version' = version => rows' = rows)
    BY <1>0, <2>1
  <2>6. QED
    BY <2>2, <2>3, <2>4, <2>5 DEF Effect
<1>2. CASE PostTodo(c)
  <2>1. Answer(c, {}, version') /\ version' = version + 1 /\ call[c].verb = "POST"
    BY <1>2 DEF PostTodo, Commit, Serves
  <2>2. version' \in Nat /\ version' >= version /\ version' # version /\ version' <= version'
    BY <1>0, <2>1
  <2>3. QED
    BY <1>0, <2>1, <2>2, AnswerEffect DEF Effect
<1>3. CASE PutReads(c)
  <2> DEFINE r == Settled(call[c], "read", Target(c), version)
  <2>1. Alike(call[c], r) /\ r.tab = call[c].tab /\ r.at = version /\ r.list = Target(c)
    BY <1>0, <1>t, Fields
  <2>2. /\ Refuse(c) \/ call' = [call EXCEPT ![c] = r]
        /\ rows' = rows /\ version' = version /\ call[c].verb = "PUT"
    BY <1>3 DEF PutReads, Serves, Settled
  <2> HIDE DEF r
  <2>3. QED
    BY <1>0, <1>t, <1>r, <2>1, <2>2 DEF Effect
<1>4. CASE PutSaves(c)
  <2>1. /\ (rows' = rows /\ version' = version) \/ version' = version + 1
        /\ Refuse(c) \/ Answer(c, {}, call[c].at) \/ Answer(c, {}, version')
        /\ call[c].verb = "PUT"
    BY <1>4 DEF PutSaves, Serves, Commit
  <2>2. version' \in Nat /\ version' >= version /\ (version' = version => rows' = rows)
        /\ call[c].at <= version'
    BY <1>0, <2>1
  <2>3. CASE Refuse(c)
    BY <1>r, <2>1, <2>2, <2>3 DEF Effect
  <2>4. ASSUME NEW n \in Nat, n <= version', Answer(c, {}, n) PROVE Effect(c)
    BY <1>0, <2>1, <2>2, <2>4, AnswerEffect DEF Effect
  <2>5. QED
    BY <1>0, <2>1, <2>2, <2>3, <2>4
<1>5. CASE DeleteTodo(c)
  <2>1. /\ (rows' = rows /\ version' = version) \/ version' = version + 1
        /\ Refuse(c) \/ Answer(c, {}, version')
        /\ call[c].verb = "DELETE"
    BY <1>5 DEF DeleteTodo, Serves, Commit
  <2>2. version' \in Nat /\ version' >= version /\ (version' = version => rows' = rows)
        /\ call[c].at <= version'
    BY <1>0, <2>1
  <2>3. CASE Refuse(c)
    BY <1>r, <2>1, <2>2, <2>3 DEF Effect
  <2>4. ASSUME NEW n \in Nat, n <= version', Answer(c, {}, n) PROVE Effect(c)
    BY <1>0, <2>1, <2>2, <2>4, AnswerEffect DEF Effect
  <2>5. QED
    BY <1>0, <2>1, <2>2, <2>3, <2>4
<1>6. CASE Dies(c)
  BY <1>6, <1>0, <1>r DEF Dies, Effect
<1>7. QED
  BY <1>1, <1>2, <1>3, <1>4, <1>5, <1>6 DEF Api

(* A page that is left orphans its calls; a failed call is orphaned.       *)
LEMMA Orphans ==
  ASSUME TypeOK, NEW c \in Connections, NEW t \in Tabs,
         Unload(t) \/ \E d \in Connections : Fails(t, d)
  PROVE  \/ call'[c] = call[c]
         \/ call'[c] = Free
         \/ /\ Alike(call[c], call'[c]) /\ call'[c].tab = Nobody
            /\ call'[c].status = call[c].status /\ call'[c].list = call[c].list
            /\ call'[c].at = call[c].at /\ call[c].tab = t
<1> DEFINE r(d) == Orphan(call[d])
<1>1. call \in [Connections -> Call]
  BY DEF TypeOK
<1>2. /\ Alike(call[c], r(c)) /\ r(c).tab = Nobody /\ r(c).status = call[c].status
      /\ r(c).list = call[c].list /\ r(c).at = call[c].at
  BY <1>1, Fields
<1>3. CASE Unload(t)
  <2>1. call'[c] = IF call[c].tab # t THEN call[c]
                   ELSE IF call[c].status = "answered" THEN Free ELSE r(c)
    BY <1>3 DEF Unload, Orphan
  <2> HIDE DEF r
  <2>2. QED
    BY <1>2, <2>1
<1>4. ASSUME NEW d \in Connections, Fails(t, d)
      PROVE  /\ call' = [call EXCEPT ![d] = IF call[d].status = "answered" THEN Free ELSE r(d)]
             /\ call[d].tab = t
  BY <1>4 DEF Fails, Orphan
<1> HIDE DEF r
<1>5. QED
  BY <1>1, <1>2, <1>3, <1>4

\* The versions: what a list from a load contains.
ListOK(c) ==
  /\ call[c].at <= version
  /\ \A r \in call[c].list : r.user = call[c].user
  /\ call[c].verb = "GET" /\ call[c].status = "answered" /\ call[c].at = version
       => call[c].list = RowsOf(call[c].user)

TabLoads(t) ==
  /\ acked[t] <= version /\ shownAt[t] <= version
  /\ newest[t] # Nobody =>
       /\ call[newest[t]].tab = t /\ call[newest[t]].verb = "GET"
       /\ call[newest[t]].status = "answered" => acked[t] <= call[newest[t]].at

Shows(t) ==
  showing[t] = "newest" => /\ shownAt[t] >= acked[t]
                           /\ shownAt[t] = version => todos[t] = RowsOf(token[t])

Loads == (\A c \in Connections : ListOK(c)) /\ (\A t \in Tabs : TabLoads(t))

Inv == TypeOK /\ Sessions /\ Loads /\ ShownIsOwn /\ ListShowsOwnWrites

(* A call stays in its session while it is only answered or given up, and  *)
(* the session of its tab does not change.                                 *)
LEMMA CallStays ==
  ASSUME Sessions, NEW c \in Connections, seeding' = seeding,
         \/ call'[c] = Free
         \/ Alike(call[c], call'[c]) /\ call'[c].tab \in {call[c].tab, Nobody},
         call'[c].tab # Nobody => /\ page'[call[c].tab] = page[call[c].tab]
                                  /\ token'[call[c].tab] = token[call[c].tab]
  PROVE  CallInSession(c)'
<1>1. Free.tab = Nobody /\ Free.verb = "none"
  BY DEF Free
<1>2. CASE call'[c] = Free
  BY <1>1, <1>2 DEF CallInSession
<1>3. CASE call'[c] # Free
  BY <1>3 DEF Sessions, CallInSession, Alike, Running
<1>4. QED
  BY <1>2, <1>3

(* Signing in and out takes a tab's calls and its list with it.            *)
LEMMA SessionsStep ==
  Inv /\ [Next]_vars => Sessions' /\ ShownIsOwn'
<1> SUFFICES ASSUME Inv, [Next]_vars PROVE Sessions' /\ ShownIsOwn'
  OBVIOUS
<1> USE NobodyAssumption DEF table, worker, tabVars, session, list, loads, Running
<1>0. /\ call \in [Connections -> Call] /\ page \in [Tabs -> {"checking", "signedIn", "signedOut", "away"}]
      /\ token \in [Tabs -> Users \cup {Nobody}] /\ todos \in [Tabs -> SUBSET Row]
      /\ newest \in [Tabs -> Connections \cup {Nobody}] /\ showing \in [Tabs -> {"newest", "older"}]
      /\ \A c \in Connections : call[c].tab \in Tabs \cup {Nobody}
  BY DEF Inv, TypeOK, Call
<1>i. TypeOK /\ Sessions /\ ShownIsOwn /\ Loads
  BY DEF Inv
<1>f. Free.tab = Nobody /\ Free.verb = "none"
  BY DEF Free
<1>1. CASE Seed
  <2>1. ~ Running /\ call' = call /\ UNCHANGED tabVars
    BY <1>1 DEF Seed, Worker, SeedAsync, SeedsSaved, SaveAnswerLost, SaveFails
  <2>2. QED
    BY <1>i, <2>1 DEF Sessions, CallInSession, TabInSession, ShownIsOwn
<1>2. ASSUME NEW c \in Connections, Serve(c) PROVE Sessions' /\ ShownIsOwn'
  <2>1. Effect(c)
    BY <1>2, <1>i, ApiEffect DEF Serve, Loads, ListOK
  <2>2. UNCHANGED tabVars /\ UNCHANGED worker
    BY <1>2, <1>i, Handlers DEF Serve
  <2>3. ASSUME NEW d \in Connections
        PROVE  \/ call'[d] = Free
               \/ Alike(call[d], call'[d]) /\ call'[d].tab = call[d].tab
    BY <2>1 DEF Effect, Alike
  <2>4. \A d \in Connections : CallInSession(d)'
    BY <1>i, <2>2, <2>3, CallStays
  <2>5. \A t \in Tabs : TabInSession(t)'
    BY <1>i, <2>2 DEF Sessions, TabInSession
  <2>6. QED
    BY <1>i, <2>2, <2>4, <2>5 DEF Sessions, ShownIsOwn
<1>3. ASSUME NEW t \in Tabs, App(t) PROVE Sessions' /\ ShownIsOwn'
  <2>1. CASE Reload(t) \/ Logout(t)
    <3>1. Unload(t) /\ UNCHANGED worker
      BY <2>1 DEF Reload, Logout
    <3>2. /\ page' = [page EXCEPT ![t] = "checking"] \/ page' = [page EXCEPT ![t] = "away"]
          /\ token' = token \/ token' = [token EXCEPT ![t] = Nobody]
      BY <2>1 DEF Reload, Logout
    <3>3. /\ todos' = [todos EXCEPT ![t] = {}] /\ newest' = [newest EXCEPT ![t] = Nobody]
          /\ showing' = [showing EXCEPT ![t] = "older"]
      BY <3>1 DEF Unload
    <3>4. ASSUME NEW c \in Connections PROVE CallInSession(c)'
      <4>1. \/ call'[c] = Free
            \/ Alike(call[c], call'[c]) /\ call'[c].tab \in {call[c].tab, Nobody}
        BY <1>i, <3>1, Orphans DEF Alike
      <4>2. call'[c].tab # t
        <5>1. call'[c] = IF call[c].tab # t THEN call[c]
                         ELSE IF call[c].status = "answered" THEN Free ELSE Orphan(call[c])
          BY <3>1 DEF Unload, Orphan
        <5>2. Orphan(call[c]).tab = Nobody
          <6>1. call[c] \in Call /\ {} \in SUBSET Row /\ 0 \in Nat
            BY <1>i DEF TypeOK
          <6>2. QED
            BY <6>1, Fields
        <5>3. QED
          BY <1>f, <5>1, <5>2
      <4>3. QED
        BY <1>0, <1>i, <1>f, <3>1, <3>2, <4>1, <4>2, CallStays
    <3>5. \A s \in Tabs : TabInSession(s)'
      BY <1>0, <1>i, <3>1, <3>2, <3>3 DEF Sessions, TabInSession
    <3>6. QED
      BY <1>0, <1>i, <3>2, <3>3, <3>4, <3>5 DEF Sessions, ShownIsOwn
  <2>2. CASE CheckedOut(t)
    BY <1>0, <1>i, <2>2 DEF Sessions, CallInSession, TabInSession, ShownIsOwn, CheckedOut
  <2>3. CASE Login(t)
    BY <1>0, <1>i, <2>3 DEF Sessions, CallInSession, TabInSession, ShownIsOwn, Login
  <2>4. ASSUME NEW u \in Users \cup {Nobody}, Return(t, u) PROVE Sessions' /\ ShownIsOwn'
    BY <1>0, <1>i, <2>4 DEF Sessions, CallInSession, TabInSession, ShownIsOwn, Return
  <2>5. ASSUME NEW c \in Connections, CheckedIn(t, c) PROVE Sessions' /\ ShownIsOwn'
    <3>1. /\ Request(t, "GET").tab = t /\ Request(t, "GET").user = token[t]
          /\ Request(t, "GET").verb = "GET"
      BY DEF Request, Free
    <3>2. /\ page[t] = "checking" /\ token[t] # Nobody /\ Running /\ call[c].verb = "none"
          /\ page' = [page EXCEPT ![t] = "signedIn"] /\ UNCHANGED <<token, todos, worker>>
          /\ call' = [call EXCEPT ![c] = Request(t, "GET")]
          /\ newest' = [newest EXCEPT ![t] = c] /\ showing' = [showing EXCEPT ![t] = "older"]
      BY <2>5 DEF CheckedIn, Load, Idle
    <3>3. \A d \in Connections : CallInSession(d)'
      BY <1>0, <1>i, <3>1, <3>2 DEF Sessions, CallInSession
    <3>4. \A s \in Tabs : TabInSession(s)'
      BY <1>0, <1>i, <3>2 DEF Sessions, TabInSession
    <3>5. QED
      BY <1>i, <3>2, <3>3, <3>4 DEF Sessions, ShownIsOwn
  <2>6. QED
    BY <1>3, <2>1, <2>2, <2>3, <2>4, <2>5 DEF App
<1>4. ASSUME NEW t \in Tabs, TodoList(t) PROVE Sessions' /\ ShownIsOwn'
  <2>1. ASSUME NEW x \in Titles \cup {""}, Type(t, x) PROVE Sessions' /\ ShownIsOwn'
    BY <1>i, <2>1 DEF Sessions, CallInSession, TabInSession, ShownIsOwn, Type
  <2>2. ASSUME NEW c \in Connections, NEW r, Send(c, r), page[t] = "signedIn",
               r.tab = t, r.user = token[t], r.verb # "none", r.verb = "POST" => r.title # ""
        PROVE  Sessions' /\ ShownIsOwn'
    BY <1>0, <1>i, <2>2 DEF Sessions, CallInSession, TabInSession, ShownIsOwn, Send
  <2>3. ASSUME NEW c \in Connections, Add(t, c) PROVE Sessions' /\ ShownIsOwn'
    BY <2>2, <2>3 DEF Add, MayWrite, Request, Free
  <2>4. ASSUME NEW c \in Connections, NEW r \in todos[t], Toggle(t, c, r) \/ Remove(t, c, r)
        PROVE  Sessions' /\ ShownIsOwn'
    BY <2>2, <2>4 DEF Toggle, Remove, MayWrite, Request, Free
  <2>5. ASSUME NEW c \in Connections, ListArrives(t, c) PROVE Sessions' /\ ShownIsOwn'
    <3>1. page[t] = "signedIn" /\ call[c].user = token[t]
      BY <1>i, <2>5 DEF Sessions, CallInSession, ListArrives, Answered
    <3>2. \A r \in call[c].list : r.user = token[t]
      BY <1>i, <3>1 DEF Loads, ListOK
    <3>3. QED
      BY <1>0, <1>i, <1>f, <2>5, <3>1, <3>2 DEF Sessions, CallInSession, TabInSession, ShownIsOwn, ListArrives
  <2>6. ASSUME NEW c \in Connections, WriteDone(t, c) PROVE Sessions' /\ ShownIsOwn'
    <3>1. /\ Request(t, "GET").tab = t /\ Request(t, "GET").user = token[t]
          /\ Request(t, "GET").verb = "GET"
      BY DEF Request, Free
    <3>2. page[t] = "signedIn"
      BY <1>i, <2>6 DEF Sessions, CallInSession, WriteDone, Answered
    <3>3. QED
      BY <1>0, <1>i, <2>6, <3>1, <3>2 DEF Sessions, CallInSession, TabInSession, ShownIsOwn, WriteDone, Load
  <2>7. ASSUME NEW c \in Connections, Fails(t, c) PROVE Sessions' /\ ShownIsOwn'
    <3>1. /\ newest' = [newest EXCEPT ![t] = IF @ = c THEN Nobody ELSE @]
          /\ UNCHANGED <<page, token, todos, showing, seeding>>
      BY <2>7 DEF Fails
    <3>2. ASSUME NEW d \in Connections PROVE CallInSession(d)'
      <4>1. \/ call'[d] = Free
            \/ Alike(call[d], call'[d]) /\ call'[d].tab \in {call[d].tab, Nobody}
        BY <1>i, <2>7, Orphans DEF Alike
      <4>2. QED
        BY <1>i, <3>1, <4>1, CallStays
    <3>3. \A s \in Tabs : TabInSession(s)'
      BY <1>0, <1>i, <3>1 DEF Sessions, TabInSession
    <3>4. QED
      BY <1>i, <3>1, <3>2, <3>3 DEF Sessions, ShownIsOwn
  <2>8. QED
    BY <1>4, <2>1, <2>3, <2>4, <2>5, <2>6, <2>7 DEF TodoList
<1>5. CASE UNCHANGED vars
  BY <1>5, <1>i DEF Sessions, CallInSession, TabInSession, ShownIsOwn, vars
<1>6. QED
  BY <1>1, <1>2, <1>3, <1>4, <1>5 DEF Next

(* A newest load starts after its tab was told of its writes, so its list  *)
(* has them; only a commit makes a list differ from the table.             *)
LEMMA LoadsStep ==
  Inv /\ [Next]_vars => Loads' /\ ListShowsOwnWrites'
<1> SUFFICES ASSUME Inv, [Next]_vars PROVE Loads' /\ ListShowsOwnWrites'
  OBVIOUS
<1>s. /\ ListShowsOwnWrites <=> \A t \in Tabs : Shows(t)
      /\ ListShowsOwnWrites' <=> \A t \in Tabs : Shows(t)'
  BY DEF ListShowsOwnWrites, Shows
<1> USE NobodyAssumption DEF table, worker, tabVars, session, list, loads
<1>0. /\ call \in [Connections -> Call] /\ token \in [Tabs -> Users \cup {Nobody}]
      /\ todos \in [Tabs -> SUBSET Row] /\ newest \in [Tabs -> Connections \cup {Nobody}]
      /\ showing \in [Tabs -> {"newest", "older"}] /\ version \in Nat
      /\ shownAt \in [Tabs -> Nat] /\ acked \in [Tabs -> Nat]
      /\ \A c \in Connections : call[c] \in Call /\ call[c].at \in Nat
                               /\ call[c].tab \in Tabs \cup {Nobody}
  BY DEF Inv, TypeOK, Call
<1>i. /\ TypeOK /\ Sessions
      /\ \A c \in Connections : ListOK(c) /\ CallInSession(c)
      /\ \A t \in Tabs : TabLoads(t) /\ Shows(t) /\ TabInSession(t)
  BY <1>s DEF Inv, Loads, Sessions
<1>g. ASSUME \A c \in Connections : ListOK(c)', \A t \in Tabs : TabLoads(t)' /\ Shows(t)'
      PROVE  Loads' /\ ListShowsOwnWrites'
  BY <1>g, <1>s DEF Loads
<1>f. /\ Free.tab = Nobody /\ Free.verb = "none" /\ Free.at = 0 /\ Free.list = {}
      /\ Free.status = "sent"
      /\ \A t \in Tabs, v \in {"GET", "POST", "PUT", "DELETE"} :
            /\ Request(t, v).tab = t /\ Request(t, v).verb = v /\ Request(t, v).at = 0
            /\ Request(t, v).list = {} /\ Request(t, v).status = "sent"
  BY DEF Free, Request
<1>l. ASSUME NEW t \in Tabs, NEW c \in Connections, call[c].verb # "GET", Load(t, c, call),
             UNCHANGED <<table, token, todos, shownAt>>, acked'[t] <= version,
             \A s \in Tabs \ {t} : acked'[s] = acked[s]
      PROVE  Loads' /\ ListShowsOwnWrites'
  <2>1. /\ call' = [call EXCEPT ![c] = Request(t, "GET")] /\ newest' = [newest EXCEPT ![t] = c]
        /\ showing' = [showing EXCEPT ![t] = "older"]
    BY <1>l DEF Load
  <2>2. \A d \in Connections : ListOK(d)'
    BY <1>0, <1>f, <1>i, <1>l, <2>1 DEF ListOK, RowsOf
  <2>3. ASSUME NEW s \in Tabs PROVE TabLoads(s)' /\ Shows(s)'
    <3>1. CASE s = t
      BY <1>0, <1>f, <1>i, <1>l, <2>1, <3>1 DEF TabLoads, Shows
    <3>2. CASE s # t
      BY <1>0, <1>i, <1>l, <2>1, <3>2 DEF TabLoads, Shows, RowsOf
    <3>3. QED
      BY <3>1, <3>2
  <2>4. QED
    BY <1>g, <2>2, <2>3
<1>1. CASE Seed
  <2>1. /\ ~ Running /\ call' = call /\ version' = version /\ UNCHANGED tabVars
    BY <1>1 DEF Seed, Worker, SeedAsync, SeedsSaved, SaveAnswerLost, SaveFails, Running
  <2>2. /\ \A c \in Connections : call[c].verb = "none"
        /\ \A t \in Tabs : page[t] # "signedIn" /\ showing[t] = "older"
    BY <1>i, <2>1 DEF CallInSession, TabInSession
  <2>3. QED
    BY <1>i, <1>g, <2>1, <2>2 DEF ListOK, TabLoads, Shows
<1>2. ASSUME NEW c \in Connections, Serve(c) PROVE Loads' /\ ListShowsOwnWrites'
  <2>0. \A d \in Connections : call[d].at <= version
    BY <1>i DEF ListOK
  <2>1. Effect(c) /\ UNCHANGED tabVars /\ version' \in Nat
    BY <1>2, <1>i, <2>0, ApiEffect, Handlers DEF Serve
  <2>2. version' >= version /\ (version' = version => rows' = rows)
    BY <2>1 DEF Effect
  <2>3. ASSUME NEW d \in Connections PROVE ListOK(d)'
    <3>1. CASE d # c
      <4>1. call'[d] = call[d]
        BY <2>1, <3>1 DEF Effect
      <4>2. QED
        BY <1>0, <1>i, <2>1, <2>2, <4>1 DEF ListOK, RowsOf
    <3>2. CASE call'[d] = Free
      BY <1>f, <2>1, <3>2 DEF ListOK
    <3>3. CASE d = c /\ call'[c] # Free
      <4>1. /\ Alike(call[c], call'[c]) /\ call'[c].at <= version'
            /\ \A r \in call'[c].list : r.user = call[c].user
            /\ call[c].verb = "GET" => call'[c].at = version /\ call'[c].list = RowsOf(call[c].user)
        BY <2>1, <3>3 DEF Effect
      <4>2. QED
        BY <2>2, <3>3, <4>1 DEF ListOK, Alike, RowsOf
    <3>4. QED
      BY <3>1, <3>2, <3>3
  <2>4. ASSUME NEW t \in Tabs PROVE TabLoads(t)'
    <3>1. acked[t] <= version' /\ shownAt[t] <= version'
      BY <1>0, <1>i, <2>1, <2>2 DEF TabLoads
    <3>2. ASSUME newest[t] # Nobody
          PROVE  /\ call'[newest[t]].tab = t /\ call'[newest[t]].verb = "GET"
                 /\ call'[newest[t]].status = "answered" => acked[t] <= call'[newest[t]].at
      <4>1. newest[t] \in Connections /\ call[newest[t]].tab = t /\ call[newest[t]].verb = "GET"
            /\ (call[newest[t]].status = "answered" => acked[t] <= call[newest[t]].at)
        BY <1>0, <1>i, <3>2 DEF TabLoads
      <4>2. CASE newest[t] # c
        BY <2>1, <4>1, <4>2 DEF Effect
      <4>3. CASE newest[t] = c
        <5>1. Alike(call[c], call'[c]) /\ call'[c].tab = call[c].tab /\ call'[c].at = version
          BY <2>1, <4>1, <4>3 DEF Effect
        <5>2. QED
          BY <1>i, <4>1, <4>3, <5>1 DEF Alike, TabLoads
      <4>4. QED
        BY <4>2, <4>3
    <3>3. QED
      BY <2>1, <3>1, <3>2 DEF TabLoads
  <2>5. ASSUME NEW t \in Tabs PROVE Shows(t)'
    BY <1>0, <1>i, <2>1, <2>2 DEF Shows, TabLoads, RowsOf
  <2>6. QED
    BY <1>g, <2>3, <2>4, <2>5
<1>3. ASSUME NEW t \in Tabs, App(t) PROVE Loads' /\ ListShowsOwnWrites'
  <2>1. CASE Reload(t) \/ Logout(t)
    <3>1. /\ Unload(t) /\ UNCHANGED table
          /\ token' = token \/ token' = [token EXCEPT ![t] = Nobody]
      BY <2>1 DEF Reload, Logout
    <3>2. /\ todos' = [todos EXCEPT ![t] = {}] /\ newest' = [newest EXCEPT ![t] = Nobody]
          /\ showing' = [showing EXCEPT ![t] = "older"]
          /\ shownAt' = [shownAt EXCEPT ![t] = 0] /\ acked' = [acked EXCEPT ![t] = 0]
          /\ \A c \in Connections : call[c].tab # t => call'[c] = call[c]
      BY <3>1 DEF Unload
    <3>3. \A c \in Connections : ListOK(c)'
      BY <1>0, <1>f, <1>i, <3>1, Orphans DEF ListOK, RowsOf, Alike
    <3>4. ASSUME NEW s \in Tabs PROVE TabLoads(s)' /\ Shows(s)'
      <4>1. CASE s = t
        BY <1>0, <3>1, <3>2, <4>1 DEF TabLoads, Shows
      <4>2. CASE s # t
        BY <1>0, <1>i, <3>1, <3>2, <4>2 DEF TabLoads, Shows, RowsOf
      <4>3. QED
        BY <4>1, <4>2
    <3>5. QED
      BY <1>g, <3>3, <3>4
  <2>2. CASE CheckedOut(t)
    BY <1>0, <1>i, <1>g, <2>2 DEF CheckedOut, ListOK, TabLoads, Shows, RowsOf, TabInSession
  <2>3. CASE Login(t)
    BY <1>i, <1>g, <2>3 DEF Login, ListOK, TabLoads, Shows, RowsOf
  <2>4. ASSUME NEW u \in Users \cup {Nobody}, Return(t, u) PROVE Loads' /\ ListShowsOwnWrites'
    BY <1>0, <1>i, <1>g, <2>4 DEF Return, ListOK, TabLoads, Shows, RowsOf, TabInSession
  <2>5. ASSUME NEW c \in Connections, CheckedIn(t, c) PROVE Loads' /\ ListShowsOwnWrites'
    <3>1. /\ call[c].verb = "none" /\ Load(t, c, call)
          /\ UNCHANGED <<table, token, todos, shownAt, acked>>
      BY <2>5 DEF CheckedIn, Idle
    <3>2. QED
      BY <1>0, <1>i, <1>l, <3>1 DEF TabLoads
  <2>6. QED
    BY <1>3, <2>1, <2>2, <2>3, <2>4, <2>5 DEF App
<1>4. ASSUME NEW t \in Tabs, TodoList(t) PROVE Loads' /\ ListShowsOwnWrites'
  <2>1. ASSUME NEW x \in Titles \cup {""}, Type(t, x) PROVE Loads' /\ ListShowsOwnWrites'
    BY <1>i, <1>g, <2>1 DEF Type, ListOK, TabLoads, Shows, RowsOf
  <2>2. ASSUME NEW c \in Connections, NEW r, Send(c, r), call[c].verb = "none",
               r.at = 0, r.list = {}, r.status = "sent"
        PROVE  Loads' /\ ListShowsOwnWrites'
    <3>1. \A d \in Connections : ListOK(d)'
      BY <1>0, <1>i, <2>2 DEF Send, ListOK, RowsOf
    <3>2. \A s \in Tabs : TabLoads(s)' /\ Shows(s)'
      BY <1>0, <1>i, <2>2 DEF Send, TabLoads, Shows, RowsOf
    <3>3. QED
      BY <1>g, <3>1, <3>2
  <2>3. ASSUME NEW c \in Connections, Add(t, c) PROVE Loads' /\ ListShowsOwnWrites'
    BY <2>2, <2>3 DEF Add, MayWrite, Idle, Request, Free
  <2>4. ASSUME NEW c \in Connections, NEW r \in todos[t], Toggle(t, c, r) \/ Remove(t, c, r)
        PROVE  Loads' /\ ListShowsOwnWrites'
    BY <2>2, <2>4 DEF Toggle, Remove, MayWrite, Idle, Request, Free
  <2>5. ASSUME NEW c \in Connections, ListArrives(t, c) PROVE Loads' /\ ListShowsOwnWrites'
    <3>1. /\ call[c].tab = t /\ call[c].status = "answered" /\ call[c].verb = "GET"
          /\ todos' = [todos EXCEPT ![t] = call[c].list]
          /\ shownAt' = [shownAt EXCEPT ![t] = call[c].at]
          /\ showing' = [showing EXCEPT ![t] = IF newest[t] = c THEN "newest" ELSE "older"]
          /\ newest' = [newest EXCEPT ![t] = IF newest[t] = c THEN Nobody ELSE newest[t]]
          /\ call' = [call EXCEPT ![c] = Free]
          /\ UNCHANGED <<table, token, acked>>
      BY <2>5 DEF ListArrives, Answered
    <3>2. \A d \in Connections : ListOK(d)'
      BY <1>0, <1>f, <1>i, <3>1 DEF ListOK, RowsOf
    <3>3. call[c].at <= version /\ call[c].user = token[t]
          /\ (call[c].at = version => call[c].list = RowsOf(token[t]))
          /\ (newest[t] = c => acked[t] <= call[c].at)
      <4>1. call[c].at <= version
            /\ (call[c].at = version => call[c].list = RowsOf(call[c].user))
        BY <1>i, <3>1 DEF ListOK
      <4>2. call[c].user = token[t]
        BY <1>i, <3>1 DEF CallInSession
      <4>3. newest[t] = c => acked[t] <= call[c].at
        BY <1>i, <3>1 DEF TabLoads
      <4>4. QED
        BY <4>1, <4>2, <4>3
    <3>4. ASSUME NEW s \in Tabs PROVE TabLoads(s)' /\ Shows(s)'
      <4>1. CASE s = t
        BY <1>0, <1>i, <3>1, <3>3, <4>1 DEF TabLoads, Shows, RowsOf
      <4>2. CASE s # t
        BY <1>0, <1>i, <3>1, <4>2 DEF TabLoads, Shows, RowsOf
      <4>3. QED
        BY <4>1, <4>2
    <3>5. QED
      BY <1>g, <3>2, <3>4
  <2>6. ASSUME NEW c \in Connections, WriteDone(t, c) PROVE Loads' /\ ListShowsOwnWrites'
    <3>1. /\ call[c].verb # "GET" /\ Load(t, c, call) /\ UNCHANGED <<table, token, todos, shownAt>>
          /\ acked' = [acked EXCEPT ![t] = IF acked[t] < call[c].at THEN call[c].at ELSE acked[t]]
      BY <2>6 DEF WriteDone, Told
    <3>2. acked'[t] <= version /\ \A s \in Tabs \ {t} : acked'[s] = acked[s]
      BY <1>0, <1>i, <3>1 DEF ListOK, TabLoads
    <3>3. QED
      BY <1>l, <3>1, <3>2
  <2>7. ASSUME NEW c \in Connections, Fails(t, c) PROVE Loads' /\ ListShowsOwnWrites'
    <3>1. /\ newest' = [newest EXCEPT ![t] = IF newest[t] = c THEN Nobody ELSE newest[t]]
          /\ call[c].tab = t /\ \A d \in Connections \ {c} : call'[d] = call[d]
          /\ UNCHANGED <<table, token, todos, showing, shownAt, acked>>
      BY <1>0, <2>7 DEF Fails
    <3>2. \A d \in Connections : ListOK(d)'
      BY <1>0, <1>f, <1>i, <2>7, <3>1, Orphans DEF ListOK, RowsOf, Alike
    <3>3. \A s \in Tabs : TabLoads(s)' /\ Shows(s)'
      BY <1>0, <1>i, <3>1 DEF TabLoads, Shows, RowsOf
    <3>4. QED
      BY <1>g, <3>2, <3>3
  <2>8. QED
    BY <1>4, <2>1, <2>3, <2>4, <2>5, <2>6, <2>7 DEF TodoList
<1>5. CASE UNCHANGED vars
  BY <1>5, <1>i, <1>g DEF ListOK, TabLoads, Shows, RowsOf, vars
<1>6. QED
  BY <1>1, <1>2, <1>3, <1>4, <1>5 DEF Next
-----------------------------------------------------------------------------
(* The invariant holds at first.                                           *)
LEMMA InitInv == Init => Inv
<1> SUFFICES ASSUME Init PROVE Inv
  OBVIOUS
<1>1. Free.tab = Nobody /\ Free.verb = "none" /\ Free.at = 0 /\ Free.list = {}
  BY DEF Free
<1>2. TypeOK
  BY DEF Init, StoreInit, TypeOK, Free, Call
<1>3. Sessions
  BY <1>1 DEF Init, StoreInit, Sessions, CallInSession, TabInSession
<1>6. Loads
  <2>1. \A c \in Connections : call[c] = Free
    BY DEF Init, StoreInit
  <2>2. \A c \in Connections : ListOK(c)
    <3>1. version = 0
      BY DEF Init, StoreInit
    <3>2. QED
      BY <1>1, <2>1, <3>1 DEF ListOK
  <2>3. \A t \in Tabs : TabLoads(t)
    <3>1. version = 0 /\ \A t \in Tabs : acked[t] = 0 /\ shownAt[t] = 0 /\ newest[t] = Nobody
      BY DEF Init, StoreInit
    <3>2. QED
      BY <3>1 DEF TabLoads
  <2>4. QED
    BY <2>2, <2>3 DEF Loads
<1>4. ShownIsOwn /\ ListShowsOwnWrites
  BY DEF Init, ShownIsOwn, ListShowsOwnWrites
<1>5. QED
  BY <1>2, <1>3, <1>4, <1>6 DEF Inv

(* Every step keeps the invariant.                                         *)
LEMMA InvStep == Inv /\ [Next]_vars => Inv'
BY TypeStep, SessionsStep, LoadsStep DEF Inv

(* What a tab shows is its user's, and has the writes it was told of, in   *)
(* every run of any number of tabs and connections.                        *)
THEOREM ListSafety == Spec => [](TypeOK /\ ShownIsOwn /\ ListShowsOwnWrites)
<1>1. Inv => TypeOK /\ ShownIsOwn /\ ListShowsOwnWrites
  BY DEF Inv
<1>2. QED
  BY InitInv, InvStep, <1>1, PTL DEF Spec

(* A tab shows items of its own session's user only.                       *)
THEOREM OwnItemsOnly == Spec => []ShownIsOwn
BY ListSafety, PTL

(* A list of the newest load has every write the tab was told is done.     *)
THEOREM OwnWritesShown == Spec => []ListShowsOwnWrites
BY ListSafety, PTL
-----------------------------------------------------------------------------
\* What a step does to the rows.
Kept == \A r \in rows' : \E s \in rows : s.id = r.id /\ s.title = r.title
Updates(S, b) == rows' = (rows \ S) \cup {[r EXCEPT !.isDone = b] : r \in S} /\ S \subseteq rows
Posts(u, x) == rows' = rows \cup {[id |-> nextId, user |-> u, title |-> x, isDone |-> FALSE]}

RowStep == \/ rows' \subseteq rows
           \/ \E S \in SUBSET rows, b \in BOOLEAN : Updates(S, b)
           \/ \E u \in Users, x \in Titles : Posts(u, x)

(* Every handler posts a row, updates some, removes some, or none of it.   *)
LEMMA RowSteps ==
  ASSUME TypeOK, Sessions, NEW c \in Connections, Api(c)
  PROVE  RowStep
<1>0. /\ call[c] \in Call /\ call[c].isDone \in BOOLEAN /\ call[c].title \in Titles \cup {""}
      /\ Target(c) \subseteq rows /\ rows \ Target(c) \subseteq rows
  BY DEF TypeOK, Call, Target, RowsOf
<1>1. CASE PostTodo(c)
  <2>1. call[c].user \in Users /\ call[c].title \in Titles
    BY <1>1, <1>0 DEF PostTodo, Serves, Sessions, CallInSession
  <2>2. Posts(call[c].user, call[c].title)
    BY <1>1 DEF PostTodo, Commit, Posts
  <2>3. QED
    BY <2>1, <2>2 DEF RowStep
<1>2. CASE PutSaves(c)
  <2>1. rows' = rows \/ Updates(Target(c), call[c].isDone)
    BY <1>0, <1>2 DEF PutSaves, Commit, Updates
  <2>2. QED
    BY <1>0, <2>1 DEF RowStep
<1>3. CASE DeleteTodo(c)
  BY <1>0, <1>3 DEF DeleteTodo, Commit, RowStep
<1>4. CASE GetTodos(c) \/ PutReads(c) \/ Dies(c)
  BY <1>4 DEF GetTodos, PutReads, Dies, RowStep, table
<1>5. QED
  BY <1>1, <1>2, <1>3, <1>4 DEF Api

(* An update keeps ids and titles, and makes no copies.                    *)
LEMMA UpdatesKeep ==
  ASSUME rows \subseteq Row, NEW S \in SUBSET rows, NEW b \in BOOLEAN, Updates(S, b)
  PROVE  /\ Kept
         /\ \A x : IsFiniteSet(Copies(x)) => /\ IsFiniteSet(Copies(x)')
                                           /\ Cardinality(Copies(x)') <= Cardinality(Copies(x))
<1> DEFINE u(r) == [r EXCEPT !.isDone = b]
<1>1. \A r \in S : u(r) \in Row /\ u(r).id = r.id /\ u(r).title = r.title
  BY DEF Row
<1>2. /\ rows' = (rows \ S) \cup {u(r) : r \in S}
      /\ \A r, s \in S : r = s => u(r) = u(s)
  BY DEF Updates
<1> HIDE DEF u
<1>3. \A r \in rows' : r \in rows \ S \/ \E s \in S : r = u(s)
  BY <1>2
<1>4. Kept
  BY <1>1, <1>3 DEF Kept
<1>5. ASSUME NEW x, IsFiniteSet(Copies(x))
      PROVE  IsFiniteSet(Copies(x)') /\ Cardinality(Copies(x)') <= Cardinality(Copies(x))
  <2> DEFINE f == [r \in Copies(x) |-> IF r \in S THEN u(r) ELSE r]
  <2>1. f \in [Copies(x) -> Row]
    BY <1>1 DEF Copies
  <2>2. \A r \in Copies(x)' : \E s \in Copies(x) : r = f[s]
    BY <1>1, <1>3 DEF Copies
  <2> HIDE DEF f
  <2>3. QED
    BY <1>5, <2>1, <2>2, ImageSize
<1>6. QED
  BY <1>4, <1>5

(* Ids are given once: a row that is new has an id no row had before.      *)
LEMMA RemovedStep ==
  TypeOK /\ Sessions /\ [Next]_vars
    => [\A r \in rows' : r.id >= nextId \/ \E s \in rows : s.id = r.id]_vars
<1> SUFFICES ASSUME TypeOK, Sessions, Next
             PROVE  \A r \in rows' : r.id >= nextId \/ \E s \in rows : s.id = r.id
  OBVIOUS
<1>0. nextId \in Nat /\ rows \subseteq Row
  BY DEF TypeOK
<1>1. CASE Seed
  <2>1. CASE SeedAsync \/ SaveFails
    BY <2>1 DEF SeedAsync, SaveFails, table
  <2>2. CASE SeedsSaved \/ SaveAnswerLost
    BY <2>2, Seeded DEF SeedsSaved, SaveAnswerLost
  <2>3. QED
    BY <1>1, <2>1, <2>2 DEF Seed, Worker
<1>2. ASSUME NEW c \in Connections, Serve(c)
      PROVE  \A r \in rows' : r.id >= nextId \/ \E s \in rows : s.id = r.id
  <2>1. CASE rows' \subseteq rows
    BY <2>1
  <2>2. ASSUME NEW S \in SUBSET rows, NEW b \in BOOLEAN, Updates(S, b) PROVE Kept
    BY <1>0, <2>2, UpdatesKeep
  <2>3. ASSUME NEW u \in Users, NEW x \in Titles, Posts(u, x)
        PROVE  \A r \in rows' : r.id >= nextId \/ r \in rows
    BY <1>0, <2>3 DEF Posts
  <2>4. QED
    BY <1>2, RowSteps, <2>1, <2>2, <2>3 DEF RowStep, Kept, Serve
<1>3. ASSUME NEW t \in Tabs, App(t) \/ TodoList(t) PROVE rows' = rows
  BY <1>3 DEF App, TodoList, Reload, CheckedOut, Login, Logout, CheckedIn, Return, Type, Add,
              ListArrives, WriteDone, Fails, Toggle, Remove, Send, table
<1>4. QED
  BY <1>1, <1>2, <1>3 DEF Next

(* A save that failed leaves one more copy of the seeds in the tracker; a  *)
(* save that committed is found by the next attempt.                       *)
SeedsTracked == /\ seeding = "saving" => rows = {} /\ tracked = failedSaves + 1
                /\ seeding = "migrating" /\ rows = {} => tracked = failedSaves

FewCopies(x) == IsFiniteSet(Copies(x)) /\ Cardinality(Copies(x)) <= failedSaves + 1
SeedInv == SeedsTracked /\ \A x \in SeedTitles : FewCopies(x)

(* Every step keeps the number of copies within the worker's failed saves. *)
LEMMA SeedStep == Inv /\ SeedInv /\ [Next]_vars => SeedInv'
<1> SUFFICES ASSUME Inv, SeedInv, [Next]_vars PROVE SeedInv'
  OBVIOUS
<1>0. /\ nextId \in Nat /\ rows \subseteq Row /\ tracked \in Nat /\ failedSaves \in Nat
      /\ TypeOK /\ Sessions /\ SeedsTracked
  BY DEF Inv, TypeOK, SeedInv
<1>s. SeedTitles \cap Titles = {}
  BY SeedsAssumption
<1>f. \A x \in SeedTitles : FewCopies(x)
  BY DEF SeedInv
\* What has no more copies of a seed and forgets no failed save keeps the bound.
<1>k. ASSUME NEW x \in SeedTitles, IsFiniteSet(Copies(x)'), failedSaves' \in Nat,
             failedSaves' >= failedSaves, Cardinality(Copies(x)') <= Cardinality(Copies(x))
      PROVE  FewCopies(x)'
  BY <1>0, <1>f, <1>k, FS_CardinalityType DEF FewCopies
<1>l. ASSUME rows' \subseteq rows, failedSaves' \in Nat, failedSaves' >= failedSaves,
             NEW x \in SeedTitles
      PROVE  FewCopies(x)'
  <2>1. Copies(x)' \in SUBSET Copies(x) /\ IsFiniteSet(Copies(x))
    BY <1>f, <1>l DEF Copies, FewCopies
  <2>2. IsFiniteSet(Copies(x)') /\ Cardinality(Copies(x)') <= Cardinality(Copies(x))
    BY <2>1, FS_Subset
  <2>3. QED
    BY <1>k, <1>l, <2>2
<1> USE DEF table, worker
<1>1. CASE Seed
  <2>1. CASE SeedAsync
    BY <1>0, <1>l, <2>1 DEF SeedAsync, SeedsTracked, SeedInv
  <2>2. CASE SeedsSaved \/ SaveAnswerLost
    <3>1. /\ rows = {} /\ tracked = failedSaves + 1 /\ failedSaves' = failedSaves
          /\ InsertSeeds /\ seeding' \in {"done", "migrating", "failed"}
      BY <1>0, <2>2 DEF SeedsSaved, SaveAnswerLost, Again, SeedsTracked
    <3>2. rows' # {} /\ \A x \in SeedTitles : FewCopies(x)'
      BY <1>0, <3>1, Seeded DEF FewCopies
    <3>3. QED
      BY <3>1, <3>2 DEF SeedsTracked, SeedInv
  <2>3. CASE SaveFails
    <3>1. /\ rows = {} /\ tracked = failedSaves + 1 /\ failedSaves' = failedSaves + 1
          /\ rows' = rows /\ tracked' = tracked /\ seeding' \in {"migrating", "failed"}
      BY <1>0, <2>3 DEF SaveFails, Again, SeedsTracked
    <3>2. QED
      BY <1>0, <1>l, <3>1 DEF SeedsTracked, SeedInv
  <2>4. QED
    BY <1>1, <2>1, <2>2, <2>3 DEF Seed, Worker
<1>2. ASSUME NEW c \in Connections, Serve(c) PROVE SeedInv'
  <2>0. seeding = "done" /\ UNCHANGED worker /\ SeedsTracked'
    BY <1>0, <1>2, Handlers DEF Serve, Running, SeedsTracked
  <2>1. CASE rows' \subseteq rows
    BY <1>0, <1>l, <2>0, <2>1 DEF SeedInv
  <2>2. ASSUME NEW S \in SUBSET rows, NEW b \in BOOLEAN, Updates(S, b) PROVE SeedInv'
    <3>1. \A x \in SeedTitles : /\ IsFiniteSet(Copies(x)')
                               /\ Cardinality(Copies(x)') <= Cardinality(Copies(x))
      BY <1>0, <1>f, <2>2, UpdatesKeep DEF FewCopies
    <3>2. QED
      BY <1>0, <1>k, <2>0, <3>1 DEF SeedInv
  <2>3. ASSUME NEW u \in Users, NEW x \in Titles, Posts(u, x) PROVE SeedInv'
    <3>1. \A y \in SeedTitles : Copies(y)' = Copies(y)
      BY <1>s, <2>3 DEF Posts, Copies
    <3>2. QED
      BY <1>f, <2>0, <3>1 DEF SeedInv, FewCopies
  <2>4. QED
    BY <1>0, <1>2, RowSteps, <2>1, <2>2, <2>3 DEF RowStep, Serve
<1>3. ASSUME NEW t \in Tabs, App(t) \/ TodoList(t) PROVE UNCHANGED <<rows, worker>>
  BY <1>3 DEF App, TodoList, Reload, CheckedOut, Login, Logout, CheckedIn, Return, Type, Add,
              ListArrives, WriteDone, Fails, Toggle, Remove, Send
<1>4. ASSUME UNCHANGED <<rows, worker>> PROVE SeedInv'
  BY <1>0, <1>l, <1>4 DEF SeedsTracked, SeedInv
<1>5. QED
  BY <1>1, <1>2, <1>3, <1>4 DEF Next, vars

(* No removed item comes back, whatever interleaves with the two steps of  *)
(* an update.                                                              *)
THEOREM NoReturn == Spec => RemovedStaysRemoved
<1>1. Inv => TypeOK /\ Sessions
  BY DEF Inv
<1>2. QED
  BY InitInv, InvStep, RemovedStep, <1>1, PTL DEF Spec, RemovedStaysRemoved

(* The copies of a seed are never more than the saves of the worker that   *)
(* failed before their commit, and one: for any number of seeds, retries,  *)
(* lost answers, tabs and users.                                           *)
THEOREM CopiesBounded == Spec => []SeedCopies
<1>1. Init => SeedInv
  <2> SUFFICES ASSUME Init PROVE SeedInv
    OBVIOUS
  <2>1. rows = {} /\ tracked = 0 /\ failedSaves = 0 /\ seeding = "migrating"
    BY DEF Init, StoreInit
  <2>2. \A x \in SeedTitles : Copies(x) = {}
    BY <2>1 DEF Copies
  <2>3. QED
    BY <2>1, <2>2, FS_EmptySet DEF SeedsTracked, SeedInv, FewCopies
<1>2. SeedInv => SeedCopies
  BY DEF SeedInv, FewCopies, SeedCopies
<1>3. QED
  BY InitInv, InvStep, SeedStep, <1>1, <1>2, PTL DEF Spec
=============================================================================
