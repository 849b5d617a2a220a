---------------------------- MODULE TxOutboxProofs ----------------------------
(***************************************************************************)
(* Safety of the transactional outbox for any number of requests, workers, *)
(* faults and any batch size, and its refinement of DeliveryPromise.         *)
(***************************************************************************)
EXTENDS TxOutbox, FiniteSetTheorems, TLAPS

Committed(r) == {r} \X Rows \subseteq db
Untouched(r) == ({r} \X Rows) \cap db = {}

\* What a handler has written at each stage, and that it has committed nothing
\* before it commits everything.
TxState ==
  \A r \in Requests :
     /\ pc[r] \in {"idle", "blogAdded", "ok", "failed"} => writes[r] = {}
     /\ pc[r] \in {"blogSaved", "postAdded"} => writes[r] = {"Blog", "BlogCreated"}
     /\ pc[r] = "postSaved" => writes[r] = Rows
     /\ pc[r] \in {"idle"} \cup InFlight => Untouched(r)
     /\ Committed(r) \/ Untouched(r)

\* Stamps are unique, and a request stamps its blog event before its post event.
Stamped ==
  /\ \A m \in Messages : created[m] <= clock
  /\ \A m, n \in Messages : m # n /\ created[m] = created[n] => created[m] = 0
  /\ \A r \in Requests :
        /\ pc[r] \in InFlight => created[<<r, "BlogCreated">>] > 0
        /\ pc[r] \in {"postAdded", "postSaved"} \/ ~ Untouched(r) =>
              /\ created[<<r, "BlogCreated">>] > 0
              /\ created[<<r, "BlogCreated">>] < created[<<r, "PostCreated">>]

\* Only committed rows are fetched, published, stamped and marked.
BusState ==
  /\ \A m \in Messages : delivered[m] > 0 => m \in db
  /\ \A m \in processed : delivered[m] > 0
  /\ \A w \in Workers : todo[w] \subseteq db

\* A row in a worker's hands as published, or with an unsaved stamp, was published.
WorkerState ==
  \A w \in Workers :
     /\ \A m \in dirty[w] : delivered[m] > 0
     /\ wpc[w] = "published" => \A m \in Messages : IsCurrent(w, m) => delivered[m] > 0

\* The blog under a post is committed, or it is the transaction's own.
HasPost(r) == pc[r] \in {"postAdded", "postSaved"} \/ <<r, "Post">> \in db
IsTarget(r, q) == /\ blogId[q] = postBlog[r]
                  /\ <<q, "Blog">> \in db \/ (q = r /\ "Blog" \in writes[r])
PostTarget == \A r \in Requests : HasPost(r) => \E q \in Requests : IsTarget(r, q)

BlogSettled(r) == \/ delivered[<<r, "BlogCreated">>] > 0
                  \/ <<r, "BlogCreated">> \in refused
                  \/ "BlogCreated" \notin Known

\* A batch that holds a post event holds the blog event too, or it was dealt with.
CausalTodo ==
  \A w \in Workers, r \in Requests :
     <<r, "PostCreated">> \in todo[w] => <<r, "BlogCreated">> \in todo[w] \/ BlogSettled(r)

IInv == /\ TypeOK /\ TxState /\ Stamped /\ BusState /\ WorkerState
        /\ PostTarget /\ CausalTodo /\ CausalOrder
-----------------------------------------------------------------------------
(* Every step of Next keeps each variable in its type: the records of the  *)
(* handlers, the tables, and the workers' lists.                           *)
LEMMA TypeStep == TypeOK /\ [Next]_vars => TypeOK'
<1> SUFFICES ASSUME TypeOK, [Next]_vars PROVE TypeOK'
  OBVIOUS
<1> USE BoundsAssumption DEF TypeOK, Messages, Kinds, Rows, InFlight,
        requestVars, workerVars, busVars
<1>1. ASSUME NEW r \in Requests, AddBlog(r) PROVE TypeOK'
  BY <1>1 DEF AddBlog, AddOutboxMessage
<1>2. ASSUME NEW r \in Requests, SaveBlog(r) PROVE TypeOK'
  BY <1>2 DEF SaveBlog
<1>3. ASSUME NEW r \in Requests, AddPost(r) PROVE TypeOK'
  BY <1>3 DEF AddPost, AddOutboxMessage, Visible
<1>4. ASSUME NEW r \in Requests, SavePost(r) PROVE TypeOK'
  BY <1>4 DEF SavePost
<1>5. ASSUME NEW r \in Requests, Commit(r) PROVE TypeOK'
  BY <1>5 DEF Commit
<1>6. ASSUME NEW r \in Requests, Rollback(r) PROVE TypeOK'
  BY <1>6 DEF Rollback
<1>7. ASSUME NEW w \in Workers, Fetch(w) PROVE TypeOK'
  BY <1>7 DEF Fetch, Unprocessed, Outbox
<1>8. ASSUME NEW w \in Workers, NEW m \in Messages, SkipUnreadable(w, m) PROVE TypeOK'
  BY <1>8 DEF SkipUnreadable, NextRow
<1>9. ASSUME NEW w \in Workers, NEW m \in Messages, Publish(w, m) PROVE TypeOK'
  BY <1>9 DEF Publish
<1>10. ASSUME NEW w \in Workers, NEW m \in Messages, PublishThrows(w, m) PROVE TypeOK'
  BY <1>10 DEF PublishThrows, NextRow
<1>11. ASSUME NEW w \in Workers, NEW m \in Messages, Save(w, m) PROVE TypeOK'
  BY <1>11 DEF Save, NextRow
<1>12. ASSUME NEW w \in Workers, NEW m \in Messages, SaveThrows(w, m) PROVE TypeOK'
  BY <1>12 DEF SaveThrows, NextRow
<1>13. ASSUME NEW w \in Workers, Exit(w) PROVE TypeOK'
  BY <1>13 DEF Exit
<1>14. ASSUME NEW w \in Workers, Crash(w) PROVE TypeOK'
  BY <1>14 DEF Crash
<1>15. CASE UNCHANGED vars
  BY <1>15 DEF vars
<1>16. QED
  BY <1>1, <1>2, <1>3, <1>4, <1>5, <1>6, <1>7, <1>8, <1>9, <1>10, <1>11, <1>12,
     <1>13, <1>14, <1>15 DEF Next, Handle, Iterate

\* Steps of the worker leave the producer's state alone.
WorkerStep == \E w \in Workers : Fetch(w) \/ Iterate(w) \/ Crash(w)

(* The worker leaves the requests alone.                                   *)
LEMMA WorkerFrame == WorkerStep => UNCHANGED requestVars
BY DEF WorkerStep, Iterate, Fetch, SkipUnreadable, Publish, PublishThrows, Save,
       SaveThrows, Exit, Crash

(* The stages of a handler: nothing of a transaction is committed before   *)
(* Commit, which commits all four rows.                                    *)
LEMMA TxStateStep == TypeOK /\ TxState /\ [Next]_vars => TxState'
<1> SUFFICES ASSUME TypeOK, TxState, [Next]_vars PROVE TxState'
  OBVIOUS
<1> USE DEF TypeOK, TxState, Untouched, Committed, Rows, Kinds, InFlight
<1>1. ASSUME NEW r \in Requests, AddBlog(r) PROVE TxState'
  BY <1>1 DEF AddBlog
<1>2. ASSUME NEW r \in Requests, SaveBlog(r) PROVE TxState'
  BY <1>2 DEF SaveBlog
<1>3. ASSUME NEW r \in Requests, AddPost(r) PROVE TxState'
  BY <1>3 DEF AddPost
<1>4. ASSUME NEW r \in Requests, SavePost(r) PROVE TxState'
  BY <1>4 DEF SavePost
<1>5. ASSUME NEW r \in Requests, Commit(r) PROVE TxState'
  BY <1>5 DEF Commit
<1>6. ASSUME NEW r \in Requests, Rollback(r) PROVE TxState'
  BY <1>6 DEF Rollback
<1>7. CASE WorkerStep \/ UNCHANGED vars
  BY <1>7, WorkerFrame DEF requestVars, vars
<1>8. QED
  BY <1>1, <1>2, <1>3, <1>4, <1>5, <1>6, <1>7 DEF Next, Handle, WorkerStep

(* The clock only grows, so a new stamp differs from all others and exceeds *)
(* the earlier stamp of the same request.                                   *)
LEMMA StampedStep == TypeOK /\ TxState /\ Stamped /\ [Next]_vars => Stamped'
<1> SUFFICES ASSUME TypeOK, TxState, Stamped, [Next]_vars PROVE Stamped'
  OBVIOUS
<1> USE DEF TypeOK, TxState, Stamped, Untouched, Rows, Kinds, InFlight, Messages
<1>1. ASSUME NEW r \in Requests, AddBlog(r) PROVE Stamped'
  BY <1>1 DEF AddBlog, AddOutboxMessage
<1>2. ASSUME NEW r \in Requests, SaveBlog(r) PROVE Stamped'
  BY <1>2 DEF SaveBlog
<1>3. ASSUME NEW r \in Requests, AddPost(r) PROVE Stamped'
  BY <1>3 DEF AddPost, AddOutboxMessage
<1>4. ASSUME NEW r \in Requests, SavePost(r) PROVE Stamped'
  BY <1>4 DEF SavePost
<1>5. ASSUME NEW r \in Requests, Commit(r) PROVE Stamped'
  BY <1>5 DEF Commit
<1>6. ASSUME NEW r \in Requests, Rollback(r) PROVE Stamped'
  BY <1>6 DEF Rollback
<1>7. CASE WorkerStep \/ UNCHANGED vars
  BY <1>7, WorkerFrame DEF requestVars, vars
<1>8. QED
  BY <1>1, <1>2, <1>3, <1>4, <1>5, <1>6, <1>7 DEF Next, Handle, WorkerStep

(* A post's blog: readable when the post was added, hence committed or the *)
(* transaction's own, and committed with it.                               *)
LEMMA PostTargetStep == TypeOK /\ TxState /\ PostTarget /\ [Next]_vars => PostTarget'
<1> SUFFICES ASSUME TypeOK, TxState, PostTarget, [Next]_vars,
                    NEW p \in Requests, HasPost(p)'
             PROVE  \E q \in Requests : IsTarget(p, q)'
  BY DEF PostTarget
<1> USE DEF TypeOK, TxState, Untouched, Rows, Kinds, InFlight, HasPost, IsTarget
<1>1. ASSUME NEW r \in Requests, AddPost(r), r = p PROVE \E q \in Requests : IsTarget(p, q)'
  <2>1. PICK first \in Visible(p) : postBlog' = [postBlog EXCEPT ![p] = blogId[first]]
    BY <1>1 DEF AddPost
  <2>2. first \in Requests /\ IsTarget(p, first)'
    BY <1>1, <2>1 DEF AddPost, Visible
  <2>3. QED
    BY <2>2
<1>2. ASSUME ~ \E r \in Requests : AddPost(r) /\ r = p
      PROVE  \E q \in Requests : IsTarget(p, q)'
  <2>1. HasPost(p)
    <3>1. CASE \E r \in Requests : AddBlog(r) \/ SaveBlog(r) \/ AddPost(r)
      BY <3>1, <1>2 DEF AddBlog, SaveBlog, AddPost
    <3>2. CASE \E r \in Requests : SavePost(r) \/ Commit(r) \/ Rollback(r)
      BY <3>2 DEF SavePost, Commit, Rollback
    <3>3. CASE WorkerStep \/ UNCHANGED vars
      BY <3>3, WorkerFrame DEF requestVars, vars
    <3>4. QED
      BY <3>1, <3>2, <3>3 DEF Next, Handle, WorkerStep
  <2>2. PICK q \in Requests : IsTarget(p, q)
    BY <2>1 DEF PostTarget
  <2>3. IsTarget(p, q)'
    <3>1. CASE \E r \in Requests : AddBlog(r) \/ SavePost(r)
      BY <3>1, <2>1, <2>2 DEF AddBlog, SavePost
    <3>2. CASE \E r \in Requests : SaveBlog(r)
      BY <3>2, <2>1, <2>2 DEF SaveBlog
    <3>3. CASE \E r \in Requests : AddPost(r)
      BY <3>3, <1>2, <2>1, <2>2 DEF AddPost
    <3>4. CASE \E r \in Requests : Commit(r)
      BY <3>4, <2>1, <2>2 DEF Commit
    <3>5. CASE \E r \in Requests : Rollback(r)
      BY <3>5, <2>1, <2>2 DEF Rollback
    <3>6. CASE WorkerStep \/ UNCHANGED vars
      BY <3>6, <2>2, WorkerFrame DEF requestVars, vars
    <3>7. QED
      BY <3>1, <3>2, <3>3, <3>4, <3>5, <3>6 DEF Next, Handle, WorkerStep
  <2>4. QED
    BY <2>3
<1>3. QED
  BY <1>1, <1>2
-----------------------------------------------------------------------------
(* Rows in a worker's hands are stamped, so the loop has one current row.  *)
LEMMA CurrentIsUnique ==
  ASSUME TypeOK, TxState, Stamped, BusState, NEW w \in Workers,
         NEW m \in Messages, NEW n \in Messages, IsCurrent(w, m), IsCurrent(w, n)
  PROVE  m = n
<1>1. created[m] > 0
  <2>1. PICK r \in Requests, k \in Kinds : m = <<r, k>>
    BY DEF Messages
  <2>2. ~ Untouched(r)
    BY <2>1 DEF IsCurrent, BusState, Untouched, Rows
  <2>3. /\ created[<<r, "BlogCreated">>] > 0
        /\ created[<<r, "BlogCreated">>] < created[<<r, "PostCreated">>]
    BY <2>2 DEF Stamped
  <2>4. /\ created[<<r, "BlogCreated">>] \in Nat
        /\ created[<<r, "PostCreated">>] \in Nat
    BY DEF TypeOK, Messages, Kinds
  <2>5. QED
    BY <2>1, <2>3, <2>4 DEF Kinds
<1>2. m # n => created[m] <= created[n] /\ created[n] <= created[m]
  BY DEF IsCurrent, Oldest
<1>3. QED
  BY <1>1, <1>2 DEF Stamped, TypeOK

(* Only rows of the outbox travel: into the batches, onto the bus, and     *)
(* from there to the stamps that the saves write.                          *)
LEMMA BusStateStep ==
  TypeOK /\ BusState /\ WorkerState /\ [Next]_vars => BusState'
<1> SUFFICES ASSUME TypeOK, BusState, WorkerState, [Next]_vars PROVE BusState'
  OBVIOUS
<1> USE DEF TypeOK, BusState, WorkerState
<1>1. ASSUME NEW r \in Requests, AddBlog(r) \/ Handle(r) PROVE BusState'
  BY <1>1 DEF AddBlog, Handle, SaveBlog, AddPost, SavePost, Commit, Rollback, workerVars, busVars
<1>2. ASSUME NEW w \in Workers, Fetch(w) PROVE BusState'
  BY <1>2 DEF Fetch, Unprocessed, Outbox, requestVars, busVars
<1> USE DEF requestVars, busVars, NextRow
<1>3. ASSUME NEW w \in Workers, NEW m \in Messages, SkipUnreadable(w, m) PROVE BusState'
  BY <1>3 DEF SkipUnreadable
<1>4. ASSUME NEW w \in Workers, NEW m \in Messages, Publish(w, m) PROVE BusState'
  BY <1>4 DEF Publish, IsCurrent
<1>5. ASSUME NEW w \in Workers, NEW m \in Messages, PublishThrows(w, m) PROVE BusState'
  BY <1>5 DEF PublishThrows
<1>6. ASSUME NEW w \in Workers, NEW m \in Messages, Save(w, m) PROVE BusState'
  BY <1>6 DEF Save
<1>7. ASSUME NEW w \in Workers, NEW m \in Messages, SaveThrows(w, m) PROVE BusState'
  BY <1>7 DEF SaveThrows
<1>8. ASSUME NEW w \in Workers, Exit(w) \/ Crash(w) PROVE BusState'
  BY <1>8 DEF Exit, Crash
<1>9. CASE UNCHANGED vars
  BY <1>9 DEF vars
<1>10. QED
  BY <1>1, <1>2, <1>3, <1>4, <1>5, <1>6, <1>7, <1>8, <1>9 DEF Next, Iterate

\* A request that stamps a message has committed nothing, so no batch holds it.
LEMMA StampsOutsideBatches ==
  ASSUME TypeOK, TxState, BusState, NEW r \in Requests, AddBlog(r) \/ AddPost(r),
         NEW w \in Workers, NEW m \in todo[w]
  PROVE  created'[m] = created[m]
<1>1. PICK q \in Requests, k \in Kinds : m = <<q, k>>
  BY DEF TypeOK, Messages
<1>2. q # r
  BY <1>1 DEF AddBlog, AddPost, TxState, Untouched, BusState, Rows, InFlight
<1>3. QED
  BY <1>1, <1>2 DEF AddBlog, AddPost, AddOutboxMessage, TypeOK, Messages

(* The row a worker has published is the one its next save is about.       *)
LEMMA WorkerStateStep ==
  TypeOK /\ TxState /\ Stamped /\ BusState /\ WorkerState /\ [Next]_vars => WorkerState'
<1> SUFFICES ASSUME TypeOK, TxState, Stamped, BusState, WorkerState, [Next]_vars
             PROVE  WorkerState'
  OBVIOUS
<1> USE DEF TypeOK, WorkerState
<1>1. ASSUME NEW r \in Requests, AddBlog(r) \/ AddPost(r) PROVE WorkerState'
  <2>1. UNCHANGED <<wpc, todo, dirty, delivered>>
    BY <1>1 DEF AddBlog, AddPost, workerVars, busVars
  <2>2. ASSUME NEW w \in Workers, NEW m \in Messages, IsCurrent(w, m)'
        PROVE  IsCurrent(w, m)
    BY <1>1, <2>1, <2>2, StampsOutsideBatches DEF IsCurrent, Oldest
  <2>3. QED
    BY <2>1, <2>2
<1>2. ASSUME NEW r \in Requests, SaveBlog(r) \/ SavePost(r) \/ Commit(r) \/ Rollback(r)
      PROVE  WorkerState'
  BY <1>2 DEF SaveBlog, SavePost, Commit, Rollback, workerVars, busVars, IsCurrent, Oldest
<1>3. ASSUME NEW w \in Workers, Fetch(w) PROVE WorkerState'
  BY <1>3 DEF Fetch, requestVars, busVars, IsCurrent, Oldest
<1>4. ASSUME NEW w \in Workers, NEW m \in Messages, SkipUnreadable(w, m) \/ PublishThrows(w, m)
      PROVE  WorkerState'
  BY <1>4 DEF SkipUnreadable, PublishThrows, NextRow, requestVars, busVars, IsCurrent, Oldest
<1>5. ASSUME NEW w \in Workers, NEW m \in Messages, Publish(w, m) PROVE WorkerState'
  <2>1. \A v \in Workers, n \in Messages : IsCurrent(v, n)' <=> IsCurrent(v, n)
    BY <1>5 DEF Publish, requestVars, IsCurrent, Oldest
  <2>2. \A n \in Messages : IsCurrent(w, n) => n = m
    BY <1>5, CurrentIsUnique DEF Publish
  <2>3. QED
    BY <1>5, <2>1, <2>2 DEF Publish
<1>6. ASSUME NEW w \in Workers, NEW m \in Messages, Save(w, m) \/ SaveThrows(w, m)
      PROVE  WorkerState'
  BY <1>6 DEF Save, SaveThrows, NextRow, requestVars, busVars, IsCurrent, Oldest
<1>7. ASSUME NEW w \in Workers, Exit(w) \/ Crash(w) PROVE WorkerState'
  BY <1>7 DEF Exit, Crash, requestVars, busVars, IsCurrent, Oldest
<1>8. CASE UNCHANGED vars
  BY <1>8 DEF vars, IsCurrent, Oldest
<1>9. QED
  BY <1>1, <1>2, <1>3, <1>4, <1>5, <1>6, <1>7, <1>8 DEF Next, Handle, Iterate
-----------------------------------------------------------------------------
\* A settled blog event stays settled: counts and histories only grow.
LEMMA SettledForever ==
  ASSUME TypeOK, [Next]_vars, NEW r \in Requests, BlogSettled(r)
  PROVE  BlogSettled(r)'
<1> USE DEF TypeOK, BlogSettled, Messages, Kinds
<1>1. CASE \E q \in Requests : AddBlog(q) \/ Handle(q)
  BY <1>1 DEF AddBlog, Handle, SaveBlog, AddPost, SavePost, Commit, Rollback, busVars
<1>2. CASE \E w \in Workers : Fetch(w) \/ Exit(w) \/ Crash(w)
  BY <1>2 DEF Fetch, Exit, Crash, busVars
<1>3. CASE \E w \in Workers, m \in Messages :
             SkipUnreadable(w, m) \/ Save(w, m) \/ SaveThrows(w, m)
  BY <1>3 DEF SkipUnreadable, Save, SaveThrows, busVars
<1>4. CASE \E w \in Workers, m \in Messages : Publish(w, m) \/ PublishThrows(w, m)
  BY <1>4 DEF Publish, PublishThrows
<1>5. CASE UNCHANGED vars
  BY <1>5 DEF vars
<1>6. QED
  BY <1>1, <1>2, <1>3, <1>4, <1>5 DEF Next, Iterate

(* The worker drops a blog event from its list only when it is settled,    *)
(* and a batch, being the oldest rows, never holds just the younger event  *)
(* of a request whose blog event is still to be published.                 *)
LEMMA CausalTodoStep ==
  TypeOK /\ TxState /\ Stamped /\ BusState /\ WorkerState /\ CausalTodo /\ [Next]_vars
     => CausalTodo'
<1> SUFFICES ASSUME TypeOK, TxState, Stamped, BusState, WorkerState, CausalTodo, [Next]_vars,
                    NEW v \in Workers, NEW r \in Requests,
                    (<<r, "PostCreated">> \in todo[v])'
             PROVE  (<<r, "BlogCreated">> \in todo[v] \/ BlogSettled(r))'
  BY DEF CausalTodo
<1>1. ASSUME Fetch(v) PROVE (<<r, "BlogCreated">> \in todo[v] \/ BlogSettled(r))'
  <2>1. PICK batch \in SUBSET Unprocessed : /\ Oldest(Unprocessed, batch)
                                            /\ todo'[v] = batch
    BY <1>1 DEF Fetch, TypeOK
  <2>2. <<r, "PostCreated">> \in db /\ ~ Untouched(r)
    BY <2>1 DEF Unprocessed, Outbox, Untouched, Rows, Kinds
  <2>3. <<r, "BlogCreated">> \in Outbox
    BY <2>2 DEF TxState, Committed, Outbox, Messages, Rows, Kinds
  <2>4. CASE <<r, "BlogCreated">> \in processed
    BY <2>4, <1>1 DEF BusState, BlogSettled, Fetch, busVars
  <2>5. CASE <<r, "BlogCreated">> \in Unprocessed \ batch
    <3>1. created[<<r, "PostCreated">>] <= created[<<r, "BlogCreated">>]
      BY <2>1, <2>5 DEF Oldest
    <3>2. created[<<r, "BlogCreated">>] < created[<<r, "PostCreated">>]
      BY <2>2 DEF Stamped
    <3>3. created[<<r, "BlogCreated">>] \in Nat /\ created[<<r, "PostCreated">>] \in Nat
      BY DEF TypeOK, Messages, Kinds
    <3>4. QED
      BY <3>1, <3>2, <3>3
  <2>6. QED
    BY <2>1, <2>3, <2>4, <2>5 DEF Unprocessed
<1>2. ASSUME NEW m \in Messages, IsCurrent(v, m), NextRow(v, m),
             m = <<r, "BlogCreated">> => BlogSettled(r)'
      PROVE  (<<r, "BlogCreated">> \in todo[v] \/ BlogSettled(r))'
  <2>1. todo'[v] = todo[v] \ {m}
    BY <1>2 DEF NextRow, TypeOK
  <2>2. CASE BlogSettled(r)
    BY <2>2, SettledForever
  <2>3. CASE ~ BlogSettled(r)
    BY <2>1, <2>3, <1>2 DEF CausalTodo
  <2>4. QED
    BY <2>2, <2>3
<1>3. ASSUME NEW m \in Messages,
             SkipUnreadable(v, m) \/ PublishThrows(v, m) \/ Save(v, m) \/ SaveThrows(v, m)
      PROVE  (<<r, "BlogCreated">> \in todo[v] \/ BlogSettled(r))'
  <2>1. m = <<r, "BlogCreated">> => BlogSettled(r)'
    BY <1>3 DEF SkipUnreadable, PublishThrows, Save, SaveThrows, BlogSettled, WorkerState, busVars
  <2>2. QED
    BY <1>2, <1>3, <2>1 DEF SkipUnreadable, PublishThrows, Save, SaveThrows
<1>4. CASE todo'[v] = todo[v]
  BY <1>4, SettledForever DEF CausalTodo
<1>5. ASSUME Crash(v) PROVE FALSE
  BY <1>5 DEF Crash, TypeOK
<1>6. QED
  <2>1. CASE \E q \in Requests : AddBlog(q) \/ Handle(q)
    BY <2>1, <1>4 DEF AddBlog, Handle, SaveBlog, AddPost, SavePost, Commit, Rollback, workerVars
  <2>2. CASE \E w \in Workers : Fetch(w) \/ Crash(w) \/ Exit(w)
    BY <2>2, <1>1, <1>4, <1>5 DEF Fetch, Crash, Exit, TypeOK
  <2>3. CASE \E w \in Workers, m \in Messages :
               SkipUnreadable(w, m) \/ PublishThrows(w, m) \/ Save(w, m) \/ SaveThrows(w, m)
    BY <2>3, <1>3, <1>4 DEF SkipUnreadable, PublishThrows, Save, SaveThrows, NextRow, TypeOK
  <2>4. CASE \E w \in Workers, m \in Messages : Publish(w, m)
    BY <2>4, <1>4 DEF Publish
  <2>5. CASE UNCHANGED vars
    BY <2>5, <1>4 DEF vars
  <2>6. QED
    BY <2>1, <2>2, <2>3, <2>4, <2>5 DEF Next, Iterate

(* The current row of a list is its oldest, so a post event is published   *)
(* only when no unsettled blog event of its request is left in the list.   *)
LEMMA CausalOrderStep ==
  TypeOK /\ TxState /\ Stamped /\ BusState /\ CausalTodo /\ CausalOrder /\ [Next]_vars
     => CausalOrder'
<1> SUFFICES ASSUME TypeOK, TxState, Stamped, BusState, CausalTodo, CausalOrder, [Next]_vars,
                    NEW r \in Requests, (delivered[<<r, "PostCreated">>] > 0)'
             PROVE  BlogSettled(r)'
  BY DEF CausalOrder, BlogSettled
<1> DEFINE post == <<r, "PostCreated">>
           blog == <<r, "BlogCreated">>
<1>1. CASE delivered[post] > 0
  BY <1>1, SettledForever DEF CausalOrder, BlogSettled
<1>2. CASE ~ (delivered[post] > 0)
  <2>1. PICK w \in Workers : Publish(w, post)
    <3>1. \/ delivered' = delivered
          \/ \E w \in Workers, m \in Messages : Publish(w, m)
      BY DEF Next, AddBlog, Handle, SaveBlog, AddPost, SavePost, Commit, Rollback, Iterate,
             Fetch, SkipUnreadable, PublishThrows, Save, SaveThrows, Exit, Crash, busVars, vars
    <3>2. PICK w \in Workers, m \in Messages : Publish(w, m)
      BY <1>2, <3>1
    <3>3. m = post
      BY <1>2, <3>2 DEF Publish, TypeOK, Messages, Kinds
    <3>4. QED
      BY <3>2, <3>3
  <2>2. post \in todo[w] /\ Oldest(todo[w], {post})
    BY <2>1 DEF Publish, IsCurrent
  <2>3. blog \notin todo[w]
    <3>1. ~ Untouched(r)
      BY <2>2 DEF BusState, Untouched, Rows, Kinds
    <3>2. created[blog] < created[post]
      BY <3>1 DEF Stamped
    <3>3. created[blog] \in Nat /\ created[post] \in Nat
      BY DEF TypeOK, Messages, Kinds
    <3>4. blog \in todo[w] => created[post] <= created[blog]
      BY <2>2 DEF Oldest
    <3>5. QED
      BY <3>2, <3>3, <3>4
  <2>4. BlogSettled(r)
    BY <2>2, <2>3 DEF CausalTodo
  <2>5. QED
    BY <2>4, SettledForever
<1>3. QED
  BY <1>1, <1>2
-----------------------------------------------------------------------------
\* With one worker, a message that was delivered is not delivered again if it
\* is marked, or about to be.  Any other delivery is charged to a fault: those
\* that another one followed, and the last one of a message that is not settled.
Alone == \A v, w \in Workers : v = w
Settled(m) == \/ m \in processed
              \/ \E w \in Workers : wpc[w] = "published" /\ IsCurrent(w, m)
Charged == {d \in Messages \X Nat :
              /\ 1 <= d[2] /\ d[2] <= delivered[d[1]]
              /\ Settled(d[1]) => d[2] < delivered[d[1]]}

\* No row of a batch is marked, or waits to be, and a worker starts afresh.
BatchesAreOpen ==
  \A w \in Workers : /\ todo[w] \cap (processed \cup dirty[w]) = {}
                     /\ wpc[w] = "idle" => dirty[w] = {}

\* Each fault pays for one charge at the most.
ChargedToFaults ==
  Alone => /\ IsFiniteSet(Charged) /\ Cardinality(Charged) <= faults
           /\ BatchesAreOpen

(* Charges stay paid when none is added, and when a fault adds one.        *)
LEMMA ChargesStayPaid ==
  ASSUME TypeOK, IsFiniteSet(Charged), Cardinality(Charged) <= faults,
         \/ Charged' \subseteq Charged /\ faults' = faults
         \/ faults' = faults + 1 /\ \E d : Charged' \subseteq Charged \cup {d}
  PROVE  IsFiniteSet(Charged') /\ Cardinality(Charged') <= faults'
<1> DEFINE C == Charged
           D == Charged'
<1>1. faults \in Nat /\ Cardinality(C) \in Nat
  BY BoundsAssumption, FS_CardinalityType DEF TypeOK
<1> HIDE DEF C, D
<1>2. CASE D \subseteq C /\ faults' = faults
  <2>1. IsFiniteSet(C) /\ D \in SUBSET C
    BY <1>2 DEF C
  <2>2. IsFiniteSet(D) /\ Cardinality(D) <= Cardinality(C) /\ Cardinality(D) \in Nat
    BY <2>1, FS_Subset, FS_CardinalityType
  <2>3. QED
    BY <1>1, <1>2, <2>2 DEF C, D
<1>3. ASSUME NEW d, D \subseteq C \cup {d}, faults' = faults + 1
      PROVE  IsFiniteSet(Charged') /\ Cardinality(Charged') <= faults'
  <2>1. /\ IsFiniteSet(C \cup {d}) /\ Cardinality(C \cup {d}) <= Cardinality(C) + 1
        /\ Cardinality(C \cup {d}) \in Nat
    <3>1. IsFiniteSet(C)
      BY DEF C
    <3>2. QED
      BY <1>1, <3>1, FS_AddElement
  <2>2. IsFiniteSet(D) /\ Cardinality(D) <= Cardinality(C \cup {d}) /\ Cardinality(D) \in Nat
    BY <1>3, <2>1, FS_Subset, FS_CardinalityType
  <2>3. QED
    BY <1>1, <1>3, <2>1, <2>2 DEF C, D
<1>4. QED
  BY <1>2, <1>3 DEF C, D

(* Only a failed save and a crash between publish and save add a charge:   *)
(* a worker alone publishes again what is charged already.                 *)
LEMMA ChargedToFaultsStep ==
  TypeOK /\ TxState /\ Stamped /\ BusState /\ ChargedToFaults /\ [Next]_vars => ChargedToFaults'
<1> SUFFICES ASSUME TypeOK, TxState, Stamped, BusState, ChargedToFaults, [Next]_vars, Alone
             PROVE  /\ IsFiniteSet(Charged') /\ Cardinality(Charged') <= faults'
                    /\ BatchesAreOpen'
  BY DEF ChargedToFaults, Alone
<1>0. /\ IsFiniteSet(Charged) /\ Cardinality(Charged) <= faults
      /\ BatchesAreOpen
  BY DEF ChargedToFaults
<1> DEFINE Paid == \/ Charged' \subseteq Charged /\ faults' = faults
                   \/ faults' = faults + 1 /\ \E d : Charged' \subseteq Charged \cup {d}
<1>1. SUFFICES Paid /\ BatchesAreOpen'
  BY <1>0, ChargesStayPaid
<1>2. \A m \in Messages : delivered[m] \in Nat /\ delivered'[m] \in Nat
  BY TypeStep DEF TypeOK
<1>3. ASSUME NEW r \in Requests, AddBlog(r) \/ AddPost(r) PROVE Paid /\ BatchesAreOpen'
  <2>1. UNCHANGED <<wpc, todo, dirty, delivered, processed, faults>>
    BY <1>3 DEF AddBlog, AddPost, workerVars, busVars
  <2>2. \A w \in Workers, m \in Messages : IsCurrent(w, m) => IsCurrent(w, m)'
    BY <1>3, <2>1, StampsOutsideBatches DEF IsCurrent, Oldest
  <2>3. \A m \in Messages : Settled(m) => Settled(m)'
    BY <2>1, <2>2 DEF Settled
  <2>4. QED
    BY <1>0, <2>1, <2>3 DEF Charged, BatchesAreOpen
<1>4. ASSUME NEW r \in Requests, SaveBlog(r) \/ SavePost(r) \/ Commit(r) \/ Rollback(r)
      PROVE  Paid /\ BatchesAreOpen'
  <2>1. UNCHANGED <<created, wpc, todo, dirty, delivered, processed, faults>>
    BY <1>4 DEF SaveBlog, SavePost, Commit, Rollback, workerVars, busVars
  <2>2. Charged' = Charged
    BY <2>1 DEF Charged, Settled, IsCurrent, Oldest
  <2>3. QED
    BY <1>0, <2>1, <2>2 DEF BatchesAreOpen
<1>5. ASSUME NEW w \in Workers, Fetch(w) PROVE Paid /\ BatchesAreOpen'
  <2>1. PICK batch \in SUBSET Unprocessed : todo' = [todo EXCEPT ![w] = batch]
    BY <1>5 DEF Fetch
  <2>2. /\ wpc[w] = "idle" /\ wpc' = [wpc EXCEPT ![w] = "loop"]
        /\ UNCHANGED <<created, dirty, delivered, processed, faults>>
    BY <1>5, <2>1 DEF Fetch, requestVars, busVars
  <2>3. \A m \in Messages : Settled(m) => Settled(m)'
    BY <2>2 DEF Settled, TypeOK, Alone
  <2>4. QED
    BY <1>0, <2>1, <2>2, <2>3 DEF Charged, BatchesAreOpen, Unprocessed, TypeOK, Alone
<1>6. ASSUME NEW w \in Workers, NEW m \in Messages, SkipUnreadable(w, m) \/ PublishThrows(w, m)
      PROVE  Paid /\ BatchesAreOpen'
  <2>1. /\ wpc[w] = "loop" /\ todo' = [todo EXCEPT ![w] = @ \ {m}]
        /\ UNCHANGED <<created, wpc, dirty, delivered, processed, faults>>
    BY <1>6 DEF SkipUnreadable, PublishThrows, NextRow, requestVars, busVars
  <2>2. \A n \in Messages : Settled(n) => Settled(n)'
    BY <2>1 DEF Settled, Alone
  <2>3. QED
    BY <1>0, <2>1, <2>2 DEF Charged, BatchesAreOpen, TypeOK
<1>7. ASSUME NEW w \in Workers, NEW m \in Messages, Publish(w, m)
      PROVE  Paid /\ BatchesAreOpen'
  <2>1. /\ wpc[w] = "loop" /\ IsCurrent(w, m)
        /\ wpc' = [wpc EXCEPT ![w] = "published"]
        /\ delivered' = [delivered EXCEPT ![m] = @ + 1]
        /\ UNCHANGED <<created, todo, dirty, processed, faults>>
    BY <1>7 DEF Publish, requestVars
  <2>2. ~ Settled(m)
    BY <1>0, <2>1 DEF Settled, IsCurrent, BatchesAreOpen, Alone
  <2>3. Settled(m)' /\ \A n \in Messages : Settled(n) => Settled(n)'
    BY <2>1 DEF Settled, IsCurrent, Oldest, TypeOK, Alone
  <2>4. Charged' \subseteq Charged
    <3>1. ASSUME NEW d \in Messages \X Nat, d \in Charged' PROVE d \in Charged
      <4>1. /\ 1 <= d[2] /\ d[2] <= delivered'[d[1]]
            /\ Settled(d[1])' => d[2] < delivered'[d[1]]
        BY <3>1 DEF Charged
      <4>2. CASE d[1] = m
        BY <1>2, <2>1, <2>2, <2>3, <4>1, <4>2 DEF Charged, TypeOK
      <4>3. CASE d[1] # m
        BY <2>1, <2>3, <4>1, <4>3 DEF Charged, TypeOK
      <4>4. QED
        BY <4>2, <4>3
    <3>2. QED
      BY <3>1 DEF Charged
  <2>5. BatchesAreOpen'
    BY <1>0, <2>1 DEF BatchesAreOpen, TypeOK
  <2>6. QED
    BY <2>1, <2>4, <2>5
<1>8. ASSUME NEW w \in Workers, NEW m \in Messages, Save(w, m)
      PROVE  Paid /\ BatchesAreOpen'
  <2>1. /\ wpc[w] = "published" /\ IsCurrent(w, m)
        /\ processed' = processed \cup dirty[w] \cup {m}
        /\ dirty' = [dirty EXCEPT ![w] = {}]
        /\ todo' = [todo EXCEPT ![w] = @ \ {m}]
        /\ wpc' = [wpc EXCEPT ![w] = "loop"]
        /\ UNCHANGED <<delivered, faults>>
    BY <1>8 DEF Save, NextRow, busVars
  <2>2. \A n \in Messages : IsCurrent(w, n) => n = m
    BY <2>1, CurrentIsUnique
  <2>3. \A n \in Messages : Settled(n) => Settled(n)'
    BY <2>1, <2>2 DEF Settled, Alone
  <2>4. QED
    BY <1>0, <2>1, <2>3 DEF Charged, BatchesAreOpen, TypeOK, Alone
<1>9. ASSUME NEW w \in Workers, NEW m \in Messages, SaveThrows(w, m)
      PROVE  Paid /\ BatchesAreOpen'
  <2>1. /\ wpc[w] = "published" /\ IsCurrent(w, m) /\ faults' = faults + 1
        /\ \/ processed' = processed \cup dirty[w] \cup {m}
           \/ processed' = processed
        /\ dirty' = [dirty EXCEPT ![w] = @ \cup {m}]
        /\ todo' = [todo EXCEPT ![w] = @ \ {m}]
        /\ wpc' = [wpc EXCEPT ![w] = "loop"]
        /\ UNCHANGED delivered
    BY <1>9 DEF SaveThrows, NextRow, busVars
  <2>2. \A n \in Messages : IsCurrent(w, n) => n = m
    BY <2>1, CurrentIsUnique
  <2>3. \A n \in Messages : n # m /\ Settled(n) => Settled(n)'
    BY <2>1, <2>2 DEF Settled, Alone
  <2>4. Charged' \subseteq Charged \cup {<<m, delivered[m]>>}
    BY <1>2, <2>1, <2>3 DEF Charged
  <2>5. BatchesAreOpen'
    BY <1>0, <2>1 DEF BatchesAreOpen, TypeOK, Alone
  <2>6. QED
    BY <2>1, <2>4, <2>5
<1>10. ASSUME NEW w \in Workers, Exit(w) PROVE Paid /\ BatchesAreOpen'
  <2>1. /\ wpc[w] = "loop" /\ wpc' = [wpc EXCEPT ![w] = "idle"]
        /\ dirty' = [dirty EXCEPT ![w] = {}]
        /\ UNCHANGED <<created, todo, delivered, processed, faults>>
    BY <1>10 DEF Exit, requestVars, busVars
  <2>2. \A n \in Messages : Settled(n) => Settled(n)'
    BY <2>1 DEF Settled, Alone
  <2>3. QED
    BY <1>0, <2>1, <2>2 DEF Charged, BatchesAreOpen, TypeOK
<1>11. ASSUME NEW w \in Workers, Crash(w) PROVE Paid /\ BatchesAreOpen'
  <2>1. /\ wpc' = [wpc EXCEPT ![w] = "idle"] /\ faults' = faults + 1
        /\ todo' = [todo EXCEPT ![w] = {}] /\ dirty' = [dirty EXCEPT ![w] = {}]
        /\ UNCHANGED <<delivered, processed>>
    BY <1>11 DEF Crash, busVars
  <2>2. BatchesAreOpen'
    BY <1>0, <2>1 DEF BatchesAreOpen, TypeOK
  <2>3. \E d : Charged' \subseteq Charged \cup {d}
    <3>1. CASE \E m \in Messages : wpc[w] = "published" /\ IsCurrent(w, m)
      <4>1. PICK m \in Messages : wpc[w] = "published" /\ IsCurrent(w, m)
        BY <3>1
      <4>2. \A n \in Messages : IsCurrent(w, n) => n = m
        BY <4>1, CurrentIsUnique
      <4>3. \A n \in Messages : n # m /\ Settled(n) => Settled(n)'
        BY <2>1, <4>2 DEF Settled, Alone
      <4>4. Charged' \subseteq Charged \cup {<<m, delivered[m]>>}
        BY <1>2, <2>1, <4>3 DEF Charged
      <4>5. QED
        BY <4>4
    <3>2. CASE ~ \E m \in Messages : wpc[w] = "published" /\ IsCurrent(w, m)
      <4>1. \A n \in Messages : Settled(n) => Settled(n)'
        BY <2>1, <3>2 DEF Settled, Alone
      <4>2. Charged' \subseteq Charged
        BY <2>1, <4>1 DEF Charged
      <4>3. QED
        BY <4>2
    <3>3. QED
      BY <3>1, <3>2
  <2>4. QED
    BY <2>1, <2>2, <2>3
<1>12. CASE UNCHANGED vars
  BY <1>0, <1>12 DEF vars, Charged, Settled, IsCurrent, Oldest, BatchesAreOpen
<1>13. QED
  BY <1>3, <1>4, <1>5, <1>6, <1>7, <1>8, <1>9, <1>10, <1>11, <1>12 DEF Next, Handle, Iterate
-----------------------------------------------------------------------------
(* Every variable keeps its type, for any number of requests and workers.  *)
THEOREM TypeCorrect == Spec => []TypeOK
<1>1. Init => TypeOK
  BY BoundsAssumption DEF Init, TypeOK, Messages
<1>2. QED
  BY <1>1, TypeStep, PTL DEF Spec

(* The strengthening from which every safety property below follows.       *)
THEOREM Invariance == Spec => []IInv
<1>1. Init => IInv
  <2> SUFFICES ASSUME Init PROVE IInv
    OBVIOUS
  <2>1. TypeOK
    BY BoundsAssumption DEF Init, TypeOK, Messages
  <2>2. TxState /\ BusState /\ PostTarget
    BY DEF Init, TxState, BusState, PostTarget, HasPost, Untouched, InFlight
  <2>3. Stamped
    BY DEF Init, Stamped, InFlight, Untouched, Messages
  <2>4. WorkerState
    BY DEF Init, WorkerState
  <2>5. CausalTodo /\ CausalOrder
    BY DEF Init, CausalTodo, CausalOrder, Messages, Kinds
  <2>6. QED
    BY <2>1, <2>2, <2>3, <2>4, <2>5 DEF IInv
<1>2. IInv /\ [Next]_vars => IInv'
  BY TypeStep, TxStateStep, StampedStep, PostTargetStep, BusStateStep, WorkerStateStep,
     CausalTodoStep, CausalOrderStep DEF IInv
<1>3. QED
  BY <1>1, <1>2, PTL DEF Spec

(* The four rows a request writes are committed together or not at all.    *)
THEOREM Atomicity == Spec => []AllOrNothing
<1>1. IInv => AllOrNothing
  BY DEF IInv, TxState, Committed, Untouched, AllOrNothing
<1>2. QED
  BY <1>1, Invariance, PTL

(* Nothing reaches the bus that the database has not committed in full.    *)
THEOREM NoPhantomEvents == Spec => []DeliveredIsCommitted
<1>1. IInv => DeliveredIsCommitted
  <2> SUFFICES ASSUME IInv, NEW m \in Messages, delivered[m] > 0
               PROVE  {m[1]} \X Rows \subseteq db
    BY DEF DeliveredIsCommitted
  <2>1. PICK r \in Requests, k \in Kinds : m = <<r, k>>
    BY DEF Messages
  <2>2. ~ Untouched(r)
    BY <2>1 DEF IInv, BusState, Untouched, Rows
  <2>3. QED
    BY <2>1, <2>2 DEF IInv, TxState, Committed
<1>2. QED
  BY <1>1, Invariance, PTL

(* No message is stamped as processed that was never published.            *)
THEOREM NothingLost == Spec => []ProcessedWasDelivered
<1>1. IInv => ProcessedWasDelivered
  BY DEF IInv, BusState, ProcessedWasDelivered
<1>2. QED
  BY <1>1, Invariance, PTL

(* A committed post belongs to a committed blog.                           *)
THEOREM PostsHaveBlogs == Spec => []PostHasCommittedBlog
<1>1. IInv => PostHasCommittedBlog
  <2> SUFFICES ASSUME IInv, NEW r \in Requests, <<r, "Post">> \in db
               PROVE  \E q \in Requests : <<q, "Blog">> \in db /\ blogId[q] = postBlog[r]
    BY DEF PostHasCommittedBlog
  <2>1. PICK q \in Requests : IsTarget(r, q)
    BY DEF IInv, PostTarget, HasPost
  <2>2. <<r, "Blog">> \in db
    BY DEF IInv, TxState, Committed, Untouched, Rows
  <2>3. QED
    BY <2>1, <2>2 DEF IsTarget
<1>2. QED
  BY <1>1, Invariance, PTL

(* A request's events are published in order unless the first one failed.  *)
THEOREM EventsInOrder == Spec => []CausalOrder
<1>1. IInv => CausalOrder
  BY DEF IInv
<1>2. QED
  BY <1>1, Invariance, PTL

(* With one worker, each crash or failed save costs one duplicate at most. *)
THEOREM DuplicatesArePaidFor == Spec => []DuplicatesNeedFaults
<1>1. Init => ChargedToFaults
  <2> SUFFICES ASSUME Init PROVE ChargedToFaults
    OBVIOUS
  <2>1. Charged = {}
    BY DEF Init, Charged
  <2>2. IsFiniteSet(Charged) /\ Cardinality(Charged) <= faults
    <3>1. faults = 0
      BY DEF Init
    <3>2. IsFiniteSet(Charged) /\ Cardinality(Charged) = 0
      BY <2>1, FS_EmptySet
    <3>3. QED
      BY <3>1, <3>2
  <2>3. BatchesAreOpen
    BY DEF Init, BatchesAreOpen
  <2>4. QED
    BY <2>2, <2>3 DEF ChargedToFaults
<1>2. IInv /\ ChargedToFaults /\ [Next]_vars => ChargedToFaults'
  BY ChargedToFaultsStep DEF IInv
<1>3. IInv /\ ChargedToFaults => DuplicatesNeedFaults
  <2> SUFFICES ASSUME IInv, ChargedToFaults, Alone PROVE Cardinality(Repeated) <= faults
    BY DEF DuplicatesNeedFaults, Alone
  <2>1. IsFiniteSet(Charged) /\ Cardinality(Charged) <= faults
    BY DEF ChargedToFaults
  <2>2. Repeated \subseteq Charged
    <3> SUFFICES ASSUME NEW m \in Messages, NEW k \in 1 .. delivered[m] - 1
                 PROVE  <<m, k>> \in Charged
      BY DEF Repeated
    <3>1. delivered[m] \in Nat
      BY DEF IInv, TypeOK
    <3>2. QED
      BY <3>1 DEF Charged
  <2>3. IsFiniteSet(Repeated) /\ Cardinality(Repeated) <= Cardinality(Charged)
    BY <2>1, <2>2, FS_Subset
  <2>4. Cardinality(Repeated) \in Nat /\ Cardinality(Charged) \in Nat /\ faults \in Nat
    BY <2>1, <2>3, FS_CardinalityType, BoundsAssumption DEF IInv, TypeOK
  <2>5. QED
    BY <2>1, <2>3, <2>4
<1>4. QED
  BY <1>1, <1>2, <1>3, Invariance, PTL DEF Spec
-----------------------------------------------------------------------------
(* Each step is an acceptance of one request's two messages, a delivery,   *)
(* an acknowledgement of delivered messages, or invisible.                 *)
LEMMA StepSimulation ==
  IInv /\ [Next]_vars => [Promise!Next]_(Promise!vars)
<1> SUFFICES ASSUME IInv, [Next]_vars PROVE [Promise!Next]_(Promise!vars)
  OBVIOUS
<1> USE DEF IInv, TypeOK, Promise!vars
<1>1. ASSUME NEW r \in Requests, Commit(r) PROVE Promise!Next
  <2>1. db' = db \cup ({r} \X Rows)
    BY <1>1 DEF Commit, TxState
  <2>2. Outbox' = Outbox \cup ({r} \X Kinds)
    BY <2>1 DEF Outbox, Messages, Rows
  <2>3. ({r} \X Kinds) \cap Outbox = {}
    BY <1>1 DEF Commit, TxState, Untouched, Outbox, InFlight, Rows
  <2>4. UNCHANGED <<delivered, processed>>
    BY <1>1 DEF Commit, busVars
  <2>5. Promise!Accept({r} \X Kinds)
    BY <2>2, <2>3, <2>4 DEF Promise!Accept
  <2>6. QED
    BY <2>5 DEF Promise!Next
<1>2. ASSUME NEW w \in Workers, NEW m \in Messages, Publish(w, m) PROVE Promise!Next
  <2>1. m \in Outbox
    BY <1>2 DEF Publish, IsCurrent, BusState, Outbox
  <2>2. Promise!Deliver(m)
    BY <1>2, <2>1 DEF Publish, Promise!Deliver, requestVars, Outbox
  <2>3. QED
    BY <2>2 DEF Promise!Next
<1>3. ASSUME NEW w \in Workers, NEW m \in Messages, Save(w, m) \/ SaveThrows(w, m)
      PROVE  [Promise!Next]_(Promise!vars)
  <2>1. UNCHANGED <<Outbox, delivered>>
    BY <1>3 DEF Save, SaveThrows, requestVars, busVars, Outbox
  <2>2. CASE processed' = processed \cup (dirty[w] \cup {m})
    <3>1. \A n \in dirty[w] \cup {m} : delivered[n] > 0
      BY <1>3 DEF Save, SaveThrows, WorkerState
    <3>2. \A n \in dirty[w] \cup {m} : n \in Outbox
      BY <3>1 DEF BusState, Outbox
    <3>3. Promise!Acknowledge(dirty[w] \cup {m})
      BY <2>1, <2>2, <3>1, <3>2 DEF Promise!Acknowledge
    <3>4. QED
      BY <3>3 DEF Promise!Next
  <2>3. CASE UNCHANGED processed
    BY <2>1, <2>3
  <2>4. QED
    BY <1>3, <2>2, <2>3 DEF Save, SaveThrows
<1>4. ASSUME NEW r \in Requests,
             AddBlog(r) \/ SaveBlog(r) \/ AddPost(r) \/ SavePost(r) \/ Rollback(r)
      PROVE  UNCHANGED Promise!vars
  BY <1>4 DEF AddBlog, SaveBlog, AddPost, SavePost, Rollback, busVars, Outbox
<1>5. ASSUME NEW w \in Workers,
             Fetch(w) \/ Exit(w) \/ Crash(w)
             \/ \E m \in Messages : SkipUnreadable(w, m) \/ PublishThrows(w, m)
      PROVE  UNCHANGED Promise!vars
  BY <1>5 DEF Fetch, Exit, Crash, SkipUnreadable, PublishThrows, requestVars, busVars, Outbox
<1>6. CASE UNCHANGED vars
  BY <1>6 DEF vars, Outbox
<1>7. QED
  BY <1>1, <1>2, <1>3, <1>4, <1>5, <1>6 DEF Next, Handle, Iterate

(* The outbox implements its abstract promise: atomic acceptance, delivery *)
(* of accepted messages only, acknowledgement after delivery.              *)
THEOREM Refinement == Spec => KeepsPromise
<1>1. Init => Promise!Init
  BY DEF Init, Promise!Init, Outbox
<1>2. QED
  BY <1>1, Invariance, StepSimulation, PTL DEF Spec, KeepsPromise, Promise!Spec
=============================================================================
