------------------------------- MODULE TxOutbox -------------------------------
(***************************************************************************)
(* The transactional outbox of src/TxOutboxWithContracts: GET /dbtest      *)
(* writes a blog, a post and one outbox row for each in one SQL Server     *)
(* transaction; a separate one-shot worker process reads the oldest        *)
(* unprocessed rows, publishes each and stamps it as processed.            *)
(*                                                                         *)
(* A message is named by the request that wrote it and by its contract, so *)
(* an outbox row and the message in it are the same pair.  The database is *)
(* READ COMMITTED with locking, SQL Server's default: a reader waits for   *)
(* a row another transaction has inserted and not yet committed.           *)
(***************************************************************************)
EXTENDS Naturals, FiniteSets

CONSTANTS Requests,    \* GET /dbtest calls, a client's retry being a new one
          Workers,     \* worker processes, each started any number of times
          Known,       \* contracts the worker's Messages assembly can load
          BatchSize,   \* Take(100)
          MaxFaults    \* bound on crashes and failed saves of the workers

Kinds == {"BlogCreated", "PostCreated"}
Rows == {"Blog", "Post"} \cup Kinds
Messages == Requests \X Kinds

ASSUME KnownAssumption == Known \subseteq Kinds
ASSUME BoundsAssumption == BatchSize \in Nat \ {0} /\ MaxFaults \in Nat

VARIABLES
  pc,          \* request -> how far its handler has come
  writes,      \* request -> row kinds inserted in its open transaction
  db,          \* committed rows, as <<request, row kind>>
  clock,       \* stamps handed out so far; no two of one request are equal
  created,     \* message -> CreatedOnUtc, 0 before AddOutboxMessage
  lastBlogId,  \* identity value of the Blogs table; a rollback keeps it
  blogId,      \* request -> Blog.BlogId, 0 until the insert returns it
  postBlog,    \* request -> Post.BlogId, 0 until the post is added
  processed,   \* messages whose committed ProcessedOnUtc is not null
  wpc,         \* worker -> "idle", "loop" or "published"
  todo,        \* worker -> rows of pendingMessages not yet iterated over
  dirty,       \* worker -> tracked rows stamped in memory, save not confirmed
  delivered,   \* message -> how often PublishAsync succeeded for it
  refused,     \* messages for which PublishAsync has thrown (history)
  faults       \* crashes between publish and save, and failed saves

requestVars == <<pc, writes, db, clock, created, lastBlogId, blogId, postBlog>>
workerVars == <<wpc, todo, dirty>>
busVars == <<delivered, refused>>
vars == <<pc, writes, db, clock, created, lastBlogId, blogId, postBlog,
          processed, wpc, todo, dirty, delivered, refused, faults>>

Outbox == db \cap Messages
\* Mutant: the query forgets the ProcessedOnUtc filter.
UnprocessedUnfiltered == Outbox
Unprocessed == Outbox \ processed
InFlight == {"blogAdded", "blogSaved", "postAdded", "postSaved"}

Init == /\ pc = [r \in Requests |-> "idle"]
        /\ writes = [r \in Requests |-> {}]
        /\ db = {}
        /\ clock = 0
        /\ created = [m \in Messages |-> 0]
        /\ lastBlogId = 0
        /\ blogId = [r \in Requests |-> 0]
        /\ postBlog = [r \in Requests |-> 0]
        /\ processed = {}
        /\ wpc = [w \in Workers |-> "idle"]
        /\ todo = [w \in Workers |-> {}]
        /\ dirty = [w \in Workers |-> {}]
        /\ delivered = [m \in Messages |-> 0]
        /\ refused = {}
        /\ faults = 0
-----------------------------------------------------------------------------
(***************************************************************************)
(* The producer.                                                           *)
(***************************************************************************)
\* OutboxMessage.Create stamps the row with the time of the call, not of the commit.
AddOutboxMessage(m) == /\ clock' = clock + 1
                       /\ created' = [created EXCEPT ![m] = clock + 1]

\* A request opens its transaction and adds the new blog and its event to the
\* change tracker.
AddBlog(r) == /\ pc[r] = "idle"
              /\ pc' = [pc EXCEPT ![r] = "blogAdded"]
              /\ AddOutboxMessage(<<r, "BlogCreated">>)
              /\ UNCHANGED <<writes, db, lastBlogId, blogId, postBlog>>
              /\ UNCHANGED <<processed, workerVars, busVars, faults>>

\* Mutant: the first save runs outside the transaction.
SaveBlogAutocommit(r) ==
  /\ pc[r] = "blogAdded"
  /\ pc' = [pc EXCEPT ![r] = "blogSaved"]
  /\ db' = db \cup {<<r, "Blog">>, <<r, "BlogCreated">>}
  /\ lastBlogId' = lastBlogId + 1
  /\ blogId' = [blogId EXCEPT ![r] = lastBlogId + 1]
  /\ UNCHANGED <<writes, clock, created, postBlog>>
  /\ UNCHANGED <<processed, workerVars, busVars, faults>>

\* Mutant: the insert's identity is not read back, and the blog keeps the
\* temporary, negative key of the change tracker.
SaveBlogTemporaryKey(r) ==
  /\ pc[r] = "blogAdded"
  /\ pc' = [pc EXCEPT ![r] = "blogSaved"]
  /\ writes' = [writes EXCEPT ![r] = {"Blog", "BlogCreated"}]
  /\ lastBlogId' = lastBlogId + 1
  /\ blogId' = [blogId EXCEPT ![r] = 0 - (lastBlogId + 1)]
  /\ UNCHANGED <<db, clock, created, postBlog>>
  /\ UNCHANGED <<processed, workerVars, busVars, faults>>

\* First SaveChangesAsync: both inserts, inside the open transaction.
SaveBlog(r) == /\ pc[r] = "blogAdded"
               /\ pc' = [pc EXCEPT ![r] = "blogSaved"]
               /\ writes' = [writes EXCEPT ![r] = {"Blog", "BlogCreated"}]
               /\ lastBlogId' = lastBlogId + 1
               /\ blogId' = [blogId EXCEPT ![r] = lastBlogId + 1]
               /\ UNCHANGED <<db, clock, created, postBlog>>
               /\ UNCHANGED <<processed, workerVars, busVars, faults>>

\* Mutant: the blogs are read uncommitted.
VisibleNoLock(r) == {q \in Requests : <<q, "Blog">> \in db \/ "Blog" \in writes[q]}

\* The blogs r's transaction can read, and those it has to wait for.
Visible(r) == {q \in Requests : <<q, "Blog">> \in db \/ (q = r /\ "Blog" \in writes[r])}
Locked(r) == {q \in Requests \ {r} : "Blog" \in writes[q]}

\* Reads the first blog by id, which need not be r's own, and hangs the post on it.
AddPost(r) == /\ pc[r] = "blogSaved"
              /\ \E first \in Visible(r) :
                   /\ \A q \in Visible(r) \cup Locked(r) : blogId[first] <= blogId[q]
                   /\ postBlog' = [postBlog EXCEPT ![r] = blogId[first]]
              /\ pc' = [pc EXCEPT ![r] = "postAdded"]
              /\ AddOutboxMessage(<<r, "PostCreated">>)
              /\ UNCHANGED <<writes, db, lastBlogId, blogId>>
              /\ UNCHANGED <<processed, workerVars, busVars, faults>>

SavePost(r) == /\ pc[r] = "postAdded"
               /\ pc' = [pc EXCEPT ![r] = "postSaved"]
               /\ writes' = [writes EXCEPT ![r] = @ \cup {"Post", "PostCreated"}]
               /\ UNCHANGED <<db, clock, created, lastBlogId, blogId, postBlog>>
               /\ UNCHANGED <<processed, workerVars, busVars, faults>>

\* The server commits.  The answer may be lost on its way back: the handler then
\* rethrows, and its caller sees a failure although the rows are there.
Commit(r) == /\ pc[r] = "postSaved"
             /\ \E outcome \in {"ok", "failed"} : pc' = [pc EXCEPT ![r] = outcome]
             /\ db' = db \cup ({r} \X writes[r])
             /\ writes' = [writes EXCEPT ![r] = {}]
             /\ UNCHANGED <<clock, created, lastBlogId, blogId, postBlog>>
             /\ UNCHANGED <<processed, workerVars, busVars, faults>>

\* Mutant: the error path commits what was saved so far.
RollbackCommits(r) ==
  /\ pc[r] \in InFlight
  /\ pc' = [pc EXCEPT ![r] = "failed"]
  /\ db' = db \cup ({r} \X writes[r])
  /\ writes' = [writes EXCEPT ![r] = {}]
  /\ UNCHANGED <<clock, created, lastBlogId, blogId, postBlog>>
  /\ UNCHANGED <<processed, workerVars, busVars, faults>>

\* An await throws (or the process dies) and the transaction is rolled back.
Rollback(r) == /\ pc[r] \in InFlight
               /\ pc' = [pc EXCEPT ![r] = "failed"]
               /\ writes' = [writes EXCEPT ![r] = {}]
               /\ UNCHANGED <<db, clock, created, lastBlogId, blogId, postBlog>>
               /\ UNCHANGED <<processed, workerVars, busVars, faults>>
-----------------------------------------------------------------------------
(***************************************************************************)
(* The worker.  Iterating over the sorted list is taking the oldest row of *)
(* todo again and again.                                                   *)
(***************************************************************************)
\* Mutant: no OrderBy(CreatedOnUtc).
OldestUnordered(ms, batch) == batch \subseteq ms
Oldest(ms, batch) == \A m \in batch, n \in ms \ batch : created[m] <= created[n]
IsCurrent(w, m) == m \in todo[w] /\ Oldest(todo[w], {m})

\* A process starts and reads the first rows by CreatedOnUtc; it waits for rows
\* inserted by transactions that are still open.
Fetch(w) == /\ wpc[w] = "idle"
            /\ \A r \in Requests : writes[r] \cap Kinds = {}
            /\ \E batch \in SUBSET Unprocessed :
                 /\ Cardinality(batch) <= BatchSize
                 /\ batch = Unprocessed \/ Cardinality(batch) = BatchSize
                 /\ Oldest(Unprocessed, batch)
                 /\ todo' = [todo EXCEPT ![w] = batch]
            /\ wpc' = [wpc EXCEPT ![w] = "loop"]
            /\ UNCHANGED <<requestVars, processed, dirty, busVars, faults>>

NextRow(w, m) == todo' = [todo EXCEPT ![w] = @ \ {m}]

\* Mutant: an unreadable row ends the run.
SkipUnreadableStops(w, m) ==
  /\ wpc[w] = "loop" /\ IsCurrent(w, m)
  /\ m[2] \notin Known
  /\ todo' = [todo EXCEPT ![w] = {}]
  /\ UNCHANGED <<requestVars, processed, wpc, dirty, busVars, faults>>

\* GetType yields null for an unknown contract, Deserialize throws, the catch
\* swallows it and the loop goes on with the next row.
SkipUnreadable(w, m) == /\ wpc[w] = "loop" /\ IsCurrent(w, m)
                        /\ m[2] \notin Known
                        /\ NextRow(w, m)
                        /\ UNCHANGED <<requestVars, processed, wpc, dirty, busVars, faults>>

\* The bus takes the message; the stamp is not yet saved.
Publish(w, m) == /\ wpc[w] = "loop" /\ IsCurrent(w, m)
                 /\ m[2] \in Known
                 /\ wpc' = [wpc EXCEPT ![w] = "published"]
                 /\ delivered' = [delivered EXCEPT ![m] = @ + 1]
                 /\ UNCHANGED <<requestVars, processed, todo, dirty, refused, faults>>

\* Mutant: the row is stamped before it is published.
PublishThrowsStamped(w, m) ==
  /\ wpc[w] = "loop" /\ IsCurrent(w, m)
  /\ m[2] \in Known
  /\ refused' = refused \cup {m}
  /\ dirty' = [dirty EXCEPT ![w] = @ \cup {m}]
  /\ NextRow(w, m)
  /\ UNCHANGED <<requestVars, processed, wpc, delivered, faults>>

PublishThrows(w, m) == /\ wpc[w] = "loop" /\ IsCurrent(w, m)
                       /\ m[2] \in Known
                       /\ refused' = refused \cup {m}
                       /\ NextRow(w, m)
                       /\ UNCHANGED <<requestVars, processed, wpc, dirty, delivered, faults>>

\* Mutant: the save marks the whole batch.
SaveBatch(w, m) ==
  /\ wpc[w] = "published" /\ IsCurrent(w, m)
  /\ processed' = processed \cup dirty[w] \cup todo[w]
  /\ dirty' = [dirty EXCEPT ![w] = {}]
  /\ NextRow(w, m)
  /\ wpc' = [wpc EXCEPT ![w] = "loop"]
  /\ UNCHANGED <<requestVars, busVars, faults>>

\* SaveChangesAsync writes every stamped row the context still tracks as modified.
Save(w, m) == /\ wpc[w] = "published" /\ IsCurrent(w, m)
              /\ processed' = processed \cup dirty[w] \cup {m}
              /\ dirty' = [dirty EXCEPT ![w] = {}]
              /\ NextRow(w, m)
              /\ wpc' = [wpc EXCEPT ![w] = "loop"]
              /\ UNCHANGED <<requestVars, busVars, faults>>

\* The save throws, having taken effect on the server or not; the stamp stays in
\* the change tracker and goes out with a later save of this run.
SaveThrows(w, m) == /\ wpc[w] = "published" /\ IsCurrent(w, m)
                    /\ faults < MaxFaults
                    /\ faults' = faults + 1
                    /\ \/ processed' = processed \cup dirty[w] \cup {m}
                       \/ UNCHANGED processed
                    /\ dirty' = [dirty EXCEPT ![w] = @ \cup {m}]
                    /\ NextRow(w, m)
                    /\ wpc' = [wpc EXCEPT ![w] = "loop"]
                    /\ UNCHANGED <<requestVars, busVars>>

\* The list is exhausted and the process ends.
Exit(w) == /\ wpc[w] = "loop" /\ todo[w] = {}
           /\ wpc' = [wpc EXCEPT ![w] = "idle"]
           /\ dirty' = [dirty EXCEPT ![w] = {}]
           /\ UNCHANGED <<requestVars, processed, todo, busVars, faults>>

Crash(w) == /\ wpc[w] # "idle"
            /\ faults < MaxFaults
            /\ faults' = faults + 1
            /\ wpc' = [wpc EXCEPT ![w] = "idle"]
            /\ todo' = [todo EXCEPT ![w] = {}]
            /\ dirty' = [dirty EXCEPT ![w] = {}]
            /\ UNCHANGED <<requestVars, processed, busVars>>
-----------------------------------------------------------------------------
Handle(r) == \/ SaveBlog(r) \/ AddPost(r) \/ SavePost(r)
             \/ Commit(r) \/ Rollback(r)

Iterate(w) == \/ Exit(w)
              \/ \E m \in Messages : \/ SkipUnreadable(w, m) \/ Publish(w, m)
                                     \/ PublishThrows(w, m)
                                     \/ Save(w, m) \/ SaveThrows(w, m)

Next == \/ \E r \in Requests : AddBlog(r) \/ Handle(r)
        \/ \E w \in Workers : Fetch(w) \/ Iterate(w) \/ Crash(w)

Spec == Init /\ [][Next]_vars

\* A handler that was entered and a worker process that was started keep
\* running; nobody has to call /dbtest or to start a worker.
FairSpec == /\ Spec
            /\ \A r \in Requests : WF_vars(Handle(r))
            /\ \A w \in Workers : WF_vars(Iterate(w))
-----------------------------------------------------------------------------
TypeOK ==
  /\ pc \in [Requests -> {"idle", "ok", "failed"} \cup InFlight]
  /\ writes \in [Requests -> SUBSET Rows]
  /\ db \subseteq Requests \X Rows
  /\ clock \in Nat /\ created \in [Messages -> Nat]
  /\ lastBlogId \in Nat
  /\ blogId \in [Requests -> Nat] /\ postBlog \in [Requests -> Nat]
  /\ processed \subseteq Messages
  /\ wpc \in [Workers -> {"idle", "loop", "published"}]
  /\ todo \in [Workers -> SUBSET Messages]
  /\ dirty \in [Workers -> SUBSET Messages]
  /\ delivered \in [Messages -> Nat]
  /\ refused \subseteq Messages
  /\ faults \in 0 .. MaxFaults

(* A message on the bus speaks of data that exists: its outbox row is      *)
(* committed together with the other three rows of its transaction, so     *)
(* that no consumer hears of a blog or post that was rolled back.          *)
DeliveredIsCommitted ==
  \A m \in Messages : delivered[m] > 0 => {m[1]} \X Rows \subseteq db

(* The business tables and the outbox never disagree: of the four rows a   *)
(* request writes, all are committed or none, whatever failed in between.  *)
AllOrNothing ==
  \A r \in Requests : {r} \X Rows \subseteq db \/ ({r} \X Rows) \cap db = {}

(* No message is lost by being stamped too early: ProcessedOnUtc is set    *)
(* only on rows that were published, also when a failed save leaves the    *)
(* stamp in the change tracker and a save for another row writes it.       *)
ProcessedWasDelivered == \A m \in processed : delivered[m] > 0

(* Whichever blog the post was hung on is there once the post is, however  *)
(* the transaction that created that blog ended.                           *)
PostHasCommittedBlog ==
  \A r \in Requests : <<r, "Post">> \in db =>
     \E q \in Requests : <<q, "Blog">> \in db /\ blogId[q] = postBlog[r]

(* A request's PostCreated reaches the bus before its BlogCreated only if  *)
(* publishing the latter has failed or the worker cannot read it: the loop *)
(* goes on after an error instead of stopping.                             *)
CausalOrder ==
  \A r \in Requests :
     delivered[<<r, "PostCreated">>] > 0 =>
        \/ delivered[<<r, "BlogCreated">>] > 0
        \/ <<r, "BlogCreated">> \in refused
        \/ "BlogCreated" \notin Known

(* With one worker, a message is published again only after a crash or a   *)
(* failed save, and each of those costs one duplicate at the most: the     *)
(* deliveries that another of the same message followed are no more.       *)
Repeated == UNION {{m} \X (1 .. delivered[m] - 1) : m \in Messages}
DuplicatesNeedFaults ==
  (\A v, w \in Workers : v = w) => Cardinality(Repeated) <= faults

(* Where every worker is started again and again and publishing fails only *)
(* finitely often, every readable committed row is published and marked in *)
(* the end: neither a failed row nor an unsaved stamp is forgotten.  That  *)
(* unreadable rows do not fill a whole batch, and so keep out all younger  *)
(* ones, is not said here: the bounds of the run see to it.                *)
StartedForever == \A w \in Workers : []<>(wpc[w] = "loop")
BusRecovers == <>[][~ \E w \in Workers, m \in Messages : PublishThrows(w, m)]_vars
Drained ==
  StartedForever /\ BusRecovers =>
     \A m \in Messages : (m \in Outbox /\ m[2] \in Known) ~> (m \in processed)

Promise == INSTANCE DeliveryPromise
             WITH accepted <- Outbox, acked <- processed,
                  Units <- {{r} \X Kinds : r \in Requests}

(* The tables, the transaction and the worker loop keep the promise of a   *)
(* transactional outbox: atomic acceptance, at-least-once delivery of what *)
(* was accepted, acknowledgement only after delivery.                      *)
KeepsPromise == Promise!Spec
=============================================================================
