# Verification of the poc-oh samples

The repository is a collection of proof-of-concept solutions. Most of them show
an API and keep no state. A few are small distributed programs: a transactional
outbox, an order saga over a message broker, long-running jobs in a scheduler
cluster, an identity server with a shared user list, a web application over a
database. Two of the web samples carry browser scripts with state of their own: a
reconnection dialog and client-side form validation. This directory holds TLA+ models of those, TLC configurations that
check them on small instances, and TLAPS proofs of their main safety properties
for every instance.

`PROJECT.json` maps every definition to the lines it was translated from, lists
the runs, the hazards of the code with their lines, the disagreements found
between code and documentation, and the theorems. Paths below are relative to
`src/src/`.

    tlc -workers 2 -config TxOutboxSafety.cfg MCTxOutbox
    tlapm TxOutboxProofs.tla

## 1. Inventory

| Component | State | Operations | What is hard | What makes it correct |
|---|---|---|---|---|
| **Transactional outbox** `TxOutboxWithContracts` | SQL Server tables Blogs, Posts, OutboxMessages; a transaction per request; a worker's list of rows and EF change tracker | GET /dbtest; a worker run (query, then publish, stamp and save per row) | overlapping transactions, several workers, a crash between publish and save, a save that fails after it took effect, a loop that swallows exceptions | all four rows of a request or none; nothing on the bus that was rolled back; no row stamped unpublished; every readable row published in the end; duplicates only where faults explain them |
| **Order saga** `SagasWithWolverine` | stored `Order` documents, RabbitMQ queues, scheduled timeouts, dead letters, flags and ids of the Orders page | both buttons of the page, two endpoints with client retries, three saga handlers | three message types that overtake each other, redelivery, lost replies, an input edited while a request is out | no stored order without a timeout; no accepted order lost; an ended order stays ended; the page says what happened |
| **Outbox relay, Team A** `QuartzNetAspire` | clustered Quartz store (triggers, fired rows), run state and static order counter of each process | startup, fire, check-in recovery, SIGTERM, kill, the loop's pause and publish, dashboard Interrupt and Trigger now | never-ending job in a cluster, rows of dead processes, stored triggers that are blocked, a live node taken for dead | one relay per cluster until a live node is taken for dead; no order id twice from a process; a stored trigger gets its run; shutdown ends |
| **Order listener, Team B** `QuartzNetAspire` | in-memory scheduler per replica, subscription, queue on RabbitMQ | subscribe, process, interrupt, trigger, kill | the queue exists only from the first subscription; several handlers at once; requeue of messages in hand; competing replicas | after the first subscription no order is lost; each is processed at least once |
| **Cleanup and report jobs** `QuartzNetAspire` | none | timer ticks | none | - |
| **Accounts** `AspirePlaywrightTodoApp/TodoApp.AuthServer` | one list of users shared by `MutableUserStore` and Duende's `TestUserStore` | seeding endpoints, Create page, Login page, external login | the list is locked on one side only; check-then-act; validate-then-look-up | user names are unique; a login is for a user that exists |
| **Consent, device, CIBA, grants pages** same project | IdentityServer's stores | page handlers | all in the library | - |
| **Todo API and SPA** `AspirePlaywrightTodoApp` | TodoItems table; session, list and title of each tab | list, create, update, delete; sign in and out, load, add, toggle, remove | answers that overtake each other, two tabs, sessions that change with requests under way, PUT in two steps | a tab shows its own user's items and the writes it was told of; what is removed stays removed |
| **Migration service** same solution | schema and seed rows | migrate, seed inside a retrying strategy, stop the host | retry after a lost answer, a change tracker that survives the retry | no more copies of a seed than failed saves explain; the API starts on a migrated database |
| **Reconnection dialog** `Azure/EntraAuthBlazor10SI` | dialog open or closed, a visibilitychange listener, invocations under way | events of Blazor, retry, resume, return to the page | tries that overlap, results used after an await, failures noticed late | always a way back; a page keeps a circuit that has come back, and no listener, unless invocations overlap; nobody has to click |
| **Client-side validation** `Azure/BlankRazorPages8` (vendored: jQuery Validate 1.19.5 and the unobtrusive adapters) | rules per field, lists of the last check, messages and summary, remembered answers, pending requests, a waiting submit | parse, check on key, blur, click and submit, reset, remote answer | answers to values that have changed, requests replaced or failed, a submit that waits, fields added late | a form leaves only with valid values; the pending count is right; messages are of the last check; a waiting submit ends |
| **Container endpoints** `UsefulContainerEndpoints` | warm-up and health flags | probes, SIGTERM | signal during warm-up, grace period | no traffic before ready or after shutdown began |
| **Package downloader** `VibeCodedDownloader` | breadth-first queue, files | dequeue, download, enqueue dependencies | no visited set | every dependency fetched; it ends |
| **Natural sort comparer** `NaturalSortBenchmark` | none (pure) | Compare | index arithmetic, overflow | a total order, the documented one |
| **CoreWCF todo service** `SampleCoreWcfNet10` | a ConcurrentDictionary | add, list, complete, delete | one compare-and-swap loop | a deleted item stays deleted |
| **Unit of work over two contexts** `DbPlayground` | one connection and transaction | begin, save, commit | sequential demonstration | both contexts commit or neither |
| **Everything else** (Dapr pub/sub, DTFx, Azure, RustFS, Testcontainers, schema deployment, XEvents, WebAssembly hosts, language and build samples) | none of their own | library calls | in the libraries | - |

How they interact: the solutions are independent programs. Inside a solution
processes share a database (outbox, Quartz store, todo), a broker (saga, relay
and listener), an HTTP API (saga page and API, SPA and todo API) or a list in
memory (accounts). The outbox and the relay are two versions of one idea, but
share no code: the relay of `QuartzNetAspire` invents its orders and has no
table.

The hazards each component is exposed to are in `PROJECT.json` ("hazards"), at
the line where they bite. Those without a property say why.

The validation scripts are third-party code kept in the repository. They are
modelled nevertheless: they hold most of the state the repository's JavaScript
has, and `BlankRazorPages8` ships them with every page that includes the
validation partial. (No page of the samples has a form yet; the forms of the
run are ours.) `AzureSignInCustomRedirectUri` has the same adapters over jQuery
Validate 1.17.0, whose stopRequest differs; that copy is not modelled.

## 2. Modules

| Module | What it is |
|---|---|
| `DeliveryPromise` | abstract: what at-least-once delivery promises (atomic acceptance of a unit, delivery of accepted messages only and at least once, acknowledgement after delivery) |
| `TxOutbox` | /dbtest, the database, the worker; implements `DeliveryPromise` |
| `OrderSaga` | Orders page, API endpoints, queues, saga handlers |
| `RelayCluster` | the outbox-relay job in a cluster of scheduled workers |
| `OrderListener` | the order-listener job in its replicas, over the queue; implements `DeliveryPromise` |
| `TodoStore` | the todo table, the worker that seeds it, the API's handlers |
| `TodoApp` | the tabs of the single-page app, composed with `TodoStore` (EXTENDS) |
| `Reconnect` | the reconnection dialog's script between user, document and Blazor |
| `UnobtrusiveAdapters` | data-val attributes to rules, and what rules demand: operators only |
| `FormValidation` | a validated form over `UnobtrusiveAdapters` (EXTENDS) |
| `MC...` | values of the constants for TLC |
| `...Proofs` | theorems and proofs of the module they are named after |

Operators marked "Mutant" are faulty versions of the definition that follows
them. No specification uses them. They show that each property can be broken by
a plausible mistake in the code: put in place of the definition they name, TLC
finds the property violated.

### TxOutbox

The handler of `Program.cs` (SampleProducer) is cut where it awaits:

| Code | Action |
|---|---|
| begin transaction, add blog and event | `AddBlog` |
| first SaveChangesAsync: two inserts, identity assigned | `SaveBlog` |
| read of the first blog, add post and event | `AddPost` |
| second SaveChangesAsync | `SavePost` |
| CommitAsync, with its answer received or lost | `Commit` |
| any await throws, or the process dies | `Rollback` |

The isolation level is SQL Server's default. A reader waits for rows another
open transaction has inserted: `AddPost` takes the blog with the lowest id only
when no uncommitted blog of another request could be lower, and `Fetch` waits
while any transaction holds inserted outbox rows. The query itself is one step;
what another worker stamps during its scan counts as before or after it. Identity values are consumed
even when the transaction rolls back. `created` numbers the calls of
`OutboxMessage.Create`, not the commits.

A worker (`TxOutboxWithContracts.Worker/Program.cs`) is `Fetch` (the ordered
`Take(100)`), then for the oldest row in hand one of `SkipUnreadable` (the type
cannot be loaded, the exception is swallowed), `Publish`, `PublishThrows`; after
`Publish` one of `Save` or `SaveThrows`; at the end `Exit`. `Crash` may come
anywhere. `dirty` is the EF change tracker: a stamp whose save threw stays there
and goes out with the next save of the run, whichever row that save is for.
`delivered` and `refused` are what the bus has seen.

Abstracted: a message is the pair of the request that wrote it and its contract;
payloads, the log lines and the migration at startup are left out. So is the
type a message is published as: the worker deserializes to `object` and calls
`PublishAsync` with that static type, which is listed as a hazard.

### OrderSaga

The page (`Orders.razor`) is `ClickStart`/`ClickComplete` (what happens before
the await, including the early returns) and `...Accepted`, `...ReplyLost`,
`...Fails` (what the answer does). `PostStart` and `PostComplete` are the two
endpoints. `...ReplyLost` is the retry of `AddStandardResilienceHandler`: the
endpoint ran, the answer was lost, the client posts again and the page keeps
waiting. The id in the input may be edited meanwhile (`EditOrderId`); the id in
the request is the one submitted. `Start`, `HandleComplete` and `HandleTimeout`
are the handlers of `SampleSaga.cs` with their NotFound branches; each also
throws to the dead letters (`...Throws`) or commits and crashes before its
message is acknowledged, so that the message comes again.

RabbitMQ and Wolverine are not in the repository. Assumed of them: one queue per
message type and no order between types, at-least-once delivery, saga state and
scheduled timeout in one transaction, a timeout of a missing saga ignored, a
second insert of a stored id refused.

### RelayCluster

`Startup` is `ScheduledWorker/Program.cs`: the start trigger is stored again by
every process that starts. `Fire`, `Recover`, `RecoverLate`, `Shutdown`,
`Stopped` and `Crash` are the clustered scheduler as configured there
(DisallowConcurrentExecution, check-ins, no RequestRecovery, WaitForJobsToComplete).
`NextOrder`, `Publish`, `Return` and `PublishThrows` are the loop of
`OutboxRelayJob.Execute`, once for each run: a process may have several
(`Runs`, up to `MaxRuns` each), since a run that has lost its row does not keep
the scheduler from starting another one, in the same process too; `cancelled` holds the runs whose token has fired, which
the code looks at only in the pause, at the head of the loop and inside
PublishAsync. `Interrupt` and `TriggerNow` are the dashboard; it is attached to
the store, so that Trigger now needs no process that is up, only the job, which
is there after the first startup. `RecoverLate` is a node that runs on although
the others have given it up: what holds only until then says so (`~late`), what
holds in any case does not.

### OrderListener

`Startup` is `QueueWorker/Program.cs`: an in-memory store, so that a process
begins with its StartNow trigger and loses what it had (`Crash`, `Stopped`).
`Fire`, `Interrupt`, `TriggerNow` and `Shutdown` are the scheduler as configured,
each replica its own: DisallowConcurrentExecution holds within a process only.
`Execute` is `Fire` (up to the subscription), `Subscribed` or `SubscribeThrows`,
`Wakes` (the endless delay is cancelled), `Disposed` (the subscription is
disposed once no handler runs) and `ExecuteEnds`. The message handler is `Begin`,
`Process` (its delay is over, the order counted) or `HandlerCancelled`, and `Ack`.
A process may have a handler for each order it was sent, all at once: the
handler counts with Interlocked, and nothing in the repository limits the
prefetch. `working` and `done` are a process's handlers before and after their
pause's end, each an order and the connection it came by (`conn` numbers them):
an acknowledgement after the connection was lost settles nothing.

EasyNetQ, RabbitMQ and the relay are external: the durable queue exists from the
first subscription on (`dropped` holds what was published before), deliveries
are acknowledged after their handler, dispose cancels the handlers and waits for
all of them, whatever is unacknowledged when a consumer or connection goes is queued
again. That a shutdown fires the token of a running job is what the summary of
`OrderListenerJob` says (lines 7-10).

`DeliveryPromise` is implemented by `KeepsPromise`: an order is accepted when it
is published and finds a queue (each a unit of its own), delivered when its
handler ends (`Process`; counted up to twice, which is what the history variables
tell apart), and acknowledged when it is neither in the queue nor with a worker.
An acknowledged order that came back would be a step the promise does not have.

### TodoStore and TodoApp

A connection of the browser carries one call: who asked, what, and how far the
API has got (`sent`, `read`, `answered`). `GetTodos`, `PostTodo` and
`DeleteTodo` are one statement each; PUT is `PutReads` and `PutSaves`, since its
read and its save are two statements without a transaction, and a save that
finds no row throws. `Dies` is a process that dies under a call nobody waits for
any more. `version` counts commits; with `at` in an answer and `shownAt`,
`acked` in a tab it says which state a list is of. Of two loads of one tab
`newest` is the later; `showing` says whether the list came from it.

`seeding` is the migration worker: `SeedAsync` asks AnyAsync and adds the seeds
to the context, the save may commit (`SeedsSaved`), commit with its answer lost
(`SaveAnswerLost`) or fail (`SaveFails`). The strategy runs the delegate again
with the same context, whose rows are still tracked; `tracked` counts them. If
the save failed before its commit, the retry finds no row, adds the seeds a second
time, and the next save writes both copies: `SeedCopies` bounds them, `SeededOnce`
is what the documentation promises. The API serves and pages load only when the worker is done (`WaitForCompletion`).

A tab is checking its session, signed in, signed out, or away at the auth
server. `Reload` and `Logout` leave the tab's calls to themselves: the server
finishes them, nobody gets the answer. `Logout` is logoff() together with the
page it leads away from: what answers arrive between the two are then dropped a
moment early. `Return` is the redirect back from the auth server, which is not
the SPA's own code. The page has no error handler, so a
refused or broken call (`Fails`) changes nothing it shows.

### Reconnect

Each handler of the script is an action, cut at its awaits. An invocation of
`retry` is awaiting reconnect, then resumeCircuit, or has missed the server and
is about to throw (`failing`): the error may come long after the server is back.
Blazor's attempts, the server, the loss of the circuit and the document's
visibility are external. So is the "hide" that follows a successful resume: the
script's resume() never closes the dialog itself, and relies on that event.

Invocations overlap, and then a late result may throw away what another has
brought back, which the code does not guard against. Two histories keep the
properties as narrow as that: `overlapped` (two invocations ran at the same time)
excuses a listener left on a connected page, and `outrun` (the invocations that
were running while the circuit came back otherwise) a reload of one. An
invocation that began after the circuit was back, or that was alone with its
outage, is not excused, however many others overlap. `Calls` is a bound on
invocations at a time: a return to the page waits while all are taken
(`BecomesVisible`), which the script does not do.

### UnobtrusiveAdapters and FormValidation

A value is the length of a text; formats accept `WellFormed`, the server accepts
`Accepted`. `Adapt` is what one registered adapter makes of an input's
attributes; they are called in their order and write into one object of rules, so
`ParseElement` takes each rule from the last adapter that sets it. `Meets` is the
method of each rule; `Demands` is what the attributes ask of a value, read one by
one without any rules, and is what the properties compare with. `Check` is
jQuery Validate's check of some fields from some state (outcomes, lists,
messages, requests started), and `Element`, `Form` and the answers are built on
it. `GoesOn` and `GivesUp` are the two branches of stopRequest for a waiting
submit. Where the two scripts differ from what a reader expects:

* Fields added after the first parse get options, but the form's validator keeps
  the rules it was made with (attachValidation calls validate, which returns the
  existing validator); the form may leave without checking them.
* A rule whose method is not loaded (accept, creditcard, extension:
  additional-methods.js is in the directory but not in the partial) throws at
  the first check. `FormsAssumption` keeps to forms without these, and without
  the rule `"undefined"`, which the adapters minlength and maxlength set when they
  find a maximum, or both bounds, for which they were registered without a rule.
* An attribute can be overridden: two adapters may set one rule, as
  data-val-length with a minimum only and data-val-password with another do with
  minlength, and the later wins. `FormsAssumption` has such attributes agree
  (`Consistent`), as those of one StringLength, MinLength or MaxLength do.
* A request that fails stays pending until its field's value changes.
* An answer for a value typed over meanwhile is still shown, over a newer local
  message.
* A submit refused while another waits leaves that one waiting; it is carried
  out by the last answer.
* reset() clears classes, not the texts of messages nor the summary's items.

## 3. Runs

| Run | Instance | Question and answer |
|---|---|---|
| `outbox_safety` | 2 requests, 2 workers, batch 2 of 4 rows, 1 fault | type; all or nothing; nothing published that is not committed; nothing stamped unpublished; posts hang on committed blogs; PostCreated overtakes BlogCreated only past a refused or unreadable row; `TxOutbox` implements `DeliveryPromise`. All hold. |
| `outbox_delivery` | 2 requests, 1 worker that knows one contract, batch 3, 2 faults | every readable row is stamped in the end, with a batch larger than the unreadable rows; each duplicate is paid for by a fault. Both hold. |
| `saga_safety` | 2 orders, 1 page, 1 fault | type; a stored order has a timeout; an accepted order is not lost; no revival without redelivery; every stored order ends. All hold. |
| `saga_shown` | same, 2 faults | "Order ... completed." means completed. **Violated**: 202 Accepted is shown as completed, for the id the input shows now. |
| `relay_ops` | 2 nodes with up to 2 runs each, 3 starts, 3 operations, 1 fault, 2 ids per process | type; one relay per cluster until a live node is taken for dead; ids once per process, with two runs in it too; a stored trigger gets its run; shutdown ends. All hold. |
| `relay_until_cancelled` | 2 nodes, no operator | the job's comment says it runs until cancelled. **Violated**: a failed publish ends it for good. |
| `relay_interrupt` | 2 nodes, 1 operation | README.md:75 says Interrupt stops publishing. **Violated** with a second node: its blocked start trigger fires. |
| `todo_app` | 2 users, 2 tabs, 2 connections, 1 seed, 1 retry, 2 writes | type; own items only; a list of the newest load has every write the tab was told of; no more copies of a seed than failed saves and one; nothing removed returns. All hold. |
| `todo_seed` | 2 seeds, 1 retry, no writes | HowItWasBuilt.md:45 and :133 call the worker's seed idempotent. **Violated**: after a save that fails before its commit, the retry seeds twice. |
| `reconnect` | 3 invocations at a time | type; a way back is always open; no listener on a connected page unless invocations overlapped; no reload of one but by an invocation that was outrun; back without clicking. All hold. |
| `form_validation` | 3 forms of 2 fields, one possibly added late | type; only valid values leave; the pending count is right; errors are watched; messages are of the last check; a waiting submit ends. All hold. |
| `order_listener` | 2 workers with any number of handlers, 2 orders, 2 starts, 1 Trigger now, 1 fault | type; every order that found a queue is delivered at least once (`OrderListener` implements `DeliveryPromise`); twice only after a fault; the queue drains; shutdown ends. All hold. |

### Bounds

* Two requests are the least that can overlap, read each other's blogs and
  interleave their events. Two workers are the least that can hold the same row.
  A batch smaller than the number of rows makes a second run necessary. One fault
  in the safety run suffices for a duplicate and a leftover stamp; the delivery
  run has two, so that a duplicate can itself be lost. Its batch of three is
larger than the two unreadable rows there can be: with as many of them as the
batch has places, no later row would ever be fetched (a hazard no property
covers).
* Two orders are enough for the one a lost reply leaves behind and the one that
  is shown. One fault gives a retried request or a redelivered message.
  `MaxSends` bounds CompleteOrder messages waiting per order; a second one is the
  same as one that finds no saga.
* Two nodes are the least with a takeover; one fault can be a late check-in, which
  leaves at most one run without its row, so that two runs of a process are all
  it can have; three starts allow a restart of both
  or of one twice while a third trigger is stored. Three operations allow
  interrupt, trigger, interrupt. `MaxId` stops the counter; a relay at the bound
  still pauses, is cancelled and returns.
* Two connections are the least for answers that overtake each other, of one tab
  or of two; two tabs and two users the least for another's writes and another's
  session. Two writes allow an add and its removal, or a removal under a PUT.
  One seed and one retry suffice for a doubled row. `todo_seed` has two seeds, so
  that copies are told from different seeds. Connections and tabs are
  symmetric and the run has no liveness property.
* Two invocations are the least that overlap; a third can begin after one of them
  has brought the circuit back and beside the other, which is outrun.
* Two fields are the least where one is answered while the other is changed. The
  three forms have two, one and no remote field, required and unrequired, a
  range, a format and a checkbox; values are empty, refused and accepted. One
  container takes its message, the other keeps its text.
* Two workers and two orders are the least for a requeue to the other replica
  while it has an order in hand. Two starts restart a worker or start both; one
  Trigger now starts a run again that was interrupted, or stands behind one; each
  run may be interrupted. Two orders are two handlers of one process at once. One
  fault is a crash, a lost connection or a failed subscription.
* `CHECK_DEADLOCK FALSE` stands in the relay and listener configurations, where
  with all starts used up all processes may be down, and in `form_validation`,
  where the page is gone once the form has left.

### Fairness

* `TxOutbox`: a handler once entered and a worker once started go on
  (`WF(Handle)`, `WF(Iterate)`): they are awaits in running processes, and a
  transaction ends by commit or rollback. Nobody has to call /dbtest or to start
  a worker. `Drained` states its conditions itself: workers are started again
  and again, and publishing fails only finitely often.
* `OrderSaga`: the broker delivers StartOrder and scheduled timeouts
  (`WF(HandleStart)`, `WF(Timeout)`). Users need not click, and CompleteOrder
  need never arrive. `EveryOrderEnds` rests on the timeout alone.
* `RelayCluster`: a live scheduler fires triggers, checks in and stops when its
  job has ended; a call to the broker returns or throws. There is no fairness on
  the pause, on startup or on the operator. `WaitingRunStarts` allows that every
  process is down.
* `OrderListener`: as for the relay, and a live process goes on with its handlers
  and takes what the broker delivers. `QueueDrains` allows that no worker listens
  and none has a trigger left.
* `Reconnect`: Blazor's attempts end, calls return or throw, a page that reloads
  loads once the server is up. Nobody has to click; that the user leaves and
  returns to the page again and again is a premise of `BackWithoutClicking`.
* `FormValidation`: the server answers a request in the end (`WF(Answer)`), unless
  it fails. The property is of a submit whose values are valid and that waits for
  a request. `WaitingSubmitEnds` has as premise that the user stops changing
  values, which would replace one request by the next for ever.
* `TodoApp` has safety properties only.

## 4. Proofs

All proofs are checked by tlapm down to the last leaf. They rest on the named
assumptions of the modules only: types of the constants, the distinctness of
the values that mean "none", seeds that differ from each other and from what
users type (`SeedsAssumption`), a finite set of fields (`ValuesAssumption`), and
inputs whose attributes agree and name rules with a method (`FormsAssumption`,
explained above). TLC
evaluates them in every run. The theorems hold for any number of requests,
workers, orders, pages, nodes, tabs, connections, invocations and fields.

**TxOutboxProofs.** `TypeCorrect`, `Atomicity`, `NoPhantomEvents`, `NothingLost`,
`PostsHaveBlogs`, `EventsInOrder`, `DuplicatesArePaidFor`, `Refinement`. None of the properties is
inductive. `IInv` adds: `TxState`, what a handler has written at each stage and
that nothing is committed before everything is; `Stamped`, that stamps are unique
and a request stamps its blog event first; `BusState`, that only committed rows
are fetched or published; `WorkerState`, that a row in the change tracker, or the
current row of a worker past its publish, was published (this is why a stamp
left by a failed save is harmless); `PostTarget`, that the blog under a post is
committed or the transaction's own; `CausalTodo`, that a batch with a post event
holds the blog event too unless that was dealt with. `CausalTodo` needs
`Stamped`, because the batch is the oldest rows, and the lemma
`CurrentIsUnique`. `DuplicatesArePaidFor` counts: `Charged` are the deliveries
that have a fault to pay for them: those that another of the same message
followed, and the last one of a message that is neither stamped nor about to be.
`ChargedToFaults` says that they are finite and no more than the faults: a
crash or a failed save charges the delivery in hand, and a row is published again
only when its last delivery is charged already. `Refinement` maps every step to a step or a stutter of
`DeliveryPromise`.

**OrderSagaProofs.** `TypeCorrect`, `NoStuckOrder`, `NoLostOrder`,
`EndedOrdersStayEnded`, and from the last, as an action property, `EndsOnce`: an
order that was completed does not time out as well, nor the other way round. The
invariant adds `StartedOnce`: only issued ids are queued or stored, and a
StartOrder queued beside or after its saga is a redelivery. That every request
gets an id never used before is what carries `NoRevival` through retries.

**RelayClusterProofs.** `TypeCorrect`, `AtMostOneRelay`, `IdsOncePerProcess`, for
any number of runs per process. The invariant adds `RunsHoldTheRow` (unless a
live node was given up, a run has its fired row), `OneRow` (the store never holds
rows of two runs) and `Counting`: a process counts an id before it sends it
(`SentWasCounted`) or takes it up (`OrdersAreCounted`), and two runs of one
process have different ids in hand (`OrdersDiffer`). `Counting` does not depend
on `OneRow`: ids stay unique per process even with two relays in it.

**OrderListenerProofs.** `ListenerSafety` (with `NothingLost`,
`OnceWithoutFaults`) and `ListenersKeepPromise`, for any number of handlers per
worker. The invariant `Placed` adds that only published orders are anywhere,
that an order is counted before it can be acknowledged, and `OnePlace`: without
faults an order is in the queue or with one worker, a handler's order is with
its worker over the present connection, and a processed order is only where its
handler has ended and will acknowledge it. With it no order has two handlers
(`OneHandler`), which is what excludes a second processing through interrupts
and shutdowns. The refinement needs `Held` besides: what the broker dropped is
nowhere else, no handler's connection is newer than the present one, and the
order of a handler that can still acknowledge is among those its worker was
sent, so that only what is in hand leaves the broker. `StepSimulation` then maps
`Publish` to an acceptance or a stutter, `Process` to a delivery, `Ack` to an
acknowledgement or, over a connection that is gone, a stutter, and every other
step, crashes and lost connections included, to a stutter.

**TodoAppProofs.** `ListSafety` (with `OwnItemsOnly`, `OwnWritesShown`),
`NoReturn`, `CopiesBounded`. `Sessions` says that a tab's calls carry its present
session's user, or the tab is not theirs any more: this is why no late answer
crosses sessions. `Loads` ties each answered list to the table's state at its
version, and the newest load to a version no older than what the tab was told.
`NoReturn` rests on the effect of a handler on the rows (`RowSteps`): one row
with the next id posted, some updated in place, or some removed. `CopiesBounded`
needs `SeedsTracked`: until rows exist, the context tracks one copy of the seeds
for each failed save, and one more while it saves. The lemma `Seeded` counts the
rows such a save inserts, and no handler adds a row with a seed's title.

**ReconnectProofs.** `DialogSafety` (with `AlwaysAWayBack`, `ListenersEnd`),
`CircuitKept`. `OneWayBack`: unless invocations overlap, Blazor's attempts, one
invocation and the listener exclude each other; `Gone`: a page that reloads
leaves none of them behind. `CircuitKept` rests on `OthersOutrun`: while the
circuit is connected, an invocation that is past its reconnect, the only kind
that can reload the page, was outrun.

**UnobtrusiveAdaptersProofs.** The rules say what the attributes say, for any
input: `RulesDemandAttributes` (a value that meets the rules satisfies every
attribute, and the server is asked where an attribute says so) and its converse
`AttributesDemandRules` (nothing else is refused or asked about). `AdaptersDo`
says what each kind of adapter sets, `LastOfAdapters` that each rule has a last
adapter, `ParseSets` and `ParseOnly` that a rule is in the result exactly if some
adapter sets it, with the parameter of that adapter where attributes agree.

**FormValidationProofs.** `FormSafety` (with `CountInSync`, `ErrorsWatched`),
`LeavesValid`, `ShowsTheLastCheck`, `ValidIsNotRefused`. The
invariant is stated on the state a check starts from (`Good(State)`), so that
the lemma `Checked` serves checks from the present state and from the one an
answer has produced (`AnsweredGood`). `Remembers` says that what is remembered
of a field that is not pending is what the server said for that value, and that
an awaited answer is for the value asked last, unless it was reset. With it
`LeavesChecked` follows: a form leaves only when every field the validator knows
meets its rules and the server accepts it. That is the control part of
`OnlyValidLeaves`; `Parsed` (the validator's rules are those of the markup) and
`RulesDemandAttributes` are the rest.

`ShownInv` carries `ShowsTheLastCheck`. `Settled` strengthens the property by the
lists of the last check, which an answer shows again: they must agree with what a
field that has not changed since shows already. `Asks` (only values that meet the
local rules are asked about) and `AwaitedIsAsked` make the outcome an answer
brings the outcome a check would find. `ShownByCheck` is the common part of
`FormShows`, `ElementShows` and `AnswerShows`. `ValidIsNotRefused` is the
opposite of `LeavesValid`, as an action property: with valid values that the
server has been asked about and no request pending, a submit leaves.

Only model-checked are the liveness properties: `Drained`, `EveryOrderEnds`,
`WaitingRunStarts`, both `ShutdownCompletes`, `QueueDrains`,
`BackWithoutClicking` and `WaitingSubmitEnds`. They rest on fairness, and so on
ENABLED, which the prover does not handle. Every other property of a passing run
is a theorem.

## 5. Not modelled

* Message payloads of the outbox. Both events carry the id as it was before the
  insert (`BlogId.ToString()`, `PostId.ToString()`), which is listed as a hazard.
* A second click on a button of the Orders page before the browser has drawn it
  disabled.
* The cleanup and report jobs, pause and delete in the Quartz dashboard, and the
  relay and the listener composed: each is checked against any behaviour of the
  other (orders are published at any time; the relay's broker takes them).
* In the todo application: the sign-in itself (the auth server is another
  component; `Return` lets any user come back), the development proxy, the static
  scripts of the auth server's pages, row order and timestamps, and which of the
  seeds is done.
* In the validation scripts: equalto, numeric ranges, highlighting and ARIA
  attributes, cancel buttons, submit handlers, the form plug-in, and rules jQuery
  Validate reads from HTML attributes by itself.
* The shared user list of the auth server: its store is a class of Duende's
  package, which the repository only derives from.
* The components of the inventory marked `not_modelled` in `PROJECT.json`, each
  with its reason: left to an extension, thin wrappers over libraries, or
  stateless.

## 6. Extensions

In the order of what they would add.

1. `Accounts`. The list under its lock, the same list without it, the pages'
   check-then-act. Two requests and a seeding call. Theorem: what the lock alone
   guarantees.
2. `OrderFlow`. `RelayCluster` and `OrderListener` composed; `DeliveryPromise` from
   the relay to the handlers that process orders.
3. Two handlers of one Orders page at a time; ids in the outbox's events.
4. `ContainerProbes`, `PackageDownloader`. Small state machines, TLC mostly.
5. `NaturalSort`. The comparer as a recursive function, compared with the
   documented order over short strings; TLC only.
