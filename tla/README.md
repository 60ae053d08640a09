# A verification project for the AYON server

TLA+ models of the parts of the AYON backend (`src/`, Python, FastAPI, Postgres
and Redis) whose correctness depends on the order in which requests, workers,
nodes and transactions meet; TLC configurations that check them on small
instances; and proofs, checked by TLAPS, for every instance.

Contents: [the system](#the-system), [the plan](#the-plan), [the modules and the
code](#the-modules-and-the-code), [the runs](#the-runs), [bounds](#bounds),
[fairness](#fairness), [the proofs](#the-proofs), [where the code departs from
its documentation](#where-the-code-departs-from-its-documentation), [what else the
models show](#what-else-the-models-show), [what is not
modelled](#what-is-not-modelled).

## The system

A server process is an asyncio loop that serves REST, GraphQL and websocket
requests; several of them, the nodes, may share Postgres and Redis. Postgres holds
all lasting state, one schema per project and a public one. Redis holds caches,
sessions, the status of background tasks and the publish/subscribe channel. Services
(processes outside the server) ask for work over REST.

| Component | State | Operations | Interacts with | Hard behaviour | What makes it correct |
|---|---|---|---|---|---|
| Enrolling (`events/enroll.py`) | rows of `public.events` | `enroll_job` | event stream, endpoint, services | workers act on rows of an old snapshot; retries; lost answers | one target per source, one service per job, retries not counted beyond their limit, every source processed |
| Enroll endpoint (`api/events/enroll.py`) | Redis namespace `enroll` | `POST /enroll` | `enroll_job`, Redis | client gone when the answer is there; entries outlive a crash | a cached answer reaches its owner, an entry never blocks for ever |
| Event stream (`events/eventstream.py`, `api/events`) | `public.events`, hooks | dispatch, update, delete | Postgres, Redis, hooks | message before commit, hash conflicts | unique hashes, no dangling dependency |
| Project operations (`operations/project_level`) | entity tables of a project | a batch of create, update, delete | Postgres, event stream, views | rollback, retry, deadlock, failure after the commit | all or nothing, events exactly for what is committed |
| Background operations (`api/operations/operations.py`) | status in Redis, tasks in memory | start, report | project operations | exceptions, crashes, order of status writes | a status goes forward and is true when it says completed |
| Folder hierarchy (`entities/folder.py`, `schema.project.sql`) | `folders`, `products`, view `hierarchy` | move, create, delete, refresh | operations, cache | check and write in separate statements; stale view | the tree stays a tree, deletion takes the subtree only |
| Folder list (`helpers/hierarchy_cache.py`, `api/folders/list_folders.py`) | `project-folders` in Redis, the loader's tasks | rebuild, list | Redis, folders, exported attributes | concurrent rebuilds, lost refreshes, shared tasks, failures | the list becomes what the database lets it show, every request is answered |
| Request coalescer (`utils/request_coalescer.py`) | tasks under way, and who waits for them | call | loads of projects | joining, overflow, cancellation, shared results | no result older than the calls it is shared with, every call ends |
| Projects (`entities/project.py`, `helpers/inherited_attributes.py`) | `public.projects` and auxiliary tables, `project-data` and `project-list` in Redis, `exported_attributes` | load, patch, update with a lock, export, list | coalescer, folders | entities and one attribute shared by requests, a record read by several statements, copies written inside of transactions | each part of a cached record was committed, the list of projects is right when no save raced or rolled back, an update with a lock undoes nothing |
| Background installer, workers (`installer`, `background`) | queue in memory, events, files | enqueue, run, retry, restart | event stream, addons, maintenance | crashes, failures in the middle, directories shared by events, requests that go past the queue, patches by hand | an event that was answered with success is not forgotten, what is finished is installed, a restart is announced |
| Access groups (`access/access_groups.py`, `api/access`) | rows, a copy on each node, names in users | save, delete, assign, load, hook | messaging, users, start of the server | changes and their events in different orders, nodes that die or lose Redis | copies become current, users have no deleted groups |
| Messaging (`api/messaging.py`) | subscription, queue of Redis, tasks | receive, handle | event stream, hooks | lost messages, concurrent handlers | every message that reaches a node is handled |

`PROJECT.json` lists the other components (sessions, bundles, addons and settings,
activities, entity lists, links, files, actions, GraphQL, imports and more) with the
reason why none of them has a module, and all hazards, each at its line.

How they work together, for one change of a folder: the endpoint builds a batch
(`ProjectLevelOperations`), perhaps for a background task; the batch runs in one
transaction, loads the folder, checks the move, writes, commits; the `hierarchy` view
is refreshed and the list in Redis rebuilt; the events are dispatched into
`public.events` and published in Redis, where the messaging loop of each node gets
them and starts its hooks; a service that has enrolled for the topic turns one of them
into a job of its own and reports its end, which is again an event.

## The plan

In the order in which they matter to the system; all of it is in the project.

1. `Enroll`, the event table as a job queue, and `EnrollProofs`.
2. `EnrollEndpoint`, which extends `Enroll` with the cache of requests; its theorems
   are in `EnrollProofs` as well.
3. `AtomicBatches`, the abstract specification of a batch; `Operations`, which
   implements it; `OperationsProofs`.
4. `BackgroundOperations`, which extends `Operations` with tasks and their status;
   `OperationsProofs` carries the refinement over.
5. `Hierarchy` and `HierarchyProofs`: concurrent requests on the tree.
6. `FolderCache`: the list of folders and its loader.
7. `RequestCoalescer` and `CoalescerProofs`.
8. `Project` and `ProjectProofs`: the record of a project over the coalescer.
9. `Installer` and `InstallerProofs`: the queue of installations.
10. `AccessGroups` and `AccessGroupsProofs`: a copy on each node, kept by events.
11. `ListProofs`: lemmas on lists and on loops over them, for `CoalescerProofs` and the last two.

What was in earlier plans and is not a module: sessions (each request reads and writes
one record), settings (recursive functions over the shape of data that the models leave
out), `_rebuild_from` (a crawl in path order, likewise), bundles (unique indexes of the
database keep one in production).

## The modules and the code

`PROJECT.json` maps every definition to the lines it models.

**`Enroll`** — `ayon_server/events/enroll.py`, `eventstream.py`, `api/events/events.py`,
table `events` of `schema.public.sql`. A row of the table is a record; its id
counts the rows in the order in which they are committed, that is, seen. `created_at`
is `NOW()`, the time at which the transaction of the insert began, so a source that is
posted brings any `created_at`: one that was created earlier may be seen later.
`enroll_job` runs in one READ COMMITTED transaction with a
cursor: `OpenCursor` takes the snapshot (the query's CTEs are `Excluded`,
`SourceEvents`, `JoinedRows`; `Limited` is its LIMIT, `CursorLimit` for 1000), and each
`NextRow` is what the body of the loop does
with a row of the oldest `created_at` left: retry a failed or restarted target (`RetryTarget`, an
UPDATE by id with the retries *of the snapshot*), skip that of another sender, hand
out one's own again, create one. The creation is an INSERT that the hash may refuse
(`CreateConflict`) and the foreign key may abort (`CreateOrphan`, after which the
loop goes on in an aborted transaction: `RaiseAborted`). The write and the commit that
follows it are one step: nobody sees the row in between, and whoever wants it waits.
Around it: services that get, lose, or crash with an answer and report, sources that
are posted unfinished and finished later, services and operators that PATCH the status
and the retries of a job (`Report`, `OperatorPatch`; `PatchRetries` are the values),
deletion with its foreign key, and the age window of `ignore_older_than`.
The filter of the request and the users' access are a choice of which sources there
are; the check of the pool answers 503 and changes nothing. An exception of `enroll_job`
is answered like "no job" (204): the `return` in the `finally` of the endpoint drops it.

**`EnrollEndpoint`** — `api/events/enroll.py`. The Redis entry of a request, keyed by
the hash of its body: every Redis command is a step, so an entry may be gone or
replaced between `Hit` and `ReturnCached`. `CacheResult` is the client that has
disconnected, `LoseAnswer` the one that disconnects right after the question.
`ServerCrash` and `LoseConnection` roll back what `Enroll` is doing and leave Redis as
it is, `Expire` is any ttl.

**`AtomicBatches`** — the docstring of `POST /projects/{project}/operations`: a batch
takes effect at once or never, and an answer says which.

**`Operations`** — `operations/project_level/*.py` and `Postgres.transaction`. A batch
is a script of creates, updates and deletes on entities. `Start` opens the transaction,
`Load` reads the entity, `Write` executes the statement (it waits for the lock of the
row, `Blocked`; a circle of waiting transactions has a `Victim`), `Reject`, `Violate`
and `Busy` are the three families of exceptions of `_process_operations`, and `Failure`
is what its handlers do in each of the modes: `can_fail` goes on (each operation has a
transaction of its own), `raise` leaves the block by an exception, `collect` (neither
flag) breaks out of the loop. `Finish` is the end of the block, which commits, and what
is decided about the events after it; `Dispatch`, `Outage` and `Crash` are what may
happen then. Without `wait_for_events` the answer is sent when the views are refreshed
and before the events are out: `Dispatch` and `Outage` answer so. `applied` and `log`
are history: which operations are committed, which events are out.

**`BackgroundOperations`** — `api/operations/operations.py`. A batch is answered at once
or handed to a task of the server, which starts after the response. The task reports
each operation in Redis, and sets the result; an exception ends it with the status as it
was. A poll of the client reads the status and is no step. A crash of the server
(`BackgroundCrash`) takes requests and tasks alike. `Expire` is the ttl of a status
whose task is over.

**`Hierarchy`** — `entity_update.py` (`sanitize_folder_update`), `entities/folder.py`,
`projectlevel.py`, the tables `folders` and `products` and the view `hierarchy`. A move
is three steps: load and check of versions, read of the descendants, UPDATE. A forced
deletion is three: load of the path, DELETE of the products found by path in the view,
DELETE of the folder with its cascade and its foreign keys. The view changes by
`Refresh` after a commit, or inside the transaction of a creation or deletion; a
refresh may be skipped (`SkipRefresh`, the handler of the deadlock). The descendants
are defined as a least fixed point, not by recursion, so that the module can be proved
about. `Resembles` gives the effect of an unescaped `_` in a LIKE pattern.

**`FolderCache`** — `helpers/hierarchy_cache.py`, `rebuild_inherited_attributes`,
`FolderEntity.refresh_views` and `delete`, `TaskEntity.refresh_views`,
`api/folders/list_folders.py`. A tree is the set of changes it shows. The query of the
list is `folders INNER JOIN exported_attributes`: a change of a folder that is committed
and not exported is `missing`, and a rebuild reads `Listed`, which lacks it. Only
`Export` (the refresh after a commit of folders) empties `missing`; it may be skipped,
raise, or be lost with the server (`Lose`). A change of a task (`UpdateTask`) and the
loader rebuild the list alone. A rebuild is a read and a later set; a deletion rebuilds
once inside its transaction and once after. The loader's dictionary of futures is
`current`: `List` joins or creates a task, `Return` takes out *whichever* task is there,
`Raise` takes out none.

**`RequestCoalescer`** — `utils/request_coalescer.py`. An entry of the dictionaries is a
key with the number of its batch; `futures` and `waiters` are the two dictionaries. The
lock is never held over an await, so each critical section is one step. A task reads the
data and ends with it, with an exception, or cancelled; awaiting a task that is done
does not suspend, and cancelling a caller cancels the task of all who wait for it
(`doomed`). `floor` is history: the oldest version of the data that a call may return.

**`Project`** — `entities/project.py`, `project_aux_tables.py`,
`helpers/inherited_attributes.py`, `helpers/project_list.py` and the callers that patch,
read, lock or change folders. A record has the attributes and the other data of its row,
and two auxiliary tables, which stand for the five there are. A load goes through the
coalescer (here: who joins a load that is under way gets the same object), the cache in
Redis, and statements outside of a transaction, one for the row (`SelectRow`) and one for
each table (`SelectTable`), between which others may commit. A save is an UPDATE that holds
the row's lock, the crawl that exports attributes, REFRESH of the view with its exclusive
lock, the statements of the tables (`SaveTable`), and then, still *inside* of the
transaction, the deletion of the cache entry (`Invalidate`) and the list of the projects,
read with what is not committed yet (`BuildList`) and set in Redis without a ttl
(`StoreList`). The commit comes after that. `original` is the class attribute that all
entities share. `versions` is history: what each project has had; so is `raced`: whether
the list was built by saves that overlapped, or by one that was rolled back.

**`Installer`** — `installer/__init__.py`, `installer/addons.py` and its siblings,
`helpers/download_addon.py`, the endpoints, `api/events/events.py`,
`background_worker.py` and `api/lifespan.py`. An item is an upload or a URL, with one row
in the events table as the hash is unique. Its files are at a place, `addons_dir/name/version`
for an addon, which items share (`PlaceOf`): `RemoveOld` and `Move` work on the place,
whoever has filled it. Requests insert or reset the row and enqueue, or process without
the queue (`Maintenance`, auto_update); the worker takes an event, downloads, unpacks,
finishes or fails, retries and asks for a restart. A `Fault` is a crash of the server, or
an exception of the database or of Redis: after the row is written and before the id is
on the queue (`Unpublished`: `Redis.publish`, `Redis.delete`), in an update of the event
(`FailUpdate`), or in what the worker does about an exception (`WorkerFails`), after which
the worker starts again. `Patch` is `PATCH /events/{id}`: the status and the retries are
set by hand. The worker begins with the events that are neither finished nor failed.

**`AccessGroups`** — `api/access/access_groups.py`, `ayon_server/access/access_groups.py`,
`api/messaging.py`, `EventStream.dispatch`, `api/lifespan.py`. What a group permits is
left out; the version of a row is the number of the change that made it. A request
writes the row (`Save`, `Delete` with the cascade to projects), then dispatches, then,
for a group of the studio, cleans up the users after the response (`ReadNames`,
`CleanUp`; `CleanedUp` is Python's loop over the list it removes from). Each node has
the messages that Redis keeps for it (`queue`) and the tasks that handle them
(`handlers`), which read the row and store it in two steps. `Boot`, `Load` and
`Subscribe` are the start of the server; `Disconnect` is the exception of
`get_message`. `asof`, `lost` and `excused` are history: of which change a copy is, which
changes are not sure to be in it, whose list has not been cleaned.

The `MC*` modules give the constants their values, nothing else.

## The runs

| Run | Configuration | Shows |
|---|---|---|
| `enroll_assign` | `MCEnrollAssign` | With finishing, ageing, aborting, deleting and losing all at work, a source has at most one target (`AtMostOneTarget`), a target its source (`TargetHasSource`), and services of different senders no common job (`OneServicePerJob`), as long as no job is retried |
| `enroll_retry` | `MCEnrollRetry` | With failures and restarts, and requests that set the retries, `enroll_job` counts no retry beyond `max_retries + 1` (`RetriesBounded`), and every source is processed or given up (`EverySourceProcessed`) unless somebody restarts jobs, or sets their retries, for ever |
| `endpoint` | `MCEnrollEndpoint` | With `sequential`, behind the cache of requests, under disconnects, a crash or a lost connection, and expiring entries: a job has one service (`OneServicePerJob`), of two jobs at once neither source was created and seen before the other (`OneActiveJob`), a finished one stays finished (`FinishedStaysFinished`), every source is processed (`EverySourceProcessed`) |
| `operations` | `MCOperationsBackground` | A batch with `raise_on_error` next to batches in background tasks implements `AtomicBatches` (`IsAtomic`, `RaisingIsAtomic`); events are out once and for committed operations only (`AnnouncedOnce`); a listener can rebuild the rows from them (`ReplayMatches`); a status goes forward (`StatusGoesForward`) and is true when completed (`CompletedIsTrue`); every batch ends (`EveryBatchEnds`) and every task reports (`EveryTaskReports`), unless it crashed or raised |
| `hierarchy_concurrent` | `MCHierarchyConcurrent` | With one move at a time among other requests the tree stays a tree (`Acyclic`), the view is current when they have ended, unless the last refresh was skipped (`ViewIsCurrent`), published folders stay (`PublishedStays`), a forced deletion that has the project to itself takes the products of the subtree and no other (`DeletedInside`) |
| `cache_live` | `MCFolderCacheLive` | A list that is out of date goes away, and a folder stays missing from it only after its refresh was lost and until the next one (`EventuallyCurrent`); every request for it is answered, if by an exception (`EveryListAnswered`) |
| `coalescer` | `MCCoalescer` | The counts are the callers (`CountsMatch`), no answer is older than what was there when a call that overlaps began (`NoOlderThanOverlap`), every call ends (`EveryCallEnds`) |
| `project` | `MCProject` | Each part of a cached record, and what is exported, was committed, and the list of projects is right when all saves have ended, unless they raced or were rolled back (`CopiesOfCommits`); an update with a lock changes its field and undoes nothing (`LockedKeepsTheRest`), every request ends (`EveryRequestEnds`) |
| `installer` | `MCInstaller` | While the worker runs, somebody has each event that is not done with, except those that were patched or whose request has raised (`NoneForgotten`); a download that is finished is in place, until another item works in its directory (`FinishedIsInstalled`); a restart that is needed is announced (`RestartAnnounced`), the installer comes to rest (`ComesToRest`) |
| `access_groups` | `MCAccessGroups` | A node that was told of everything and has handled it has the current rows (`CopyIsCurrent`), users have no deleted groups (`NoDeletedNames`), every node is current in the end (`NodesCatchUp`), each with the exceptions [below](#what-else-the-models-show) |
| `operations_collect` | `MCOperationsCollect` | violation of `AllOrNothing`: without either flag, the operations before a rejected one stay |
| `hierarchy_cycle` | `MCHierarchyCycle` | violation of `Acyclic`: two moves make a cycle |

Each module has one type invariant, which also holds what the code takes for granted
of its data (the parent that exists, the lock that is held). All but that of
`FolderCache` are proved, and the runs of `Enroll`, `RequestCoalescer`, `Project`,
`Operations` and `BackgroundOperations` spend no time on them. Every property of a passing run has a mutant of the
code, an operator `Name_Bug` next to `Name`, that violates it.

## Bounds

- Two workers, two batches, two clients, two writers and readers, two nodes: the races
  modelled are between two transactions, tasks or nodes; a third would only queue. The
  exceptions are the coalescer, where a batch of two overflows by a third caller, and
  `Project`, where two requests share an object and a third one meets them.
- Enroll: two sources, an id for each source, each target and, with deletion, for two
  more rows (`MaxEvents`); two target topics in the table, both workers on one.
  `MaxRetries` is 0 where jobs are restarted, so that the limit is reached on the second
  failure, and 1 otherwise; a PATCH may then set the retries to 3, above the limit.
  `CursorLimit` is 1 in `enroll_retry`, below the number of sources, and reaches all of
  them elsewhere. Endpoint: `created_at` 1 or 2, so that the second source may be the
  older one; one crash or lost connection, at any moment.
- Operations: two rows, scripts of two operations (three in `MCScripts`): both lock
  orders, delete and re-create in one batch, a script that is refused. `MaxBusy = 3`
  lets all three tries of a batch fail; one outage, one crash, one background task
  (two of them meet only as two batches do). `WaitForEvents` is TRUE, as it is for every
  background task.
- Hierarchy: three folder ids, the last one created during the run; a folder in another
  one, with a third next to them, is the least tree in which a move, a subtree and a
  sibling differ. Ids are not used again. At most one move at a time in
  `hierarchy_concurrent` (`MaxMovers`): two are the subject of `hierarchy_cycle`.
- FolderCache: two changes, one failure or lost refresh. Coalescer: four calls of three callers, one
  change of the data, one exception, one cancellation. Project: any three out of
  six requests (three fields of one project patched or locked, a reader, a change of a
  folder, a patch of a second project), one rollback.
- Installer: an upload and a URL of one addon version, which share a directory, and a
  package; two requests or patches, one of them past the queue or by hand
  (`PatchStatuses`, `PatchRetries`), one fault; `RetryLimit` is 1 instead of 3: one retry, and one failure
  after which the event is dropped.
- AccessGroups: two groups of the studio, one overridden by a project, one user, two
  requests, one fault: two changes of one group are the least that can be told and
  handled in different orders.

## Fairness

Asyncio runs every coroutine that is ready and Postgres every statement that is not
blocked, so the steps of a call, a task or a handler in progress are weakly fair. Redis
keeps its ttl: `Expire` is weakly fair in `EnrollEndpoint` and `FolderCache`. A service
polls (weakly fair `OpenCursor`, `Miss`). A server that has stopped is started again
(`Start` of `Installer` and of `AccessGroups`), by its container. Strong fairness is
assumed only of what lies outside of the server: that a service which asks again and
again is not cut off from its answer every time, and which is given a job again and
again comes to report its end once. Faults, deletions, operators and new requests are
never fair.

## The proofs

For every value of the constants that satisfies the assumptions of the modules, which
TLC evaluates in each run. Each proof module names the inductive invariant it rests on.

**`EnrollProofs`** (any workers, senders, topics, events, bounds and flags).
`TypeCorrect` is the type invariant. `TableInvariant`: hashes are unique, the hash of a
target is its topic and its source while that of a posted event is its own id, sources
are there and ids are below `next_id`; `AtMostOneTarget` alone is not inductive, it
needs the hashes. `UniqueTarget` and `NoDanglingTarget` follow. `BoundedRetries`: the
table alone does not bound the retries, for they are written from the snapshot of a
cursor; the invariant adds that a row of a cursor with a failed target has at most
`max_retries` of them. A number that a PATCH has set stands apart in it (`RetriesOK`):
the query excludes a failed target with more than `max_retries`, whoever set them.
`ExclusiveJob`, under `NoRestarts` (services report neither `failed` nor `restarted`, no
operator sets them, the senders of services are not the operator's): `ClaimInv` collects
everything in the state that makes a sender the holder of an event (the row, a service
at work, an answer on its way, a row of a cursor) and says that two senders never hold
one event; a claim is gained only by creation, of an id that is new.

The same module, of the specification with the cache: `EndpointTypes`, and `ExclusiveAnswers`: the cache gives no job to
a second sender. The claims of `Enroll` are extended by those of cached answers; the
proof needs that workers who share a key share a sender (`KeysTellSenders`), and the
model shows that without it the property fails.

Two more, of services that keep what they are given. `FinishedStays`, under
`NobodyReopens`: services report neither `failed` nor `restarted`, every service has a
sender and a key of its own, no operator sets statuses, and older targets are not
ignored. `JobsInv` says where a job may still be: a service at work has nothing else, no
answer on its way and nothing in the cache (`ServicesOK`), and whatever it holds or may
yet get is a target that is not finished (`HeldOK`); so no late answer and no stale
snapshot finds a finished job. With `"failed"` among the `WorkerStatuses` or `"finished"`
among the `OperatorStatuses` of `MCEnrollEndpoint` the property fails. `OneJobAtATime`,
under `Orderly`, which adds that events are posted `finished` and that rows are not
deleted, is about sources of which one was created before the other and was also seen
before it (`CameBefore`). `OrderOK` says that a job is begun only when those of the sources
that came before its own are done, and that a cursor which is still read shows all sources
that came before one of its own, or they are done: LIMIT keeps the oldest rows, a row that
is seen later has come before none of them. Of sources with the same `created_at`, or seen
in the other order, nothing is said: their jobs do overlap. With events that are
posted unfinished, or with `IgnoreOlder`, `OneActiveJob` fails; that rows are not deleted
is needed by the argument (the source of a deleted job is open again), TLC has found no
violation without it in the small instance.

**`OperationsProofs`**. `TypeCorrect`; `RaisingAtomic` and `Announced`;
`ImplementsAtomic`: every step is a step of `AtomicBatches` or a stutter, under a
refinement mapping that reads the outcome of a batch off its committed operations and
its answer. The invariant is `GlobalOK` (types that belong to no batch), for each batch
`StageOK` (what is done in the open transaction is what the results say, and the rows
it has written are its own), `EventsOK` (its events are those of operations that are
applied, each once) and `RaiseOK` (of a raising batch nothing or everything is
applied), and `LogOK`.

The same module, of the specification with tasks: a step with tasks is a step of `Operations`, a crash that takes
more batches than the running ones (`CrashWith`), or leaves the batches alone; so the
invariant and the refinement carry over (`AtomicNextToTasks`, `TasksAnnounceOnce`,
`ImplementsAtomicNextToTasks`). `BackgroundTypes` and `StatusForward` rest on `TasksOK`,
which ties the status to the stage of the task.

`ListenersKnow`, for finitely many batches: what follows the events knows the rows. The
log is not folded over, the latest event about a row decides (`Latest`, whose lemmas say
what an event appended to a list, or taken from its head, changes; that there is a latest
one comes from the well-founded order of the numbers). `FollowOK` compares, for a row
that one batch is about, three views of it: `rows`, what the batch sees in its
transaction (`Visible`), and what a listener believes now (`Heard`) and will believe with
the events in memory (`Promised`). While the transactions are open `Promised` is
`Visible`, and for a batch with one transaction `Heard` is `rows`; a commit makes
`Visible` the row and the dispatch makes `Promised` what is heard. It needs that locks
are only on rows a batch is about (`LocksOK`), and that the entity an update has loaded
is the row until it writes. `CompletedTrue`: a status that says `completed` is that of a
batch which is over and gives its answer (`CompletedOK`), and a batch that is answered
with "ok" has all of its operations committed (`SuccessOK`).

**`HierarchyProofs`**. `TreeStays` and `ParentsAreThere`, for one mover at a time
(`OneMover`; `hierarchy_cycle` shows that the condition is needed): `TreeOK` (parents
are there, no folder below itself) and `MoveOK` (a move that is checked and not yet
written is to a folder that is still no descendant). The lemmas are about the least
closed set: what descendants become when a folder is added, removed or moved. Whatever
moves at a time, `TypesHold` and `ViewCatchesUp` need only that the tree begins as one
(`AcyclicTree(InitialParent)`); they rest on `Shape`, which ties what a request keeps to
its step (`KeptOK`) and says that the view shows the tree unless somebody is going to
refresh it or has skipped it (`ViewOK`). Under `ForceAlone`, `PublishedFoldersStay` adds
`PublishedOK`: a request that moves a folder without force has found no published
version, and none has come since; and if no name resembles another as a LIKE pattern,
`DeletionsStayInside` adds `ErasedOK`: the products that a deletion has found by path
are those of the folder's subtree.

**`CoalescerProofs`**. `TypeCorrect`, `CountsAreRight`, `AnswersAreRecent`, for any
number of callers and any batch size: entries and futures have the same names, the
count of an entry is the number of callers whose entry it is (with finite cardinality),
and the floor of a caller is not above what its task has read or will read.

**`ProjectProofs`**. `TypeCorrect`, `CopiesAreOfCommits`, `LockedUpdates`: `StageOK`
(what a request holds and has locked at each stage), `LockedOK` (what it loaded under
the lock is the row until it commits), `ExportOK` (what a transaction exports), `ReadOK`
(what a load has read so far was committed, each part of it: `FromCommits`). For the list
of projects the argument is about a save that builds it alone (`AloneOK`): what it has
read, and what it has stored, is what the database will be when it commits, for it holds
the lock of its row, and nobody else can commit another without building the list too;
if it is rolled back, or another one begins to build, `raced` is set (`ListOK`).

**`AccessGroupsProofs`**. `CurrentWhenSettled`, for any nodes, clients and numbers of
requests and faults. The invariant says of each group that a node has read: when the copy
is as of the last change it has the row, when it is as of an older one the message of the
last change is on its way, in a request, the queue of Redis or a task; in both cases a
change that was lost may stand in for it. It needs that a message of the last change
tells truly whether the row is there, and that what a task has read is between its
message and the row. `DeletedNamesGo` rests on `NamesOK`: a name that is in the list of a
user is a name of a group, or belongs to a deletion whose clean-up is to come
(`Cleaning`), or is one of the exceptions. `TypesHold` is about nodes as well: who has
died has no messages, tasks or requests.

**`InstallerProofs`**. `TypesHold` rests on `Inv`: rows, queue, requests and calls are about
items that have a row, and which process holds an item depends on where it is.
`NothingForgotten` adds `HandsOK`: while the worker runs, an event that is neither
finished nor failed is on the queue, in a call that will yet set its status (`Carries`), or
in a request that will still enqueue it, unless it is `Excused`: its status was set by a
PATCH, or its request or its call without the queue has raised since.
`FinishedAreInstalled` adds `Placed`, about places and not items: a call that
is past its download has what it unpacked in the directory, one that is before has taken
its item out of the finished ones, and of two calls at one place it is known that
they met (`crossed`, `CrossOK`). `RestartIsAnnounced` adds `DueOK`: while a restart is
due something is to come that leads to `handle_need_restart` (`Coming`: the announcement
itself, a timer, an item on the queue, or a call of the worker at work).

**`ListProofs`**. What is in a list from which items are filtered or to which one is added,
and what a loop over it leaves.

Only model-checked: all liveness (fairness and ENABLED are beyond the prover), that is
`EverySourceProcessed`, `EveryBatchEnds`, `EveryTaskReports`, the other leads-to
properties of the runs and all of `FolderCache`. Every invariant and action property of a
passing run is also
proved, some under the named conditions above.

## Where the code departs from its documentation

The two violation runs, each with its finding in `PROJECT.json`:

1. *Batches* (`operations_collect`): the endpoint promises that "all previous operations
   are rolled back" when `can_fail` is off. `RollbackException` is raised after the block
   of the transaction, which has committed (`project_level/__init__.py:485`).
2. *Cycles* (`hierarchy_cycle`): "Make sure the hierarchy is acyclic"
   (`entity_update.py:88`) is a check and a write without a lock.

Others are in the models as they are in the code, and were met with a change of a
configuration or are excepted by name in a property:

- *Shared job*: the hash of a job "effectively prevents two services starting the same
  job" (`events/base.py:41`), but not the retry of one: two services that retry a failed
  job from snapshots of the same age both get it (`enroll.py:128`). With `"failed"` among
  the `WorkerStatuses` of `MCEnrollAssign`, `OneServicePerJob` fails; among those of
  `MCEnrollEndpoint`, `OneActiveJob`: a late retry revives a job that is finished.
- A job with `retries = max_retries` is taken up once more (`enroll.py:75` against the
  comment at 118); hence `max_retries + 1` in `RetriesBounded`.
- With one key for both services in `MCEnrollEndpoint` (the sender only in the
  `x-sender` header), `OneServicePerJob` fails: the key is the hash of the body, taken
  before the sender is filled in.
- A batch with `can_fail` ends with 503 when an entity is locked, its earlier operations
  committed and their events lost (`CutShort`), though "the processing continues".
- With `ForceAlone = FALSE` in `MCHierarchyConcurrent`, `PublishedStays` fails (a version is
  published between load and update, `entity_update.py:82`) and `DeletedInside` fails (the
  view is older than the tables, `folder.py:200`); with `Resembles` relating two names it fails with one client
  (`_` in a LIKE pattern).
- *Folder list*: a failed task stays in `_current_futures` and fails every later request
  until a restart (`list_folders.py:112`). "The cache is updated every time a folder is
  created, updated, or deleted": of two rebuilds the older may be set last, and a
  deletion that is rolled back leaves its list, until the ttl of an hour.
  `rebuild_hierarchy_cache` is "ALWAYS called after rebuild_inherited_attributes"
  (`hierarchy_cache.py:80`): not by the loader (`list_folders.py:133`), tasks
  (`task.py:84`), activities and thumbnails. As it joins `exported_attributes` (62), a
  folder whose refresh was skipped after a deadlock (`project_level/__init__.py:509`),
  has raised, or was lost with the server after the commit is missing from every list,
  past every ttl, until another change of a folder refreshes the views. `EventuallyCurrent`
  says that nothing else keeps a folder out.
- *Sequential order*: "Ensure events are processed in sequential order" holds in the order
  of `created_at` among the sources that a service can see; a source whose transaction
  began earlier and ended later is begun next to a job of a later one. The order of two
  sources with the same `created_at` is not determined: with `MayTie = TRUE` in
  `MCEnrollEndpoint` two services that were each given one of them, and lost the answer,
  give up at the other's job in turn, and may wait for one another for ever.
- *Patches of a project* load without a lock and save all fields, so that two patches of
  different fields undo one another, although by the comment at `project.py:91-93` who is
  going to update has "to lock the project record to prevent concurrent modifications".
- `clean_up_user_access_groups` is to remove the groups that do not exist any more; it
  skips the name that follows a removed one, and does nothing when no group is left.

## What else the models show

- *Enroll*: `PATCH /events/{id}` takes `retries` (`api/events/events.py:198`), so a job may
  have any number of them; one above `max_retries` closes the job when it fails, one below
  opens it again.
- *Project*: `original_attributes` is an attribute of the class (`project.py:198`), so
  that a save may find the attributes unchanged and skip the rebuild (256): folders keep
  what they had inherited. The cache entry is deleted inside of the transaction, before
  the commit (210-222): a reader that loads in between may put the old record back. The
  statements of a load (103-181) are in no transaction: a record may be cached that has
  its row from before a commit and its statuses from after it. So `CopiesOfCommits` says
  of each part that it "was committed", and not of the whole that it is current.
  `project-list` is written before the commit and never expires: after a rollback, or when
  saves of two projects overlap, it shows what is not in the database until the next save
  that builds it alone (214, `project_list.py:38-58`). Callers that are
  coalesced share one entity (77), and a reader may see a patch before it is committed.
- *Installer*: a failure to unpack sets the event to failed, and then to finished with
  the addon "installed" (`addons.py:191-220`); `FinishedIsInstalled` is about downloads.
  Two events of one addon version share the directory (`addons.py:137`): when the later one
  has removed it and fails, the earlier one is finished without files.
  A failed event whose retry is due is forgotten by a restart (`installer/__init__.py:95`).
  An event that is patched to `pending`, or whose dispatch has raised after its row was
  written (`eventstream.py:178`, `deps.py:222`), waits for the next start of the server
  (`patched`, `deserted`). So does
  what maintenance installs without the queue and does not finish; it
  may be processed by the worker at the same time
  (`crossed`). When the last event fails, no restart is announced for those before it
  (28), and a restart asked for during the start of the server is taken back
  (`lifespan.py:334`). A repeated request for an addon does not reset its retries, and is
  dropped when the last attempt fails meanwhile.
- *Access groups*: deleting a group of the studio takes its overrides in projects with it
  without an event, so nodes keep them until they restart. Two changes of a group may be
  dispatched, and their handlers finish, in the order opposite to that of their writes;
  the older one then undoes the newer one. What is published while a node has loaded and
  not yet subscribed, or while it has lost Redis, or is never dispatched because a request
  died, is not learned. These are the changes in `lost`. A list of names that is validated
  before a deletion and saved after its clean-up keeps the name.
- *Background operations*: an exception leaves the status in progress until its ttl; a
  retry of a batch lets the progress go back, which `StatusGoesForward` does not forbid.

## What is not modelled

- Data: attributes, payloads, filters, names, what groups permit, the rows of the folder
  list. Hence also settings overrides, permissions and the values of inherited attributes.
- Hooks of addons, which run arbitrary code in the transaction or in a handler.
- Renaming a folder: it changes paths as a move does, and no parent.
- In `Installer`: other fields of the row (so a URL gives the same addon each time), the
  progress of a download, restarts that
  addons ask for in their own set-up, deleted rows; `maintenance` as a process of its own.
- In `Project`: `get_project` fills product types into the config of the record it was
  given, which others share; the locks of the rows of auxiliary tables that a load for
  update takes after that of the project; creating and dropping projects.
- In `FolderCache`: a thumbnail that is stored rebuilds the list inside its transaction.
- In `AccessGroups`: a node takes requests only after it has subscribed (the code starts
  messaging just before it serves); a client has one node.
- In `BackgroundOperations`: the counter of concurrent tasks, which is only logged; a
  status that expires while its task runs (an operation renews it).
- A node shares Postgres and Redis with the others, and nothing else; the workers of
  `Enroll` and the batches of `Operations` may belong to different ones, the loader of
  `FolderCache`, the coalescer and `Project` are those of one.
- The components without a module. Most of the code is queries (GraphQL and its
  resolvers, REST lists, statistics), imports and reviews (transformations of data),
  files, thumbnails and storage (I/O), pydantic models, and endpoints that are a check
  and a single statement: they hold no state between steps that could meet. Sessions are
  a record that one request reads and writes; entity lists repeat the pattern of the
  patches that `Project` models; bundles are one transaction over constraints of the
  database; maintenance tasks are single statements, of which the deletion of old events
  and the update of addons are steps of `Enroll` and `Installer`.
