------------------------------ MODULE Installer ------------------------------
(***************************************************************************)
(* Addons, dependency packages and launchers are installed by a background *)
(* worker of the server, from events that are kept in the database.        *)
(* Translated from ayon_server/installer, helpers/download_addon.py, the   *)
(* endpoints that ask for an installation, background/background_worker.py *)
(* and the part of api/lifespan.py that starts the server.                 *)
(*                                                                         *)
(* What is installed is one item, uploaded or named by a URL, and has one  *)
(* row in the events table: its hash is unique.  The files of an addon are *)
(* in a directory of its name and version, which several items share.  An  *)
(* event may be patched by hand, and every update and dispatch of an event *)
(* may raise after its row is written.  Not modelled: the other fields of  *)
(* the row, how far a download has come, restarts that addons ask for in   *)
(* their own set-up, rows that are deleted, and a URL that gives another   *)
(* addon than before.                                                      *)
(***************************************************************************)
EXTENDS Integers, Sequences, SequencesExt

CONSTANTS
  Uploads,     \* addons that are uploaded: topic addon.install
  Urls,        \* URLs of addons: topic addon.install_from_url
  Packages,    \* URLs of dependency packages and launchers
  Places,      \* directories of addons and files of packages
  PlaceOf,     \* where each item is installed
  Requesters,  \* requests to the endpoints
  Maintenance, \* the requester that does not use the queue: auto_update.py
  RetryLimit,  \* an event that has failed more often is dropped: 3
  PatchStatuses, \* bound: what a PATCH of an event sets its status to
  PatchRetries,  \* bound: what it sets its retries to
  MaxRequests, \* bound: requests and patches
  MaxFaults,   \* bound: crashes of the server and of the worker, and failures of the
               \* database or of Redis
  NULL

Items == Uploads \cup Urls \cup Packages
Addons == Uploads \cup Urls

Statuses == {"pending", "in_progress", "finished", "failed", "aborted", "restarted"}

ASSUME InstallerAssumption ==
  /\ Uploads \cap (Urls \cup Packages) = {}
  /\ Urls \cap Packages = {}
  /\ NULL \notin Items \cup Statuses \cup Int
  /\ PlaceOf \in [Items -> Places]
  /\ \A i \in Uploads, j \in Uploads : PlaceOf[i] = PlaceOf[j] => i = j
  /\ \A i \in Addons, j \in Packages : PlaceOf[i] # PlaceOf[j]
  /\ PatchStatuses \subseteq Statuses
  /\ PatchRetries \subseteq Int
  /\ Maintenance \notin Requesters
  /\ RetryLimit \in Nat
  /\ MaxRequests \in Nat
  /\ MaxFaults \in Nat

VARIABLES
  rows,      \* the items that have an event, ordered by created_at
  id,        \* the id of the event of each item
  status,    \* its status
  retries,   \* its retries
  request,   \* what each request is about
  queue,     \* event_queue of the installer
  process,   \* the two calls of process_event: from the queue, and without it
  read,      \* the retries run() has read of the event whose exception it handles
  timers,    \* tasks that run handle_need_restart
  needed,    \* restart_needed of the installer
  required,  \* the event server.restart_required exists
  files,     \* the item whose call has worked last at each place, and whether
             \* files are there
  server,    \* down, starting or up
  asked,     \* the requests so far
  faults,    \* the crashes so far
  deserted,  \* history: events whose request, or call without the queue, has raised
  patched,   \* history: events whose status was last set by a PATCH
  crossed,   \* history: places at which both calls have worked at the same time
  due        \* history: "yes" when an addon was installed from the queue since the
             \* server is up, "behind" when a later event has failed

events == <<rows, id, status, retries>>
memory == <<queue, process, read, timers, needed>>
history == <<deserted, patched, crossed, due>>
vars == <<events, request, memory, required, files, server, asked, faults,
          history>>
-----------------------------------------------------------------------------
Processes == {"queued", "direct"}

Other(p) == CHOOSE q \in Processes : q # p

Nobody == [at |-> "idle", item |-> NULL, id |-> 0]
Asks(at, i, n) == [at |-> at, item |-> i, id |-> n]

Off == [p \in Processes |-> [Nobody EXCEPT !.at = "off"]]

\* Mutant: only what nobody has begun.
Unfinished_Pending(i) == i \in ToSet(rows) /\ status[i] = "pending"

\* status NOT IN ('finished', 'failed')
Unfinished(i) ==
  /\ i \in ToSet(rows)
  /\ status[i] \notin {"finished", "failed"}

TooManyRetries(i) == status[i] = "failed" /\ retries[i] > RetryLimit

Behind == IF due = "no" THEN "no" ELSE "behind"

Job(i) == [item |-> i, id |-> id[i]]

\* The row that a job is about has been given to another upload.
Gone(job) == id[job.item] # job.id

Set(i, s) ==
  /\ status' = [status EXCEPT ![i] = s]
  /\ patched' = patched \ {i}

\* EventStream.update finds its event by the id.
SetStatus(job, s) ==
  IF Gone(job) THEN UNCHANGED <<status, patched>> ELSE Set(job.item, s)
-----------------------------------------------------------------------------
Init ==
  /\ rows = << >>
  /\ id = [i \in Items |-> 0]
  /\ status = [i \in Items |-> NULL]
  /\ retries = [i \in Items |-> 0]
  /\ request = [r \in Requesters \cup {Maintenance} |-> Nobody]
  /\ queue = << >>
  /\ process = Off
  /\ read = 0
  /\ timers = 0
  /\ needed = FALSE
  /\ required = FALSE
  /\ files = [d \in Places |-> [by |-> NULL, there |-> FALSE]]
  /\ server = "down"
  /\ asked = 0
  /\ faults = 0
  /\ deserted = {}
  /\ patched = {}
  /\ crossed = {}
  /\ due = "no"

Fault ==
  /\ faults < MaxFaults
  /\ faults' = faults + 1

CanAsk(r) ==
  /\ server = "up"
  /\ request[r] = Nobody
  /\ asked < MaxRequests
  /\ asked' = asked + 1

Insert(i) == IF i \in ToSet(rows) THEN rows ELSE Append(rows, i)

\* A zip file has been uploaded: its event is new, or takes over the row of an
\* earlier upload of the same addon under an id of its own.
Upload(r, i) ==
  /\ CanAsk(r)
  /\ rows' = Insert(i)
  /\ id' = [id EXCEPT ![i] = @ + 1]
  /\ Set(i, "pending")
  /\ request' = [request EXCEPT ![r] = Asks("posted", i, id[i] + 1)]
  /\ deserted' = deserted \ {i}
  /\ UNCHANGED <<retries, memory, required, files, server, faults, crossed, due>>

\* A request with a URL looks for the event of that URL.
Look(r, i) ==
  /\ CanAsk(r)
  /\ request' = [request EXCEPT ![r] =
       Asks(IF i \in ToSet(rows) THEN "found" ELSE "missing", i, 1)]
  /\ UNCHANGED <<events, memory, required, files, server, faults, history>>

\* The event is there: it is pending again.  Only an addon keeps its retries.
Reuse(r) ==
  LET i == request[r].item
  IN  /\ request[r].at = "found"
      /\ Set(i, "pending")
      /\ retries' = IF i \in Packages THEN [retries EXCEPT ![i] = 0] ELSE retries
      /\ request' = [request EXCEPT ![r].at = "posted"]
      /\ deserted' = deserted \ {i}
      /\ UNCHANGED <<rows, id, memory, required, files, server, asked,
                     faults, crossed, due>>

\* The event was not there: it is dispatched, unless another request has done so
\* in between; then the dispatch raises.
Dispatch(r) ==
  LET i == request[r].item
  IN  /\ request[r].at = "missing"
      /\ IF i \in ToSet(rows)
         THEN /\ request' = [request EXCEPT ![r] = Nobody]
              /\ UNCHANGED <<rows, id, status, patched>>
         ELSE /\ rows' = Insert(i)
              /\ id' = [id EXCEPT ![i] = 1]
              /\ Set(i, "pending")
              /\ request' = [request EXCEPT ![r].at = "posted"]
      /\ UNCHANGED <<retries, memory, required, files, server, asked, faults,
                     deserted, crossed, due>>

\* The row is written, but what follows raises: the message about it is not
\* published, or a cache is not deleted.  The id does not come to the queue.  An
\* event that is posted by hand ends here too.
Unpublished(r) ==
  LET i == request[r].item
  IN  /\ request[r].at = "posted"
      /\ Fault
      /\ request' = [request EXCEPT ![r] = Nobody]
      /\ deserted' = IF request[r].id = id[i] THEN deserted \cup {i} ELSE deserted
      /\ UNCHANGED <<events, memory, required, files, server, asked, patched, crossed,
                     due>>

\* PATCH /events/{id}: a service may set the status of every event, and a manager
\* that of a download, which is RESTARTABLE.
Patch(i, s, n) ==
  /\ server = "up"
  /\ asked < MaxRequests
  /\ asked' = asked + 1
  /\ i \in ToSet(rows)
  /\ IF s = NULL
     THEN UNCHANGED <<status, patched>>
     ELSE status' = [status EXCEPT ![i] = s] /\ patched' = patched \cup {i}
  /\ retries' = IF n = NULL THEN retries ELSE [retries EXCEPT ![i] = n]
  /\ UNCHANGED <<rows, id, request, memory, required, files, server, faults, deserted,
                 crossed, due>>

\* The background task of the request, or download_addon, puts the id on the
\* queue.
Enqueue(r) ==
  /\ r # Maintenance
  /\ request[r].at = "posted"
  /\ queue' = Append(queue, [item |-> request[r].item, id |-> request[r].id])
  /\ request' = [request EXCEPT ![r] = Nobody]
  /\ UNCHANGED <<events, process, read, timers, needed, required, files, server,
                 asked, faults, history>>
-----------------------------------------------------------------------------
\* Mutant: what the call was about is kept.
Leave_Keeps(p) == [process EXCEPT ![p].at = "idle"]

\* process_event ends in one of the two calls.
Leave(p) == [process EXCEPT ![p] = Nobody]

At(p, at) == process[p].at = at
Goto(p, at) == process' = [process EXCEPT ![p].at = at]

\* process_event reads the row, and drops an event that is gone or has failed
\* too often.
Drops(job) == Gone(job) \/ TooManyRetries(job.item)

Call(p, job) ==
  process' = IF Drops(job)
             THEN process
             ELSE [process EXCEPT ![p] = Asks("called", job.item, job.id)]

\* run() takes an event from the queue.
Get ==
  /\ At("queued", "idle")
  /\ queue # << >>
  /\ Call("queued", Head(queue))
  /\ queue' = Tail(queue)
  /\ due' = IF Drops(Head(queue)) THEN Behind ELSE due
  /\ UNCHANGED <<events, request, read, timers, needed, required, files, server,
                 asked, faults, deserted, patched, crossed>>

\* download_addon with no_queue calls process_event itself.
CallDirect ==
  LET asks == request[Maintenance]
  IN  /\ asks.at = "posted"
      /\ At("direct", "idle")
      /\ Call("direct", [item |-> asks.item, id |-> asks.id])
      /\ request' = [request EXCEPT ![Maintenance] = Nobody]
      /\ UNCHANGED <<events, queue, read, timers, needed, required, files, server,
                     asked, faults, history>>

\* Where a call is at work.
PlacesOf(p) == {PlaceOf[i] : i \in {process[p].item} \ {NULL}}

Begin(p) ==
  /\ At(p, "called")
  /\ SetStatus(process[p], "in_progress")
  /\ crossed' = crossed \cup (PlacesOf(p) \cap PlacesOf(Other(p)))
  /\ Goto(p, "working")
  /\ UNCHANGED <<rows, id, retries, request, queue, read, timers, needed, required,
                 files, server, asked, faults, deserted, due>>

\* The call has worked at the place of its item.
Put(p, there) ==
  LET i == process[p].item
  IN  files' = [files EXCEPT ![PlaceOf[i]] = [by |-> i, there |-> there]]

\* unpack_addon_sync removes the directory that is there, whoever has made it.
RemoveOld(p) ==
  /\ At(p, "working")
  /\ process[p].item \in Addons
  /\ Put(p, FALSE)
  /\ Goto(p, "removed")
  /\ UNCHANGED <<events, request, queue, read, timers, needed, required, server,
                 asked, faults, history>>

\* The files are moved to their place; those of a download are written there.
Move(p) ==
  /\ \/ At(p, "removed")
     \/ At(p, "working") /\ process[p].item \in Packages
  /\ Put(p, TRUE)
  /\ Goto(p, "moved")
  /\ UNCHANGED <<events, request, queue, read, timers, needed, required, server,
                 asked, faults, history>>

\* Unpacking an upload raises.  The exception is swallowed: the event has failed,
\* and goes on to be finished.
FailUpload(p) ==
  /\ process[p].at \in {"working", "removed"}
  /\ process[p].item \in Uploads
  /\ SetStatus(process[p], "failed")
  /\ Goto(p, "moved")
  /\ UNCHANGED <<rows, id, retries, request, queue, read, timers, needed, required,
                 files, server, asked, faults, deserted, crossed, due>>

\* Mutant: only an addon is followed by handle_need_restart.
Timers_Addon(i) == IF i \in Addons THEN timers + 1 ELSE timers

\* asyncio.create_task(handle_need_restart(self))
Timers(i) == timers + 1

\* The event is finished; process_event goes on to the restart of the server.
Finish(p) ==
  LET i == process[p].item
  IN  /\ At(p, "moved")
      /\ SetStatus(process[p], "finished")
      /\ needed' = (needed \/ i \in Addons)
      /\ IF p = "queued"
         THEN /\ timers' = Timers(i)
              /\ process' = Leave(p)
              /\ due' = IF due # "no" \/ (i \in Addons /\ server = "up")
                        THEN "yes" ELSE "no"
         ELSE /\ Goto(p, "finished")
              /\ UNCHANGED <<timers, due>>
      /\ UNCHANGED <<rows, id, retries, request, queue, read, required, files,
                     server, asked, faults, deserted, crossed>>

\* With no_queue the restart is announced at once.
Announce ==
  /\ At("direct", "finished")
  /\ required' = TRUE
  /\ process' = Leave("direct")
  /\ UNCHANGED <<events, request, queue, read, timers, needed, files, server,
                 asked, faults, history>>

\* handle_need_restart, one second later.
HandleNeedRestart ==
  /\ timers > 0
  /\ timers' = timers - 1
  /\ required' = (required \/ (queue = << >> /\ needed))
  /\ UNCHANGED <<events, request, queue, process, read, needed, files, server,
                 asked, faults, history>>

\* An exception leaves process_event.  run() catches it; download_addon does not.
Raise(p) ==
  IF p = "queued"
  THEN /\ Goto(p, "raised")
       /\ UNCHANGED deserted
  ELSE /\ process' = Leave(p)
       /\ deserted' = deserted \cup {process[p].item}

\* Mutant: the exception does not stop the installation.
Fail_GoesOn(p) ==
  /\ process[p].at \in {"working", "removed"}
  /\ process[p].item \notin Uploads
  /\ Goto(p, "moved")
  /\ UNCHANGED deserted

\* A download or its installation raises.
Fail(p) ==
  /\ process[p].at \in {"working", "removed"}
  /\ process[p].item \notin Uploads
  /\ Raise(p)

FailUrl(p) ==
  /\ Fail(p)
  /\ UNCHANGED <<events, request, queue, read, timers, needed, required, files,
                 server, asked, faults, patched, crossed, due>>

\* The update before or after the installation raises, or the dispatch that ends the
\* call: that to finished may do so after it has written the row.
FailUpdate(p) ==
  /\ process[p].at \in {"called", "working", "moved", "finished"}
  /\ Fault
  /\ \/ UNCHANGED <<status, patched>>
     \/ At(p, "moved") /\ SetStatus(process[p], "finished")
  /\ Raise(p)
  /\ UNCHANGED <<rows, id, retries, request, queue, read, timers, needed, required,
                 files, server, asked, crossed, due>>

\* run() reads the retries of the event.
Catch ==
  LET job == process["queued"]
  IN  /\ At("queued", "raised")
      /\ ~ Gone(job)
      /\ read' = retries[job.item]
      /\ Goto("queued", "caught")
      /\ UNCHANGED <<events, request, queue, timers, needed, required, files, server,
                     asked, faults, history>>

\* Mutant: the retries stay.
Retried_Not(n) == n

Retried(n) == n + 1

\* It sets the event to failed, with one more retry,
SetFailed ==
  LET job == process["queued"]
  IN  /\ SetStatus(job, "failed")
      /\ retries' = IF Gone(job) THEN retries
                    ELSE [retries EXCEPT ![job.item] = Retried(read)]

\* and puts it on the queue.
Retry ==
  LET job == process["queued"]
  IN  /\ At("queued", "caught")
      /\ SetFailed
      /\ queue' = Append(queue, [item |-> job.item, id |-> job.id])
      /\ process' = Leave("queued")
      /\ read' = 0
      /\ due' = Behind
      /\ UNCHANGED <<rows, id, request, timers, needed, required, files,
                     server, asked, faults, deserted, crossed>>
-----------------------------------------------------------------------------
\* The queue with the events that are not finished, in the order of the rows.
Loaded ==
  LET loop[n \in 0..Len(rows)] ==
        IF n = 0 THEN queue
        ELSE IF Unfinished(rows[n]) THEN Append(loop[n - 1], Job(rows[n]))
                                    ELSE loop[n - 1]
  IN  loop[Len(rows)]

\* Loading the events before anything else: run() begins.
Load ==
  /\ At("queued", "loading")
  /\ queue' = Loaded
  /\ process' = Leave("queued")
  /\ deserted' = {}
  /\ patched' = {i \in patched : ~ Unfinished(i)}
  /\ UNCHANGED <<events, request, read, timers, needed, required, files, server,
                 asked, faults, crossed, due>>

\* _run() starts the worker again: the event that it had is nobody's.
RunAgain ==
  /\ process' = [process EXCEPT !["queued"] = [Nobody EXCEPT !.at = "loading"]]
  /\ read' = 0
  /\ due' = Behind
  /\ UNCHANGED <<rows, id, request, queue, timers, needed, required, files,
                 server, asked, deserted, crossed>>

\* There are no retries to be read: run() raises.
NoRow ==
  /\ At("queued", "raised")
  /\ Gone(process["queued"])
  /\ RunAgain
  /\ UNCHANGED <<status, retries, patched, faults>>

\* What run() does about an exception raises, before or after it has set the event
\* to failed.
WorkerFails ==
  /\ process["queued"].at \in {"raised", "caught"}
  /\ Fault
  /\ RunAgain
  /\ \/ UNCHANGED <<status, retries, patched>>
     \/ At("queued", "caught") /\ SetFailed

\* The server stops: what is in memory is lost.
Crash ==
  /\ server # "down"
  /\ Fault
  /\ server' = "down"
  /\ request' = [r \in DOMAIN request |-> Nobody]
  /\ queue' = << >>
  /\ process' = Off
  /\ read' = 0
  /\ timers' = 0
  /\ needed' = FALSE
  /\ UNCHANGED <<events, required, files, asked, history>>

\* lifespan starts the workers.
Start ==
  /\ server = "down"
  /\ server' = "starting"
  /\ process' = [queued |-> [Nobody EXCEPT !.at = "loading"],
                 direct |-> Nobody]
  /\ due' = "no"
  /\ UNCHANGED <<events, request, queue, read, timers, needed, required, files,
                 asked, faults, deserted, patched, crossed>>

\* The addons are set up: the server is open for requests, and no restart is
\* required.
Open ==
  /\ server = "starting"
  /\ server' = "up"
  /\ required' = FALSE
  /\ UNCHANGED <<events, request, memory, files, asked, faults, history>>

RequestStep(r) == Reuse(r) \/ Dispatch(r) \/ Unpublished(r) \/ Enqueue(r)

ProcessStep(p) ==
  \/ Begin(p)
  \/ RemoveOld(p)
  \/ Move(p)
  \/ FailUpload(p)
  \/ FailUrl(p)
  \/ FailUpdate(p)
  \/ Finish(p)

WorkerStep == Load \/ Get \/ ProcessStep("queued") \/ Catch \/ NoRow \/ Retry

DirectStep == CallDirect \/ ProcessStep("direct") \/ Announce

Next ==
  \/ \E r \in Requesters, i \in Uploads : Upload(r, i)
  \/ \E r \in Requesters, i \in Urls \cup Packages : Look(r, i)
  \/ \E i \in Urls : Look(Maintenance, i)
  \/ \E i \in Items, s \in PatchStatuses \cup {NULL}, n \in PatchRetries \cup {NULL} :
       Patch(i, s, n)
  \/ \E r \in Requesters \cup {Maintenance} : RequestStep(r)
  \/ WorkerStep
  \/ DirectStep
  \/ HandleNeedRestart
  \/ WorkerFails
  \/ Crash
  \/ Start
  \/ Open

Spec == Init /\ [][Next]_vars

\* The event loop runs every task, and a server that has stopped is started.
FairSpec ==
  /\ Spec
  /\ \A r \in Requesters \cup {Maintenance} : WF_vars(RequestStep(r))
  /\ WF_vars(WorkerStep)
  /\ WF_vars(DirectStep)
  /\ WF_vars(HandleNeedRestart)
  /\ WF_vars(Start)
  /\ WF_vars(Open)
-----------------------------------------------------------------------------
JobRecord == [item : Items, id : Nat \ {0}]

Requested == {"idle", "found", "missing", "posted"}
Waiting == {"idle", "off", "loading"}
Busy == {"called", "working", "removed", "moved", "finished", "raised", "caught"}

\* Types of the variables.
TypeOK ==
  /\ rows \in Seq(Items)
  /\ id \in [Items -> Nat]
  /\ status \in [Items -> Statuses \cup {NULL}]
  /\ retries \in [Items -> Int]
  /\ request \in [Requesters \cup {Maintenance} ->
                    [at : Requested, item : Items \cup {NULL}, id : Nat]]
  /\ queue \in Seq(JobRecord)
  /\ process \in [Processes -> [at : Waiting \cup Busy, item : Items \cup {NULL},
                                id : Nat]]
  /\ \A p \in Processes : process[p].item = NULL <=> process[p].at \in Waiting
  /\ read \in Int
  /\ timers \in Nat
  /\ files \in [Places -> [by : Items \cup {NULL}, there : BOOLEAN]]
  /\ server \in {"down", "starting", "up"}
  /\ asked \in 0..MaxRequests
  /\ faults \in 0..MaxFaults
  /\ deserted \subseteq Items
  /\ patched \subseteq Items
  /\ crossed \subseteq Places

\* Somebody will yet process the event.
InHand(i) ==
  \/ Job(i) \in ToSet(queue)
  \/ \E p \in Processes : process[p].item = i /\ process[p].id = id[i]
  \/ \E r \in DOMAIN request : request[r] = Asks("posted", i, id[i])

\* An installation that was answered with success is not forgotten: while the worker
\* runs, an event that is not done with is in somebody's hand, also after crashes
\* between the dispatch and the queue and exceptions of the worker.  It is not when
\* the request, or the call without the queue, has raised since, and when its
\* status is what a PATCH has set.
NoneForgotten ==
  server # "down" /\ ~ At("queued", "loading") =>
    \A i \in Items \ (deserted \cup patched) :
      status[i] \notin {NULL, "finished", "failed"} => InHand(i)

\* The files of the item are in place, or another item has worked there since.
InPlace(i) ==
  LET place == files[PlaceOf[i]]
  IN  place.there \/ place.by \notin {i, NULL}

\* A download that is reported as finished, and not by hand, is in place: whatever
\* fails, crashes or is asked for again.  Two items of one addon version share the
\* directory: it is so until another one works there, and where the two calls have
\* not worked at the same time.
FinishedIsInstalled ==
  \A i \in (Urls \cup Packages) \ patched :
    status[i] = "finished" => InPlace(i) \/ PlaceOf[i] \in crossed

AtRest ==
  /\ server = "up"
  /\ queue = << >>
  /\ timers = 0
  /\ \A p \in Processes : At(p, "idle")

\* When the installer has come to rest and the last event it took has not failed,
\* the restart that the addons it has installed need has been announced: also
\* when others were waiting behind them.
RestartAnnounced == AtRest /\ due = "yes" => required

\* What fails is not tried for ever, and nothing waits for ever: with no more
\* requests and crashes the installer comes to rest.
ComesToRest == <>[]AtRest
=============================================================================
