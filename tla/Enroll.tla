------------------------------- MODULE Enroll -------------------------------
(***************************************************************************)
(* The event table as a job queue.  Source events are posted; a service    *)
(* asks for a job by enrolling, which turns a finished source event into a *)
(* target event of the service's topic, or hands out an existing one       *)
(* again.  Translated from ayon_server/events/enroll.py (enroll_job),      *)
(* ayon_server/events/eventstream.py (dispatch, update, delete), the       *)
(* endpoints of api/events and the table of schemas/schema.public.sql.     *)
(*                                                                         *)
(* enroll_job runs in one READ COMMITTED transaction.  Its cursor reads    *)
(* the snapshot taken when it is opened, and the transaction writes at     *)
(* most one row and then ends.  So a call is: open the cursor, look at the *)
(* rows one by one, write and commit.  The write and the commit are one    *)
(* step: between them the row is locked, so whoever needs it waits, and    *)
(* everybody else reads the committed row as before.                       *)
(*                                                                         *)
(* created_at is the time at which the transaction of an insert begins,    *)
(* and the row is seen when it commits, so that the order of created_at,   *)
(* in which the cursor returns the sources, is not the order in which they *)
(* appear: a posted event brings any created_at.                           *)
(***************************************************************************)
EXTENDS Integers, FiniteSets

CONSTANTS
  Workers,          \* calls of enroll in progress, one per service process
  Senders,          \* values of events.sender
  SenderOf,         \* the "sender" each worker enrolls with
  OperatorSender,   \* the sender of the requests of an operator's browser
  TargetTopics,     \* topics of the target events
  TopicOf,          \* the target topic each worker enrolls for
  SourceTopic,      \* the topic of the source events
  Sequential,       \* the "sequential" flag of the requests
  MaxRetries,       \* max_retries of the requests
  IgnoreOlder,      \* TRUE when ignore_older_than is not 0
  WorkerStatuses,   \* statuses a service reports for its job
  OperatorStatuses, \* statuses an operator sets on a target event
  PatchRetries,     \* retries of the requests that update an event
  PostStatuses,     \* statuses of posted source events: finished, pending
  CreatedAt,        \* values of created_at of the posted events
  MayTie,           \* TRUE when source events may have equal created_at
  CursorLimit,      \* the LIMIT of the query, 1000 in the code
  MayDelete,        \* TRUE when events are deleted
  MayLose,          \* TRUE when replies are lost and services crash
  MaxEvents,        \* bound: ids that may be given to events
  MaxSources,       \* bound: source events in the table
  NULL              \* SQL NULL and Python None

EventId == 1 .. MaxEvents

EventStatus ==
  {"pending", "in_progress", "finished", "failed", "aborted", "restarted"}

Topics == TargetTopics \cup {SourceTopic}

\* A hash is a function of a topic and an event id: hash_data((target_topic,
\* source_id)) for a job, the event's own id for a posted event.
Hash == Topics \X EventId

\* A row of public.events.  "recent" says that updated_at is within the
\* ignore_older_than window.  Ids count the rows in the order in which they
\* are committed.  Only the created_at of source events is read.
Event ==
  [topic      : Topics,
   hash       : Hash,
   depends_on : EventId \cup {NULL},
   status     : EventStatus,
   sender     : Senders \cup {NULL},
   retries    : Int,
   created_at : CreatedAt \cup {NULL},
   recent     : BOOLEAN]

\* A row of the cursor of enroll_job: a source event joined with its target.
Candidate ==
  {r \in [source_id      : EventId,
          target_id      : EventId \cup {NULL},
          target_status  : EventStatus \cup {NULL},
          target_sender  : Senders \cup {NULL},
          target_retries : Int,
          created_at     : CreatedAt \cup {NULL}] :
     r.target_id = NULL <=> r.target_status = NULL}

\* EnrollResponseModel
Response == [id : EventId, depends_on : EventId, status : EventStatus]

ASSUME ConstantsAssumption ==
  /\ SenderOf \in [Workers -> Senders]
  /\ OperatorSender \in Senders \cup {NULL}
  /\ TopicOf \in [Workers -> TargetTopics]
  /\ SourceTopic \notin TargetTopics
  /\ Sequential \in BOOLEAN
  /\ IgnoreOlder \in BOOLEAN
  /\ MayDelete \in BOOLEAN
  /\ MayLose \in BOOLEAN
  /\ MaxRetries \in Nat
  /\ PatchRetries \subseteq Int \cup {NULL}
  /\ CreatedAt \subseteq Int
  /\ MayTie \in BOOLEAN
  /\ CursorLimit \in Nat \ {0}
  /\ MaxEvents \in Nat
  /\ MaxSources \in Nat
  /\ PostStatuses \subseteq {"finished", "pending"}
  /\ WorkerStatuses \subseteq EventStatus
  /\ OperatorStatuses \subseteq EventStatus

ASSUME NullAssumption ==
  /\ NULL \notin EventId
  /\ NULL \notin EventStatus
  /\ NULL \notin Senders
  /\ NULL \notin Event
  /\ NULL \notin Response
  /\ NULL \notin Int

VARIABLES
  events,    \* the table: EventId -> row, NULL where there is no row
  next_id,   \* the id of the next row
  pc,        \* where the enroll call of each worker is
  rows,      \* the rows its cursor has not returned yet
  response,  \* the value enroll_job returned
  job        \* the event each service is working on, NULL when none

table == <<events, next_id>>
call == <<pc, rows, response>>
vars == <<events, next_id, pc, rows, response, job>>

-----------------------------------------------------------------------------
(* The table *)

Live == {e \in EventId : events[e] # NULL}

TargetsOf(topic, source) ==
  {e \in Live : events[e].topic = topic /\ events[e].depends_on = source}

\* Mutant: without the unique index on the hash.
HashTaken_NoIndex(hash) == FALSE

HashTaken(hash) == \E e \in Live : events[e].hash = hash

Coalesce(new, old) == IF new = NULL THEN old ELSE new

\* INSERT of dispatch, for a hash nobody has: the caller has dealt with
\* ON CONFLICT (hash) DO NOTHING and with the foreign key.
Insert(topic, hash, depends_on, status, sender, created_at) ==
  /\ next_id \in EventId
  /\ events' = [events EXCEPT ![next_id] =
       [topic |-> topic, hash |-> hash, depends_on |-> depends_on,
        status |-> status, sender |-> sender, retries |-> 0,
        created_at |-> created_at, recent |-> TRUE]]
  /\ next_id' = next_id + 1

\* EventStream.update: UPDATE ... WHERE id = event_id.  None leaves a column
\* as it is, updated_at is always set, and a missing row is not an error.
Update(id, status, sender, retries) ==
  /\ events' = IF events[id] = NULL THEN events ELSE
       [events EXCEPT ![id] =
          [events[id] EXCEPT !.status  = Coalesce(status, events[id].status),
                             !.sender  = Coalesce(sender, events[id].sender),
                             !.retries = Coalesce(retries, events[id].retries),
                             !.recent  = TRUE]]
  /\ UNCHANGED next_id

-----------------------------------------------------------------------------
(* The query of enroll_job *)

InWindow(e) == IgnoreOlder => events[e].recent

\* Mutant: failed targets are offered again whatever their retries.
Excluded_FinishedOnly(topic) ==
  {events[e].depends_on : e \in
     {t \in Live : /\ events[t].depends_on # NULL
                   /\ events[t].topic = topic
                   /\ InWindow(t)
                   /\ events[t].status = "finished"}}

\* excluded_events: the sources whose target is finished, or has failed
\* more than max_retries times.
Excluded(topic) ==
  {events[e].depends_on : e \in
     {t \in Live :
        /\ events[t].depends_on # NULL
        /\ events[t].topic = topic
        /\ InWindow(t)
        /\ \/ events[t].status = "finished"
           \/ events[t].status = "failed" /\ events[t].retries > MaxRetries}}

SourceEvents(topic) ==
  {s \in Live : /\ events[s].topic = SourceTopic
                /\ events[s].status = "finished"
                /\ InWindow(s)
                /\ s \notin Excluded(topic)}

Joined(s, t) ==
  [source_id |-> s, target_id |-> t, target_status |-> events[t].status,
   target_sender |-> events[t].sender, target_retries |-> events[t].retries,
   created_at |-> events[s].created_at]

Unjoined(s) ==
  [source_id |-> s, target_id |-> NULL, target_status |-> NULL,
   target_sender |-> NULL, target_retries |-> 0,
   created_at |-> events[s].created_at]

\* The LEFT JOIN of the sources with their targets.
JoinedRows(topic) ==
  UNION {{Joined(s, t) : t \in TargetsOf(topic, s)} : s \in SourceEvents(topic)}

UnjoinedRows(topic) ==
  {Unjoined(s) : s \in {x \in SourceEvents(topic) : TargetsOf(topic, x) = {}}}

Query(topic) == JoinedRows(topic) \cup UnjoinedRows(topic)

\* LIMIT: the sets of oldest rows that may be the whole of the cursor.
Limited(set) ==
  {some \in SUBSET set :
     /\ Cardinality(some) <= CursorLimit
     /\ some # set => Cardinality(some) = CursorLimit
     /\ \A r \in some, q \in set \ some : r.created_at <= q.created_at}

\* ORDER BY created_at: the rows the cursor may return next.
Oldest(set) == {r \in set : \A q \in set : r.created_at <= q.created_at}

-----------------------------------------------------------------------------
(* enroll_job *)

Return(w, value) ==
  /\ pc' = [pc EXCEPT ![w] = "return"]
  /\ rows' = [rows EXCEPT ![w] = {}]
  /\ response' = [response EXCEPT ![w] = value]
  /\ UNCHANGED job

Continue(w, row) ==
  /\ rows' = [rows EXCEPT ![w] = @ \ {row}]
  /\ UNCHANGED <<pc, response, job>>

\* A service that has no job calls enroll, and the cursor is opened.
OpenCursor(w) ==
  /\ pc[w] = "idle"
  /\ job[w] = NULL
  /\ pc' = [pc EXCEPT ![w] = "cursor"]
  /\ \E some \in Limited(Query(TopicOf[w])) : rows' = [rows EXCEPT ![w] = some]
  /\ UNCHANGED <<events, next_id, response, job>>

\* Mutant: a job that another service has not begun yet may be taken.
Retryable_Pending(row) == row.target_status \in {"failed", "restarted", "pending"}

Retryable(row) == row.target_status \in {"failed", "restarted"}

\* Mutant: the retries are not counted.
RetryTarget_NotCounted(w, row) ==
  /\ pc[w] = "cursor"
  /\ Retryable(row)
  /\ Update(row.target_id, "pending", SenderOf[w], row.target_retries)
  /\ Return(w, [id |-> row.target_id, depends_on |-> row.source_id,
                status |-> "pending"])

\* The target failed or was restarted: take it, whoever had it before.
RetryTarget(w, row) ==
  /\ pc[w] = "cursor"
  /\ Retryable(row)
  /\ Update(row.target_id, "pending", SenderOf[w],
            IF row.target_status = "failed" THEN row.target_retries + 1
                                            ELSE row.target_retries)
  /\ Return(w, [id |-> row.target_id, depends_on |-> row.source_id,
                status |-> "pending"])

\* Another service has the target: give up, or look at the next source.
SkipForeign(w, row) ==
  /\ row.target_status # NULL /\ ~Retryable(row)
  /\ row.target_sender # SenderOf[w]
  /\ IF Sequential THEN Return(w, NULL) ELSE Continue(w, row)
  /\ UNCHANGED table

\* Mutant: an unfinished target is handed out whoever has it.
ReturnOwn_AnySender(w, row) ==
  /\ row.target_status # NULL /\ ~Retryable(row)
  /\ Return(w, [id |-> row.target_id, depends_on |-> row.source_id,
                status |-> row.target_status])
  /\ UNCHANGED table

\* The target is already this service's: hand it out again as it is.
ReturnOwn(w, row) ==
  /\ row.target_status # NULL /\ ~Retryable(row)
  /\ row.target_sender = SenderOf[w]
  /\ Return(w, [id |-> row.target_id, depends_on |-> row.source_id,
                status |-> row.target_status])
  /\ UNCHANGED table

JobHash(w, row) == <<TopicOf[w], row.source_id>>

\* Mutant: no foreign key.
CreateTarget_NoForeignKey(w, row) ==
  /\ pc[w] = "cursor"
  /\ row.target_status = NULL
  /\ ~HashTaken(JobHash(w, row))
  /\ Insert(TopicOf[w], JobHash(w, row), row.source_id, "pending", SenderOf[w], NULL)
  /\ Return(w, [id |-> next_id, depends_on |-> row.source_id,
                status |-> "pending"])

\* There was no target: dispatch one.
CreateTarget(w, row) ==
  /\ pc[w] = "cursor"
  /\ row.target_status = NULL
  /\ ~HashTaken(JobHash(w, row))
  /\ events[row.source_id] # NULL
  /\ Insert(TopicOf[w], JobHash(w, row), row.source_id, "pending", SenderOf[w], NULL)
  /\ Return(w, [id |-> next_id, depends_on |-> row.source_id,
                status |-> "pending"])

\* Mutant: a sequential enroll goes on to the next source.
CreateConflict_Continue(w, row) ==
  /\ pc[w] = "cursor"
  /\ row.target_status = NULL
  /\ HashTaken(JobHash(w, row))
  /\ Continue(w, row)
  /\ UNCHANGED table

\* ON CONFLICT DO NOTHING inserted no row: another worker took the job.
CreateConflict(w, row) ==
  /\ pc[w] = "cursor"
  /\ row.target_status = NULL
  /\ HashTaken(JobHash(w, row))
  /\ IF Sequential THEN Return(w, NULL) ELSE Continue(w, row)
  /\ UNCHANGED table

\* The source has been deleted.  The foreign key error is caught, but it has
\* aborted the transaction: nothing can be written any more.
CreateOrphan(w, row) ==
  /\ pc[w] = "cursor"
  /\ row.target_status = NULL
  /\ ~HashTaken(JobHash(w, row))
  /\ events[row.source_id] = NULL
  /\ IF Sequential
       THEN Return(w, NULL)
       ELSE /\ pc' = [pc EXCEPT ![w] = "aborted"]
            /\ rows' = [rows EXCEPT ![w] = @ \ {row}]
            /\ UNCHANGED <<response, job>>
  /\ UNCHANGED table

\* The next statement of an aborted transaction raises.
RaiseAborted(w) ==
  /\ pc[w] = "aborted"
  /\ \/ rows[w] = {}
     \/ \E row \in Oldest(rows[w]) : row.target_status = NULL \/ Retryable(row)
  /\ pc' = [pc EXCEPT ![w] = "raised"]
  /\ rows' = [rows EXCEPT ![w] = {}]
  /\ UNCHANGED <<events, next_id, response, job>>

NextRow(w) ==
  /\ pc[w] \in {"cursor", "aborted"}
  /\ \E row \in Oldest(rows[w]) :
       \/ RetryTarget(w, row)
       \/ SkipForeign(w, row)
       \/ ReturnOwn(w, row)
       \/ CreateTarget(w, row)
       \/ CreateConflict(w, row)
       \/ CreateOrphan(w, row)

\* The cursor is exhausted: nothing to do.
NoMoreRows(w) ==
  /\ pc[w] = "cursor"
  /\ rows[w] = {}
  /\ Return(w, NULL)
  /\ UNCHANGED table

\* The service gets the answer; 204 when there is no job.
Deliver(w) ==
  /\ pc[w] = "return"
  /\ pc' = [pc EXCEPT ![w] = "idle"]
  /\ response' = [response EXCEPT ![w] = NULL]
  /\ job' = [job EXCEPT ![w] = IF response[w] = NULL THEN NULL
                                                    ELSE response[w].id]
  /\ UNCHANGED <<events, next_id, rows>>

\* enroll_job has raised.  The return in the finally clause of the endpoint
\* drops the exception, and the service is told that there is no job.
DeliverError(w) ==
  /\ pc[w] = "raised"
  /\ pc' = [pc EXCEPT ![w] = "idle"]
  /\ UNCHANGED <<events, next_id, rows, response, job>>

\* The answer does not reach the service.
LoseReply(w) ==
  /\ MayLose
  /\ pc[w] = "return"
  /\ pc' = [pc EXCEPT ![w] = "idle"]
  /\ response' = [response EXCEPT ![w] = NULL]
  /\ UNCHANGED <<events, next_id, rows, job>>

-----------------------------------------------------------------------------
(* The other users of the table *)

\* POST /events, without a hash: the event's own id is its hash.  Any other
\* source may have been created before it and committed after it.
PostEvent(status, created_at) ==
  /\ Cardinality({e \in Live : events[e].topic = SourceTopic}) < MaxSources
  /\ MayTie \/ \A e \in Live : events[e].created_at # created_at
  /\ Insert(SourceTopic, <<SourceTopic, next_id>>, NULL, status, NULL, created_at)
  /\ UNCHANGED <<call, job>>

\* The service that posted an unfinished source event reports its end.
FinishSource(e) ==
  /\ e \in Live
  /\ events[e].topic = SourceTopic
  /\ events[e].status = "pending"
  /\ Update(e, "finished", NULL, NULL)
  /\ UNCHANGED <<call, job>>

\* A service PATCHes the event it works on, and may set its retries.  A final
\* status ends the job.
Report(w, status, retries) ==
  /\ job[w] # NULL
  /\ status \in WorkerStatuses
  /\ Update(job[w], status, SenderOf[w], retries)
  /\ job' = [job EXCEPT ![w] = IF status = "in_progress" THEN @ ELSE NULL]
  /\ UNCHANGED call

\* A service forgets its job.
Crash(w) ==
  /\ MayLose
  /\ job[w] # NULL
  /\ job' = [job EXCEPT ![w] = NULL]
  /\ UNCHANGED <<table, call>>

\* PATCH /events/{id} by an operator, who may change the status of an event
\* only when it depends on another one, and set its retries.
OperatorPatch(e, status, retries) ==
  /\ e \in Live
  /\ status \in OperatorStatuses
  /\ status # events[e].status => events[e].depends_on # NULL
  /\ Update(e, status, OperatorSender, retries)
  /\ UNCHANGED <<call, job>>

\* DELETE /events/{id}, POST /eventops and the retention task delete rows no
\* other row depends on; the foreign key refuses the rest.
DeleteEvents(set) ==
  /\ MayDelete
  /\ set # {} /\ set \subseteq Live
  /\ \A e \in Live \ set : events[e].depends_on \notin set
  /\ events' = [e \in EventId |-> IF e \in set THEN NULL ELSE events[e]]
  /\ UNCHANGED <<next_id, call, job>>

\* Time passes: a row falls out of the ignore_older_than window.
Age(e) ==
  /\ IgnoreOlder
  /\ e \in Live
  /\ events' = [events EXCEPT ![e].recent = FALSE]
  /\ UNCHANGED <<next_id, call, job>>

\* An event is updated without a change of its status (say, its description).
Touch(e) ==
  /\ e \in Live
  /\ ~events[e].recent
  /\ Update(e, NULL, NULL, NULL)
  /\ UNCHANGED <<call, job>>

-----------------------------------------------------------------------------
Init ==
  /\ events = [e \in EventId |-> NULL]
  /\ next_id = 1
  /\ pc = [w \in Workers |-> "idle"]
  /\ rows = [w \in Workers |-> {}]
  /\ response = [w \in Workers |-> NULL]
  /\ job = [w \in Workers |-> NULL]

EnrollStep(w) == OpenCursor(w) \/ NextRow(w) \/ NoMoreRows(w) \/ RaiseAborted(w)

ServiceStep(w) ==
  \/ Deliver(w)
  \/ DeliverError(w)
  \/ LoseReply(w)
  \/ Crash(w)
  \/ \E status \in WorkerStatuses, retries \in PatchRetries : Report(w, status, retries)

OtherStep ==
  \/ \E status \in PostStatuses, created_at \in CreatedAt : PostEvent(status, created_at)
  \/ \E e \in EventId : FinishSource(e) \/ Age(e) \/ Touch(e)
  \/ \E e \in EventId, status \in OperatorStatuses, retries \in PatchRetries :
       OperatorPatch(e, status, retries)
  \/ \E set \in SUBSET EventId : DeleteEvents(set)

Next ==
  \/ \E w \in Workers : EnrollStep(w) \/ ServiceStep(w)
  \/ OtherStep

Spec == Init /\ [][Next]_vars

(***************************************************************************)
(* Fairness.  The server runs the coroutine of a call to its end, and a    *)
(* service polls for a job (weak fairness).  A service that keeps getting  *)
(* a job is not cut off from its answer, and does not crash before its     *)
(* report, for ever (strong fairness).  Nothing obliges an operator.       *)
(***************************************************************************)
FinalReport(w) ==
  \E status \in WorkerStatuses \ {"in_progress"}, retries \in PatchRetries :
    Report(w, status, retries)

Fairness ==
  \A w \in Workers : /\ WF_vars(EnrollStep(w) \/ DeliverError(w))
                     /\ SF_vars(Deliver(w))
                     /\ SF_vars(FinalReport(w))

FairSpec == Spec /\ Fairness

-----------------------------------------------------------------------------
(* Properties *)

\* Type invariant.
TypeOK ==
  /\ events \in [EventId -> Event \cup {NULL}]
  /\ next_id \in 1 .. MaxEvents + 1
  /\ pc \in [Workers -> {"idle", "cursor", "aborted", "return", "raised"}]
  /\ rows \in [Workers -> SUBSET Candidate]
  /\ response \in [Workers -> Response \cup {NULL}]
  /\ job \in [Workers -> EventId \cup {NULL}]

Target(e) == e \in Live /\ events[e].depends_on # NULL

\* However many workers enroll at once, a source event has at most one
\* target event of a topic: the hash of the job decides the race that the
\* snapshots of the cursors leave open (dispatch, enroll_job).
AtMostOneTarget ==
  \A a, b \in EventId :
    /\ Target(a) /\ Target(b)
    /\ events[a].topic = events[b].topic
    /\ events[a].depends_on = events[b].depends_on
    => a = b

\* A target event always has its source, even when the source is deleted
\* between the snapshot of a worker and its insert.
TargetHasSource ==
  \A e \in EventId : Target(e) => events[e].depends_on \in Live

\* With no time window, enroll_job counts at most one retry more than
\* max_retries says, although two workers may retry a job from snapshots of
\* different age and a request may set its retries under them: whatever is
\* above that is a number that a PATCH has set, and is never counted on.
RetriesBounded ==
  ~IgnoreOlder =>
    \A e \in Live : \/ events[e].retries <= MaxRetries + 1
                   \/ events[e].retries \in PatchRetries

\* "effectively prevents two services starting the same job" (EventModel):
\* services with different senders never work on the same event.
OneServicePerJob ==
  \A w, x \in Workers :
    job[w] # NULL /\ job[w] = job[x] => SenderOf[w] = SenderOf[x]

Active(e) == Target(e) /\ events[e].status \in {"pending", "in_progress"}

\* Source s was created before source t, and seen before it.
CameBefore(s, t) ==
  events[s].created_at < events[t].created_at /\ s < t

\* "Ensure events are processed in sequential order" (EnrollRequestModel):
\* services that enroll sequentially never have two jobs of a topic at once,
\* of which one came before the other.  Nothing is said of a source that is
\* seen late: one with an earlier created_at may appear when the job of a
\* later one has begun, and is then begun as well.
OneActiveJob ==
  Sequential =>
    \A a, b \in EventId :
      Active(a) /\ Active(b) /\ events[a].topic = events[b].topic =>
        ~CameBefore(events[a].depends_on, events[b].depends_on)

\* A finished job stays finished until its row is deleted.
FinishedStaysFinished ==
  [][\A e \in EventId :
       Target(e) /\ events[e].status = "finished" =>
         events'[e] = NULL \/ events'[e].status = "finished"]_vars

Exhausted(e) == events[e].status = "failed" /\ events[e].retries > MaxRetries

Processed(source, topic) ==
  \E e \in TargetsOf(topic, source) :
    events[e].status = "finished" \/ Exhausted(e)

\* Somebody sets the retries of an event.
RetriesSet ==
  \E retries \in PatchRetries \ {NULL} :
    \/ \E w \in Workers, status \in WorkerStatuses : Report(w, status, retries)
    \/ \E e \in EventId, status \in OperatorStatuses : OperatorPatch(e, status, retries)

Restarted(topic) ==
  \E e \in Live : Target(e) /\ events[e].topic = topic /\ events[e].status = "restarted"

\* Every finished source event is eventually processed by the services that
\* enroll for it, or has failed more than max_retries times, although answers
\* get lost, services crash and workers retry each other's jobs.  Only someone
\* who restarts jobs of the topic, or sets their retries, for ever can put it
\* off: the oldest job comes first, and a restart does not count as a retry.
EverySourceProcessed ==
  \A topic \in {TopicOf[w] : w \in Workers} :
    \/ []<>Restarted(topic)
    \/ []<><<RetriesSet>>_vars
    \/ \A s \in EventId : s \in SourceEvents(topic) ~> Processed(s, topic)

=============================================================================
