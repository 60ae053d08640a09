----------------------------- MODULE EnrollProofs -----------------------------
(***************************************************************************)
(* Theorems about Enroll, for every number of workers, events and retries, *)
(* and in the last sections about EnrollEndpoint, for any keys, bounds and *)
(* numbers of crashes: the cache of answers gives no job to a second       *)
(* service, a finished job stays finished where nobody reopens jobs, and a *)
(* sequential topic has one job at a time where they come in order.        *)
(***************************************************************************)
EXTENDS EnrollEndpoint, TLAPS

-----------------------------------------------------------------------------
(* Type correctness *)

\* Where a row of the cursor of enroll_job comes from.
LEMMA QueryRow ==
  ASSUME NEW topic, NEW r \in Query(topic)
  PROVE  \/ \E s \in SourceEvents(topic) :
              \E t \in TargetsOf(topic, s) : r = Joined(s, t)
         \/ \E s \in SourceEvents(topic) : r = Unjoined(s)
<1>1. CASE r \in JoinedRows(topic)
  <2>1. PICK set \in {{Joined(s, t) : t \in TargetsOf(topic, s)} : s \in SourceEvents(topic)} : r \in set
    BY <1>1 DEF JoinedRows
  <2>2. PICK s \in SourceEvents(topic) : set = {Joined(s, t) : t \in TargetsOf(topic, s)}
    BY <2>1
  <2>. QED  BY <2>1, <2>2
<1>2. CASE r \in UnjoinedRows(topic)
  BY <1>2 DEF UnjoinedRows
<1>. QED  BY <1>1, <1>2 DEF Query

\* Such a row is a candidate.
LEMMA QueryType ==
  ASSUME TypeOK, NEW topic
  PROVE  Query(topic) \subseteq Candidate
<1>1. ASSUME NEW s \in SourceEvents(topic), NEW t \in TargetsOf(topic, s)
      PROVE  Joined(s, t) \in Candidate
  <2>1. s \in EventId /\ t \in EventId /\ events[t] # NULL
    BY <1>1 DEF SourceEvents, TargetsOf, Live
  <2>2. events[s] \in Event /\ events[t] \in Event
    BY <1>1, <2>1 DEF TypeOK, SourceEvents, Live
  <2>. QED  BY <2>1, <2>2, NullAssumption DEF Joined, Candidate, Event
<1>2. ASSUME NEW s \in SourceEvents(topic)
      PROVE  Unjoined(s) \in Candidate
  <2>1. s \in EventId /\ events[s] \in Event
    BY <1>2 DEF SourceEvents, Live, TypeOK
  <2>. QED  BY <2>1, NullAssumption DEF Unjoined, Candidate, Event
<1>. QED  BY <1>1, <1>2, QueryRow

\* The cursor is opened on rows of the query.
LEMMA OpenedRows ==
  ASSUME TypeOK, NEW w \in Workers, OpenCursor(w)
  PROVE  /\ rows' = [rows EXCEPT ![w] = rows'[w]]
         /\ rows'[w] \in Limited(Query(TopicOf[w]))
         /\ rows'[w] \subseteq Query(TopicOf[w])
<1>1. PICK some \in Limited(Query(TopicOf[w])) : rows' = [rows EXCEPT ![w] = some]
  BY DEF OpenCursor
<1>2. rows'[w] = some
  BY <1>1 DEF TypeOK
<1>. QED  BY <1>1, <1>2 DEF Limited

\* dispatch keeps the table well typed.
LEMMA InsertType ==
  ASSUME TypeOK, NEW topic \in Topics, NEW hash \in Hash,
         NEW depends_on \in EventId \cup {NULL}, NEW status \in EventStatus,
         NEW sender \in Senders \cup {NULL}, NEW created_at \in CreatedAt \cup {NULL},
         Insert(topic, hash, depends_on, status, sender, created_at)
  PROVE  /\ events' \in [EventId -> Event \cup {NULL}]
         /\ next_id' \in 1 .. MaxEvents + 1
<1>. DEFINE row == [topic |-> topic, hash |-> hash, depends_on |-> depends_on,
                    status |-> status, sender |-> sender, retries |-> 0,
                    created_at |-> created_at, recent |-> TRUE]
<1>1. row \in Event
  BY DEF Event
<1>2. events' = [events EXCEPT ![next_id] = row] /\ next_id \in EventId
  BY DEF Insert
<1>3. events' \in [EventId -> Event \cup {NULL}]
  BY <1>1, <1>2 DEF TypeOK
<1>4. next_id' \in 1 .. MaxEvents + 1
  BY <1>2, ConstantsAssumption DEF Insert, EventId
<1>. QED  BY <1>3, <1>4

\* EventStream.update writes the columns it is given to one row.
LEMMA UpdateRow ==
  ASSUME TypeOK, NEW id \in EventId, NEW status \in EventStatus \cup {NULL},
         NEW sender \in Senders \cup {NULL}, NEW retries \in Int \cup {NULL},
         Update(id, status, sender, retries), events[id] # NULL
  PROVE  /\ events'[id] \in Event
         /\ events'[id] # NULL
         /\ events' = [events EXCEPT ![id] = events'[id]]
         /\ events'[id].topic = events[id].topic
         /\ events'[id].hash = events[id].hash
         /\ events'[id].depends_on = events[id].depends_on
         /\ events'[id].created_at = events[id].created_at
         /\ events'[id].status = Coalesce(status, events[id].status)
         /\ events'[id].sender = Coalesce(sender, events[id].sender)
         /\ events'[id].retries = Coalesce(retries, events[id].retries)
<1>. DEFINE row == [events[id] EXCEPT
                      !.status  = Coalesce(status, events[id].status),
                      !.sender  = Coalesce(sender, events[id].sender),
                      !.retries = Coalesce(retries, events[id].retries),
                      !.recent  = TRUE]
<1>1. events[id] \in Event
  BY DEF TypeOK
<1>2. /\ Coalesce(status, events[id].status) \in EventStatus
      /\ Coalesce(sender, events[id].sender) \in Senders \cup {NULL}
      /\ Coalesce(retries, events[id].retries) \in Int
  BY <1>1 DEF Coalesce, Event
<1>3. row \in Event
  BY <1>1, <1>2 DEF Event
<1>4. events' = [events EXCEPT ![id] = row]
  BY DEF Update, TypeOK
<1>5. events'[id] = row
  BY <1>4 DEF TypeOK
<1>6. /\ row.topic = events[id].topic
      /\ row.hash = events[id].hash
      /\ row.depends_on = events[id].depends_on
      /\ row.created_at = events[id].created_at
      /\ row.status = Coalesce(status, events[id].status)
      /\ row.sender = Coalesce(sender, events[id].sender)
      /\ row.retries = Coalesce(retries, events[id].retries)
  BY <1>1 DEF Event
<1>. QED  BY <1>3, <1>4, <1>5, <1>6, NullAssumption

\* EventStream.update keeps the table well typed.
LEMMA UpdateType ==
  ASSUME TypeOK, NEW id \in EventId, NEW status \in EventStatus \cup {NULL},
         NEW sender \in Senders \cup {NULL}, NEW retries \in Int \cup {NULL},
         Update(id, status, sender, retries)
  PROVE  /\ events' \in [EventId -> Event \cup {NULL}]
         /\ next_id' \in 1 .. MaxEvents + 1
<1>1. CASE events[id] = NULL
  BY <1>1 DEF Update, TypeOK
<1>2. CASE events[id] # NULL
  BY <1>2, UpdateRow DEF Update, TypeOK
<1>. QED  BY <1>1, <1>2

\* The call variables keep their types when enroll_job returns or goes on.
LEMMA ReturnType ==
  ASSUME TypeOK, NEW w \in Workers, NEW value \in Response \cup {NULL},
         Return(w, value)
  PROVE  /\ pc' \in [Workers -> {"idle", "cursor", "aborted", "return", "raised"}]
         /\ rows' \in [Workers -> SUBSET Candidate]
         /\ response' \in [Workers -> Response \cup {NULL}]
         /\ job' \in [Workers -> EventId \cup {NULL}]
  BY DEF TypeOK, Return

LEMMA ContinueType ==
  ASSUME TypeOK, NEW w \in Workers, NEW row, Continue(w, row)
  PROVE  /\ pc' \in [Workers -> {"idle", "cursor", "aborted", "return", "raised"}]
         /\ rows' \in [Workers -> SUBSET Candidate]
         /\ response' \in [Workers -> Response \cup {NULL}]
         /\ job' \in [Workers -> EventId \cup {NULL}]
  BY DEF TypeOK, Continue

LEMMA NextRowType ==
  ASSUME TypeOK, NEW w \in Workers, NextRow(w)
  PROVE  TypeOK'
<1>1. PICK row \in Oldest(rows[w]) :
        \/ RetryTarget(w, row) \/ SkipForeign(w, row) \/ ReturnOwn(w, row)
        \/ CreateTarget(w, row) \/ CreateConflict(w, row) \/ CreateOrphan(w, row)
  BY DEF NextRow
<1>2. row \in Candidate
  BY DEF Oldest, TypeOK
<1>3. /\ SenderOf[w] \in Senders /\ TopicOf[w] \in TargetTopics
      /\ TopicOf[w] \in Topics
  BY ConstantsAssumption DEF Topics
<1>4. CASE RetryTarget(w, row)
  <2>. DEFINE retries == IF row.target_status = "failed"
                           THEN row.target_retries + 1 ELSE row.target_retries
              value == [id |-> row.target_id, depends_on |-> row.source_id,
                        status |-> "pending"]
  <2>1. row.target_id \in EventId
    BY <1>2, <1>4, NullAssumption DEF RetryTarget, Retryable, EventStatus, Candidate
  <2>2. value \in Response
    BY <1>2, <2>1 DEF Response, Candidate, EventStatus
  <2>3. retries \in Int
    BY <1>2 DEF Candidate
  <2>4. Update(row.target_id, "pending", SenderOf[w], retries) /\ Return(w, value)
    BY <1>4 DEF RetryTarget
  <2>5. "pending" \in EventStatus
    BY DEF EventStatus
  <2>6. /\ events' \in [EventId -> Event \cup {NULL}]
        /\ next_id' \in 1 .. MaxEvents + 1
    BY <1>3, <2>1, <2>3, <2>4, <2>5, UpdateType
  <2>. QED  BY <2>2, <2>4, <2>6, ReturnType DEF TypeOK
<1>5. CASE SkipForeign(w, row)
  <2>1. CASE Return(w, NULL)
    BY <1>5, <2>1, ReturnType DEF SkipForeign, table, TypeOK
  <2>2. CASE Continue(w, row)
    BY <1>5, <2>2, ContinueType DEF SkipForeign, table, TypeOK
  <2>. QED  BY <1>5, <2>1, <2>2 DEF SkipForeign
<1>6. CASE ReturnOwn(w, row)
  <2>. DEFINE value == [id |-> row.target_id, depends_on |-> row.source_id,
                        status |-> row.target_status]
  <2>1. value \in Response
    BY <1>2, <1>6 DEF ReturnOwn, Response, Candidate
  <2>2. Return(w, value) /\ UNCHANGED <<events, next_id>>
    BY <1>6 DEF ReturnOwn, table
  <2>. QED  BY <2>1, <2>2, ReturnType DEF TypeOK
<1>7. CASE CreateTarget(w, row)
  <2>. DEFINE value == [id |-> next_id, depends_on |-> row.source_id,
                        status |-> "pending"]
  <2>1. Insert(TopicOf[w], JobHash(w, row), row.source_id, "pending", SenderOf[w], NULL)
    BY <1>7 DEF CreateTarget
  <2>2. row.source_id \in EventId /\ "pending" \in EventStatus
    BY <1>2 DEF Candidate, EventStatus
  <2>3. JobHash(w, row) \in Hash
    BY <1>3, <2>2 DEF JobHash, Hash
  <2>4. /\ events' \in [EventId -> Event \cup {NULL}]
        /\ next_id' \in 1 .. MaxEvents + 1
    BY <1>3, <2>1, <2>2, <2>3, InsertType
  <2>5. value \in Response /\ Return(w, value)
    BY <1>7, <2>1, <2>2 DEF Response, Insert, CreateTarget
  <2>. QED  BY <2>4, <2>5, ReturnType DEF TypeOK
<1>8. CASE CreateConflict(w, row)
  <2>1. CASE Return(w, NULL)
    BY <1>8, <2>1, ReturnType DEF CreateConflict, table, TypeOK
  <2>2. CASE Continue(w, row)
    BY <1>8, <2>2, ContinueType DEF CreateConflict, table, TypeOK
  <2>. QED  BY <1>8, <2>1, <2>2 DEF CreateConflict
<1>9. CASE CreateOrphan(w, row)
  <2>1. CASE Return(w, NULL)
    BY <1>9, <2>1, ReturnType DEF CreateOrphan, table, TypeOK
  <2>2. CASE ~Sequential
    BY <1>9, <2>2 DEF CreateOrphan, table, TypeOK
  <2>. QED  BY <1>9, <2>1, <2>2 DEF CreateOrphan
<1>. QED  BY <1>1, <1>4, <1>5, <1>6, <1>7, <1>8, <1>9

\* The steps of the other users of the table.
LEMMA OtherStepType ==
  ASSUME TypeOK, OtherStep
  PROVE  TypeOK'
<1>. USE DEF call
<1>1. ASSUME NEW status \in PostStatuses, NEW created_at \in CreatedAt,
             PostEvent(status, created_at)
      PROVE  TypeOK'
  <2>1. /\ SourceTopic \in Topics /\ <<SourceTopic, next_id>> \in Hash
        /\ status \in EventStatus
    BY <1>1, ConstantsAssumption DEF Topics, Hash, EventStatus, PostEvent, Insert
  <2>2. Insert(SourceTopic, <<SourceTopic, next_id>>, NULL, status, NULL, created_at)
    BY <1>1 DEF PostEvent
  <2>3. /\ events' \in [EventId -> Event \cup {NULL}]
        /\ next_id' \in 1 .. MaxEvents + 1
    BY <2>1, <2>2, InsertType
  <2>. QED  BY <1>1, <2>3 DEF PostEvent, TypeOK
<1>2. ASSUME NEW e \in EventId, FinishSource(e) \/ Touch(e)
      PROVE  TypeOK'
  <2>1. PICK status \in {"finished", NULL} : Update(e, status, NULL, NULL)
    BY <1>2 DEF FinishSource, Touch
  <2>2. /\ events' \in [EventId -> Event \cup {NULL}]
        /\ next_id' \in 1 .. MaxEvents + 1
    BY <2>1, UpdateType DEF EventStatus
  <2>. QED  BY <1>2, <2>2 DEF FinishSource, Touch, TypeOK
<1>3. ASSUME NEW e \in EventId, Age(e)
      PROVE  TypeOK'
  <2>1. [events[e] EXCEPT !.recent = FALSE] \in Event
    BY <1>3 DEF Age, Live, TypeOK, Event
  <2>. QED  BY <1>3, <2>1 DEF Age, TypeOK
<1>4. ASSUME NEW e \in EventId, NEW status \in OperatorStatuses, NEW retries \in PatchRetries,
             OperatorPatch(e, status, retries)
      PROVE  TypeOK'
  <2>1. /\ events' \in [EventId -> Event \cup {NULL}]
        /\ next_id' \in 1 .. MaxEvents + 1
    BY <1>4, UpdateType, ConstantsAssumption DEF OperatorPatch
  <2>. QED  BY <1>4, <2>1 DEF OperatorPatch, TypeOK
<1>5. ASSUME NEW set \in SUBSET EventId, DeleteEvents(set)
      PROVE  TypeOK'
  BY <1>5 DEF DeleteEvents, TypeOK
<1>. QED  BY <1>1, <1>2, <1>3, <1>4, <1>5 DEF OtherStep

LEMMA TypeStep ==
  ASSUME TypeOK, [Next]_vars
  PROVE  TypeOK'
<1>1. ASSUME NEW w \in Workers, OpenCursor(w)
      PROVE  TypeOK'
  BY <1>1, OpenedRows, QueryType DEF OpenCursor, TypeOK
<1>2. ASSUME NEW w \in Workers, NextRow(w)
      PROVE  TypeOK'
  BY <1>2, NextRowType
<1>3. ASSUME NEW w \in Workers, NoMoreRows(w) \/ RaiseAborted(w)
      PROVE  TypeOK'
  <2>1. CASE NoMoreRows(w)
    BY <2>1, ReturnType DEF NoMoreRows, table, TypeOK
  <2>2. CASE RaiseAborted(w)
    BY <2>2 DEF RaiseAborted, TypeOK
  <2>. QED  BY <1>3, <2>1, <2>2
<1>4. ASSUME NEW w \in Workers,
             Deliver(w) \/ DeliverError(w) \/ LoseReply(w) \/ Crash(w)
      PROVE  TypeOK'
  <2>1. CASE Deliver(w)
    <3>1. response[w] # NULL => response[w].id \in EventId
      BY DEF TypeOK, Response
    <3>. QED  BY <2>1, <3>1 DEF Deliver, TypeOK
  <2>2. CASE DeliverError(w) \/ LoseReply(w) \/ Crash(w)
    BY <2>2 DEF DeliverError, LoseReply, Crash, TypeOK, table, call
  <2>. QED  BY <1>4, <2>1, <2>2
<1>5. ASSUME NEW w \in Workers, NEW status \in WorkerStatuses, NEW retries \in PatchRetries,
             Report(w, status, retries)
      PROVE  TypeOK'
  <2>1. /\ job[w] \in EventId /\ SenderOf[w] \in Senders
        /\ status \in EventStatus /\ retries \in Int \cup {NULL}
    BY <1>5, ConstantsAssumption DEF Report, TypeOK
  <2>2. /\ events' \in [EventId -> Event \cup {NULL}]
        /\ next_id' \in 1 .. MaxEvents + 1
    BY <1>5, <2>1, UpdateType DEF Report
  <2>. QED  BY <1>5, <2>1, <2>2 DEF Report, TypeOK, call
<1>6. CASE OtherStep
  BY <1>6, OtherStepType
<1>7. CASE UNCHANGED vars
  BY <1>7 DEF vars, TypeOK
<1>. QED
  BY <1>1, <1>2, <1>3, <1>4, <1>5, <1>6, <1>7 DEF Next, EnrollStep, ServiceStep

\* Every reachable state of the job queue is well typed: the statuses,
\* senders, retries and hashes the code writes are those the table declares.
THEOREM TypeCorrect == Spec => []TypeOK
<1>1. Init => TypeOK
  BY ConstantsAssumption DEF Init, TypeOK
<1>2. TypeOK /\ [Next]_vars => TypeOK'
  BY TypeStep
<1>. QED  BY <1>1, <1>2, PTL DEF Spec

-----------------------------------------------------------------------------
(* The table: one target per source, no target without its source *)

\* What a step of the system does to the identity of the rows: it keeps it,
\* or inserts a job or a posted event, or deletes rows nobody depends on.
KeepRows ==
  /\ next_id' = next_id
  /\ \A e \in EventId :
       IF events[e] = NULL
         THEN events'[e] = NULL
         ELSE /\ events'[e] # NULL
              /\ events'[e].topic = events[e].topic
              /\ events'[e].hash = events[e].hash
              /\ events'[e].depends_on = events[e].depends_on
              /\ events'[e].created_at = events[e].created_at

InsertJob ==
  \E topic \in TargetTopics, source \in Live, sender \in Senders :
    /\ ~HashTaken(<<topic, source>>)
    /\ Insert(topic, <<topic, source>>, source, "pending", sender, NULL)

InsertPosted ==
  \E status \in PostStatuses, created_at \in CreatedAt :
    Insert(SourceTopic, <<SourceTopic, next_id>>, NULL, status, NULL, created_at)

DeleteRows ==
  /\ MayDelete
  /\ next_id' = next_id
  /\ \E set \in SUBSET EventId :
       /\ \A e \in Live \ set : events[e].depends_on \notin set
       /\ events' = [e \in EventId |-> IF e \in set THEN NULL ELSE events[e]]

LEMMA UpdateKeeps ==
  ASSUME TypeOK, NEW id \in EventId, NEW status \in EventStatus \cup {NULL},
         NEW sender \in Senders \cup {NULL}, NEW retries \in Int \cup {NULL},
         Update(id, status, sender, retries)
  PROVE  KeepRows
<1>1. CASE events[id] = NULL
  BY <1>1 DEF Update, KeepRows
<1>2. CASE events[id] # NULL
  BY <1>2, UpdateRow DEF Update, KeepRows, TypeOK
<1>. QED  BY <1>1, <1>2

LEMMA NextRowTable ==
  ASSUME TypeOK, NEW w \in Workers, NextRow(w)
  PROVE  KeepRows \/ InsertJob
<1>1. PICK row \in Oldest(rows[w]) :
        \/ RetryTarget(w, row) \/ SkipForeign(w, row) \/ ReturnOwn(w, row)
        \/ CreateTarget(w, row) \/ CreateConflict(w, row) \/ CreateOrphan(w, row)
  BY DEF NextRow
<1>2. row \in Candidate
  BY DEF Oldest, TypeOK
<1>3. SenderOf[w] \in Senders /\ TopicOf[w] \in TargetTopics
  BY ConstantsAssumption
<1>4. CASE RetryTarget(w, row)
  <2>. DEFINE retries == IF row.target_status = "failed"
                           THEN row.target_retries + 1 ELSE row.target_retries
  <2>1. row.target_id \in EventId /\ retries \in Int /\ "pending" \in EventStatus
    BY <1>2, <1>4, NullAssumption DEF RetryTarget, Retryable, EventStatus, Candidate
  <2>2. Update(row.target_id, "pending", SenderOf[w], retries)
    BY <1>4 DEF RetryTarget
  <2>. QED  BY <1>3, <2>1, <2>2, UpdateKeeps
<1>5. CASE CreateTarget(w, row)
  BY <1>2, <1>3, <1>5 DEF CreateTarget, InsertJob, JobHash, Live, Candidate
<1>6. CASE SkipForeign(w, row) \/ ReturnOwn(w, row) \/ CreateConflict(w, row)
             \/ CreateOrphan(w, row)
  BY <1>6 DEF SkipForeign, ReturnOwn, CreateConflict, CreateOrphan, table, KeepRows
<1>. QED  BY <1>1, <1>4, <1>5, <1>6

LEMMA TableStep ==
  ASSUME TypeOK, [Next]_vars
  PROVE  KeepRows \/ InsertJob \/ InsertPosted \/ DeleteRows
<1>1. ASSUME NEW w \in Workers, NextRow(w)
      PROVE  KeepRows \/ InsertJob
  BY <1>1, NextRowTable
<1>2. ASSUME NEW w \in Workers,
             \/ OpenCursor(w) \/ NoMoreRows(w) \/ RaiseAborted(w) \/ Deliver(w)
             \/ DeliverError(w) \/ LoseReply(w) \/ Crash(w)
      PROVE  KeepRows
  BY <1>2 DEF OpenCursor, NoMoreRows, RaiseAborted, Deliver, DeliverError,
              LoseReply, Crash, table, KeepRows
<1>3. ASSUME NEW w \in Workers, NEW status \in WorkerStatuses, NEW retries \in PatchRetries,
             Report(w, status, retries)
      PROVE  KeepRows
  <2>1. /\ job[w] \in EventId /\ SenderOf[w] \in Senders
        /\ status \in EventStatus /\ retries \in Int \cup {NULL}
    BY <1>3, ConstantsAssumption DEF Report, TypeOK
  <2>. QED  BY <1>3, <2>1, UpdateKeeps DEF Report
<1>4. ASSUME NEW status \in PostStatuses, NEW created_at \in CreatedAt,
             PostEvent(status, created_at)
      PROVE  InsertPosted
  BY <1>4 DEF PostEvent, InsertPosted
<1>5. ASSUME NEW e \in EventId, FinishSource(e) \/ Touch(e)
      PROVE  KeepRows
  <2>1. PICK status \in {"finished", NULL} : Update(e, status, NULL, NULL)
    BY <1>5 DEF FinishSource, Touch
  <2>. QED  BY <2>1, UpdateKeeps DEF EventStatus
<1>6. ASSUME NEW e \in EventId, Age(e)
      PROVE  KeepRows
  <2>1. events[e] \in Event
    BY <1>6 DEF Age, Live, TypeOK
  <2>2. events'[e] = [events[e] EXCEPT !.recent = FALSE]
    BY <1>6 DEF Age, TypeOK
  <2>3. /\ events'[e] \in Event
        /\ events'[e].topic = events[e].topic
        /\ events'[e].hash = events[e].hash
        /\ events'[e].depends_on = events[e].depends_on
        /\ events'[e].created_at = events[e].created_at
    BY <2>1, <2>2 DEF Event
  <2>4. \A x \in EventId \ {e} : events'[x] = events[x]
    BY <1>6 DEF Age, TypeOK
  <2>5. next_id' = next_id /\ events[e] # NULL /\ events'[e] # NULL
    BY <1>6, <2>3, NullAssumption DEF Age, Live
  <2>. QED  BY <2>3, <2>4, <2>5 DEF KeepRows
<1>7. ASSUME NEW e \in EventId, NEW status \in OperatorStatuses, NEW retries \in PatchRetries,
             OperatorPatch(e, status, retries)
      PROVE  KeepRows
  BY <1>7, UpdateKeeps, ConstantsAssumption DEF OperatorPatch
<1>8. ASSUME NEW set \in SUBSET EventId, DeleteEvents(set)
      PROVE  DeleteRows
  BY <1>8 DEF DeleteEvents, DeleteRows
<1>9. CASE UNCHANGED vars
  BY <1>9 DEF vars, KeepRows
<1>. QED
  BY <1>1, <1>2, <1>3, <1>4, <1>5, <1>6, <1>7, <1>8, <1>9
     DEF Next, EnrollStep, ServiceStep, OtherStep

\* The strengthening of AtMostOneTarget and TargetHasSource.  A job's hash is
\* its topic and its source, a posted event's is its own id, and hashes are
\* unique: so jobs of one topic and source have the same hash, and coincide.
TableInv ==
  /\ \A e \in Live : e < next_id
  /\ \A e \in Live : events[e].depends_on = NULL =>
       events[e].hash = <<SourceTopic, e>>
  /\ \A e \in Live : events[e].depends_on # NULL =>
       /\ events[e].topic \in TargetTopics
       /\ events[e].hash = <<events[e].topic, events[e].depends_on>>
       /\ events[e].depends_on \in Live
  /\ \A a, b \in Live : events[a].hash = events[b].hash => a = b

LEMMA TableInvStep ==
  ASSUME TypeOK, TableInv, TypeOK', [Next]_vars
  PROVE  TableInv'
<1>1. CASE KeepRows
  <2>1. Live' = Live
    BY <1>1 DEF Live, KeepRows
  <2>. QED  BY <1>1, <2>1 DEF TableInv, KeepRows, Live
<1>2. CASE InsertJob
  <2>1. PICK topic \in TargetTopics, source \in Live, sender \in Senders :
          /\ ~HashTaken(<<topic, source>>)
          /\ Insert(topic, <<topic, source>>, source, "pending", sender, NULL)
    BY <1>2 DEF InsertJob
  <2>. DEFINE row == [topic |-> topic, hash |-> <<topic, source>>,
                      depends_on |-> source, status |-> "pending",
                      sender |-> sender, retries |-> 0, created_at |-> NULL, recent |-> TRUE]
  <2>2. /\ next_id \in EventId /\ next_id' = next_id + 1
        /\ events'[next_id] = row
        /\ \A e \in EventId \ {next_id} : events'[e] = events[e]
    BY <2>1 DEF Insert, TypeOK
  <2>3. row # NULL
    <3>1. /\ topic \in Topics /\ source \in EventId
          /\ <<topic, source>> \in Hash
      BY DEF Topics, Live, Hash
    <3>2. row \in Event
      BY <3>1 DEF Event, EventStatus
    <3>. QED  BY <3>2, NullAssumption
  <2>4. /\ next_id \notin Live /\ Live' = Live \cup {next_id}
        /\ source # NULL
    <3>1. next_id \notin Live
      BY <2>2, ConstantsAssumption DEF TableInv, EventId
    <3>2. Live' = Live \cup {next_id}
      BY <2>2, <2>3 DEF Live
    <3>3. source # NULL
      BY <2>1, NullAssumption DEF Live
    <3>. QED  BY <3>1, <3>2, <3>3
  <2>5. \A e \in Live : events[e].hash # <<topic, source>>
    BY <2>1 DEF HashTaken
  <2>. QED  BY <2>1, <2>2, <2>4, <2>5, ConstantsAssumption DEF TableInv, Live, EventId
<1>3. CASE InsertPosted
  <2>1. PICK status \in PostStatuses, created_at \in CreatedAt :
          Insert(SourceTopic, <<SourceTopic, next_id>>, NULL, status, NULL, created_at)
    BY <1>3 DEF InsertPosted
  <2>. DEFINE row == [topic |-> SourceTopic, hash |-> <<SourceTopic, next_id>>,
                      depends_on |-> NULL, status |-> status,
                      sender |-> NULL, retries |-> 0, created_at |-> created_at,
                      recent |-> TRUE]
  <2>2. /\ next_id \in EventId /\ next_id' = next_id + 1
        /\ events'[next_id] = row
        /\ \A e \in EventId \ {next_id} : events'[e] = events[e]
    BY <2>1 DEF Insert, TypeOK
  <2>3. row # NULL
    <3>1. /\ SourceTopic \in Topics /\ status \in EventStatus
          /\ <<SourceTopic, next_id>> \in Hash
      BY <2>2, ConstantsAssumption DEF Topics, Hash, EventStatus
    <3>2. row \in Event
      BY <3>1 DEF Event
    <3>. QED  BY <3>2, NullAssumption
  <2>4. next_id \notin Live /\ Live' = Live \cup {next_id}
    <3>1. next_id \notin Live
      BY <2>2, ConstantsAssumption DEF TableInv, EventId
    <3>2. Live' = Live \cup {next_id}
      BY <2>2, <2>3 DEF Live
    <3>. QED  BY <3>1, <3>2
  <2>5. \A e \in Live : events[e].hash # <<SourceTopic, next_id>>
    BY <2>4, ConstantsAssumption DEF TableInv
  <2>. QED  BY <2>2, <2>4, <2>5 DEF TableInv, Live, EventId
<1>4. CASE DeleteRows
  <2>1. PICK set \in SUBSET EventId :
          /\ \A e \in Live \ set : events[e].depends_on \notin set
          /\ events' = [e \in EventId |-> IF e \in set THEN NULL ELSE events[e]]
          /\ next_id' = next_id
    BY <1>4 DEF DeleteRows
  <2>2. Live' = Live \ set /\ \A e \in Live' : events'[e] = events[e]
    BY <2>1 DEF Live
  <2>. QED  BY <2>1, <2>2 DEF TableInv
<1>. QED  BY <1>1, <1>2, <1>3, <1>4, TableStep

THEOREM TableInvariant == Spec => []TableInv
<1>1. Init => TableInv
  BY DEF Init, TableInv, Live
<1>2. TypeOK /\ TableInv /\ TypeOK' /\ [Next]_vars => TableInv'
  BY TableInvStep
<1>. QED  BY <1>1, <1>2, TypeCorrect, PTL DEF Spec

\* However many services enroll at once, a source has one target per topic.
THEOREM UniqueTarget == Spec => []AtMostOneTarget
<1>1. TableInv => AtMostOneTarget
  BY DEF TableInv, AtMostOneTarget, Target
<1>. QED  BY <1>1, TableInvariant, PTL

\* A target event always has its source.
THEOREM NoDanglingTarget == Spec => []TargetHasSource
<1>1. TableInv => TargetHasSource
  BY DEF TableInv, TargetHasSource, Target
<1>. QED  BY <1>1, TableInvariant, PTL

-----------------------------------------------------------------------------
(* Retries *)

\* A number of retries that enroll_job may count up to, or that a PATCH may set.
RetriesOK(retries) == retries <= MaxRetries + 1 \/ retries \in PatchRetries

\* The strengthening of RetriesBounded: a worker that holds a snapshot in which
\* a job has failed may still write one more than the retries it saw.
RetriesInv ==
  ~IgnoreOlder =>
    /\ \A e \in EventId : e \in Live => RetriesOK(events[e].retries)
    /\ \A w \in Workers : \A r \in rows[w] :
         /\ RetriesOK(r.target_retries)
         /\ r.target_status = "failed" => r.target_retries <= MaxRetries

\* The query never returns a target that has failed too often.
LEMMA QueryRetries ==
  ASSUME TypeOK, RetriesInv, ~IgnoreOlder, NEW topic, NEW r \in Query(topic)
  PROVE  /\ RetriesOK(r.target_retries)
         /\ r.target_status = "failed" => r.target_retries <= MaxRetries
<1>1. ASSUME NEW s \in SourceEvents(topic), NEW t \in TargetsOf(topic, s),
             r = Joined(s, t)
      PROVE  /\ RetriesOK(r.target_retries)
             /\ r.target_status = "failed" => r.target_retries <= MaxRetries
  <2>1. /\ t \in Live /\ t \in EventId /\ s # NULL
        /\ events[t].topic = topic /\ events[t].depends_on = s
    BY NullAssumption DEF TargetsOf, Live, SourceEvents
  <2>2. events[t] \in Event
    BY <2>1 DEF TypeOK, Live
  <2>3. ~(events[t].status = "failed" /\ events[t].retries > MaxRetries)
    <3>1. s \notin Excluded(topic)
      BY DEF SourceEvents
    <3>2. InWindow(t)
      BY DEF InWindow
    <3>. QED  BY <2>1, <3>1, <3>2 DEF Excluded
  <2>4. r.target_retries = events[t].retries /\ r.target_status = events[t].status
    BY <1>1 DEF Joined
  <2>5. events[t].retries \in Int
    BY <2>2 DEF Event
  <2>. QED  BY <2>1, <2>3, <2>4, <2>5, ConstantsAssumption DEF RetriesInv
<1>2. ASSUME NEW s \in SourceEvents(topic), r = Unjoined(s)
      PROVE  /\ RetriesOK(r.target_retries)
             /\ r.target_status = "failed" => r.target_retries <= MaxRetries
  BY <1>2, ConstantsAssumption DEF Unjoined, RetriesOK
<1>. QED  BY <1>1, <1>2, QueryRow

\* An update that leaves retries alone, or sets them within the bound.
LEMMA UpdateRetries ==
  ASSUME TypeOK, RetriesInv, ~IgnoreOlder, NEW id \in EventId,
         NEW status \in EventStatus \cup {NULL},
         NEW sender \in Senders \cup {NULL}, NEW retries \in Int \cup {NULL},
         retries # NULL => RetriesOK(retries),
         Update(id, status, sender, retries)
  PROVE  \A e \in EventId : e \in Live' => RetriesOK(events'[e].retries)
<1>1. CASE events[id] = NULL
  BY <1>1 DEF Update, RetriesInv, Live
<1>2. CASE events[id] # NULL
  <2>1. /\ events' = [events EXCEPT ![id] = events'[id]]
        /\ events'[id].retries = Coalesce(retries, events[id].retries)
    BY <1>2, UpdateRow
  <2>2. RetriesOK(events'[id].retries)
    BY <1>2, <2>1 DEF Coalesce, RetriesInv, Live
  <2>3. \A e \in EventId \ {id} : events'[e] = events[e]
    BY <2>1 DEF TypeOK
  <2>. QED  BY <2>2, <2>3 DEF RetriesInv, Live
<1>. QED  BY <1>1, <1>2

LEMMA InsertRetries ==
  ASSUME TypeOK, RetriesInv, ~IgnoreOlder,
         NEW topic, NEW hash, NEW depends_on, NEW status, NEW sender, NEW created_at,
         Insert(topic, hash, depends_on, status, sender, created_at)
  PROVE  \A e \in EventId : e \in Live' => RetriesOK(events'[e].retries)
<1>1. /\ events'[next_id].retries = 0
      /\ \A e \in EventId \ {next_id} : events'[e] = events[e]
  BY DEF Insert, TypeOK
<1>. QED  BY <1>1, ConstantsAssumption DEF RetriesInv, RetriesOK, Live

\* A worker's rows are those it had, or those of the cursor it opens.
RowsShrink == \A w \in Workers : rows'[w] \subseteq rows[w]

LEMMA NextRowShrinks ==
  ASSUME TypeOK, NEW w \in Workers, NextRow(w)
  PROVE  RowsShrink
<1>1. PICK row \in Oldest(rows[w]) :
        \/ RetryTarget(w, row) \/ SkipForeign(w, row) \/ ReturnOwn(w, row)
        \/ CreateTarget(w, row) \/ CreateConflict(w, row) \/ CreateOrphan(w, row)
  BY DEF NextRow
<1>2. \/ rows' = [rows EXCEPT ![w] = {}]
      \/ rows' = [rows EXCEPT ![w] = @ \ {row}]
  BY <1>1 DEF RetryTarget, SkipForeign, ReturnOwn, CreateTarget, CreateConflict,
              CreateOrphan, Return, Continue
<1>. QED  BY <1>2 DEF RowsShrink, TypeOK

LEMMA RetriesStep ==
  ASSUME TypeOK, RetriesInv, [Next]_vars
  PROVE  RetriesInv'
<1>. SUFFICES ASSUME ~IgnoreOlder
              PROVE  /\ \A e \in EventId : e \in Live' => RetriesOK(events'[e].retries)
                     /\ \A w \in Workers : \A r \in rows'[w] :
                          /\ RetriesOK(r.target_retries)
                          /\ r.target_status = "failed" => r.target_retries <= MaxRetries
  BY DEF RetriesInv
<1>. DEFINE Bounded == \A e \in EventId : e \in Live' => RetriesOK(events'[e].retries)
            RowsBounded == \A w \in Workers : \A r \in rows'[w] :
                             /\ RetriesOK(r.target_retries)
                             /\ r.target_status = "failed" => r.target_retries <= MaxRetries
<1>1. RowsShrink => RowsBounded
  BY DEF RowsShrink, RetriesInv
<1>2. UNCHANGED events => Bounded
  BY DEF RetriesInv, Live
<1>3. ASSUME NEW w \in Workers, OpenCursor(w)
      PROVE  Bounded /\ RowsBounded
  <2>1. \A r \in Query(TopicOf[w]) :
          /\ RetriesOK(r.target_retries)
          /\ r.target_status = "failed" => r.target_retries <= MaxRetries
    BY QueryRetries
  <2>2. rows' = [rows EXCEPT ![w] = rows'[w]] /\ rows'[w] \subseteq Query(TopicOf[w])
    BY <1>3, OpenedRows
  <2>. QED  BY <1>2, <1>3, <2>1, <2>2 DEF OpenCursor, RetriesInv, TypeOK
<1>4. ASSUME NEW w \in Workers, NextRow(w)
      PROVE  Bounded /\ RowsBounded
  <2>1. PICK row \in Oldest(rows[w]) :
          \/ RetryTarget(w, row) \/ SkipForeign(w, row) \/ ReturnOwn(w, row)
          \/ CreateTarget(w, row) \/ CreateConflict(w, row) \/ CreateOrphan(w, row)
    BY <1>4 DEF NextRow
  <2>2. CASE RetryTarget(w, row)
    <3>. DEFINE retries == IF row.target_status = "failed"
                             THEN row.target_retries + 1 ELSE row.target_retries
    <3>1. row \in rows[w] /\ row \in Candidate
      BY <2>1 DEF Oldest, TypeOK
    <3>2. row.target_id \in EventId /\ retries \in Int /\ "pending" \in EventStatus
      BY <2>2, <3>1, NullAssumption DEF RetryTarget, Retryable, EventStatus, Candidate
    <3>3. row.target_retries \in Int
      BY <3>1 DEF Candidate
    <3>4. RetriesOK(retries)
      BY <3>1, <3>3, ConstantsAssumption DEF RetriesInv, RetriesOK
    <3>5. Update(row.target_id, "pending", SenderOf[w], retries)
      BY <2>2 DEF RetryTarget
    <3>6. SenderOf[w] \in Senders
      BY ConstantsAssumption
    <3>7. Bounded
      BY <3>2, <3>4, <3>5, <3>6, UpdateRetries
    <3>. QED  BY <1>1, <1>4, <3>7, NextRowShrinks
  <2>3. CASE CreateTarget(w, row)
    BY <1>1, <1>4, <2>3, InsertRetries, NextRowShrinks DEF CreateTarget
  <2>4. CASE SkipForeign(w, row) \/ ReturnOwn(w, row) \/ CreateConflict(w, row)
               \/ CreateOrphan(w, row)
    BY <1>1, <1>2, <1>4, <2>4, NextRowShrinks
       DEF SkipForeign, ReturnOwn, CreateConflict, CreateOrphan, table
  <2>. QED  BY <2>1, <2>2, <2>3, <2>4
<1>5. ASSUME NEW w \in Workers,
             \/ NoMoreRows(w) \/ RaiseAborted(w) \/ Deliver(w)
             \/ DeliverError(w) \/ LoseReply(w) \/ Crash(w)
      PROVE  Bounded /\ RowsBounded
  <2>1. RowsShrink
    BY <1>5 DEF NoMoreRows, RaiseAborted, Deliver, DeliverError, LoseReply, Crash,
                call, Return, RowsShrink, TypeOK
  <2>2. UNCHANGED events
    BY <1>5 DEF NoMoreRows, RaiseAborted, Deliver, DeliverError, LoseReply, Crash, table
  <2>. QED  BY <1>1, <1>2, <2>1, <2>2
<1>6. ASSUME NEW w \in Workers, NEW status \in WorkerStatuses, NEW retries \in PatchRetries,
             Report(w, status, retries)
      PROVE  Bounded /\ RowsBounded
  <2>1. /\ job[w] \in EventId /\ SenderOf[w] \in Senders
        /\ status \in EventStatus
    BY <1>6, ConstantsAssumption DEF Report, TypeOK
  <2>2. Bounded
    BY <1>6, <2>1, UpdateRetries, ConstantsAssumption DEF Report, RetriesOK
  <2>. QED  BY <1>1, <1>6, <2>2 DEF Report, call, RowsShrink
<1>7. ASSUME NEW status \in PostStatuses, NEW created_at \in CreatedAt,
             PostEvent(status, created_at)
      PROVE  Bounded /\ RowsBounded
  BY <1>1, <1>7, InsertRetries DEF PostEvent, call, RowsShrink
<1>8. ASSUME NEW e \in EventId, FinishSource(e) \/ Touch(e)
      PROVE  Bounded /\ RowsBounded
  <2>1. PICK status \in {"finished", NULL} : Update(e, status, NULL, NULL)
    BY <1>8 DEF FinishSource, Touch
  <2>2. Bounded
    BY <2>1, UpdateRetries DEF EventStatus
  <2>. QED  BY <1>1, <1>8, <2>2 DEF FinishSource, Touch, call, RowsShrink
<1>9. ASSUME NEW e \in EventId, NEW status \in OperatorStatuses, NEW retries \in PatchRetries,
             OperatorPatch(e, status, retries)
      PROVE  Bounded /\ RowsBounded
  <2>1. Bounded
    BY <1>9, UpdateRetries, ConstantsAssumption DEF OperatorPatch, RetriesOK
  <2>. QED  BY <1>1, <1>9, <2>1 DEF OperatorPatch, call, RowsShrink
<1>10. ASSUME NEW set \in SUBSET EventId, DeleteEvents(set)
       PROVE  Bounded /\ RowsBounded
  BY <1>1, <1>10 DEF DeleteEvents, Live, RetriesInv, call, RowsShrink
<1>11. CASE UNCHANGED vars
  BY <1>1, <1>2, <1>11 DEF vars, RowsShrink
<1>12. ASSUME NEW e \in EventId
       PROVE  ~Age(e)
  BY DEF Age
<1>. QED
  BY <1>3, <1>4, <1>5, <1>6, <1>7, <1>8, <1>9, <1>10, <1>11, <1>12
     DEF Next, EnrollStep, ServiceStep, OtherStep

\* enroll_job never counts a retry beyond max_retries + 1, whatever the retries
\* that requests set: what is above it has been set by a PATCH.
THEOREM BoundedRetries == Spec => []RetriesBounded
<1>1. Init => RetriesInv
  BY DEF Init, RetriesInv, Live
<1>2. TypeOK /\ RetriesInv /\ [Next]_vars => RetriesInv'
  BY RetriesStep
<1>3. RetriesInv => RetriesBounded
  BY DEF RetriesInv, RetriesBounded, RetriesOK, Live
<1>. QED  BY <1>1, <1>2, <1>3, TypeCorrect, PTL DEF Spec

-----------------------------------------------------------------------------
(* One service per job, when no job fails and none is restarted *)

ServiceSenders == {SenderOf[w] : w \in Workers}

NoRestarts ==
  /\ WorkerStatuses \cap {"failed", "restarted"} = {}
  /\ OperatorStatuses \cap {"failed", "restarted"} = {}
  /\ OperatorSender \notin ServiceSenders

\* Everything in the state that makes a sender the holder of an event: the row
\* itself, a service at work, an answer on its way, or a row of a cursor.
RowClaim(x, e) == events[e] # NULL /\ events[e].sender = x
JobClaim(x, e) == \E w \in Workers : job[w] = e /\ SenderOf[w] = x
AnswerClaim(x, e) ==
  \E w \in Workers : response[w] # NULL /\ response[w].id = e /\ SenderOf[w] = x
CursorClaim(x, e) ==
  \E w \in Workers : \E r \in rows[w] : r.target_id = e /\ r.target_sender = x

Claim(x, e) ==
  RowClaim(x, e) \/ JobClaim(x, e) \/ AnswerClaim(x, e) \/ CursorClaim(x, e)

\* The strengthening of OneServicePerJob.
ClaimInv ==
  /\ \A e \in EventId, x, y \in ServiceSenders : Claim(x, e) /\ Claim(y, e) => x = y
  /\ \A e \in EventId, x \in ServiceSenders : Claim(x, e) => e < next_id
  /\ \A e \in EventId : events[e] # NULL =>
       events[e].status \notin {"failed", "restarted"}
  /\ \A w \in Workers : \A r \in rows[w] : ~Retryable(r)

\* Nobody gains a claim on a row.
NoNewClaim ==
  \A e \in EventId, x \in ServiceSenders : Claim(x, e)' => Claim(x, e)

\* Only the worker that creates a job gains a claim on it.
ClaimByCreation ==
  /\ next_id \in EventId
  /\ next_id' = next_id + 1
  /\ \E w \in Workers : \A e \in EventId, x \in ServiceSenders :
       Claim(x, e)' => Claim(x, e) \/ (e = next_id /\ x = SenderOf[w])

NothingRetryable ==
  /\ \A e \in EventId : events'[e] # NULL =>
       events'[e].status \notin {"failed", "restarted"}
  /\ \A w \in Workers : \A r \in rows'[w] : ~Retryable(r)

\* What an update does to the claims on rows.
LEMMA UpdateClaims ==
  ASSUME TypeOK, ClaimInv, NEW id \in EventId,
         NEW status \in (EventStatus \cup {NULL}) \ {"failed", "restarted"},
         NEW sender \in Senders \cup {NULL}, NEW retries \in Int \cup {NULL},
         Update(id, status, sender, retries)
  PROVE  /\ next_id' = next_id
         /\ \A e \in EventId : events'[e] # NULL =>
              events'[e].status \notin {"failed", "restarted"}
         /\ \A e \in EventId, x \in Senders :
              RowClaim(x, e)' => RowClaim(x, e) \/ (e = id /\ x = sender)
<1>1. CASE events[id] = NULL
  BY <1>1 DEF Update, ClaimInv, RowClaim
<1>2. CASE events[id] # NULL
  <2>1. /\ events' = [events EXCEPT ![id] = events'[id]]
        /\ events'[id].status = Coalesce(status, events[id].status)
        /\ events'[id].sender = Coalesce(sender, events[id].sender)
    BY <1>2, UpdateRow
  <2>2. \A e \in EventId \ {id} : events'[e] = events[e]
    BY <2>1 DEF TypeOK
  <2>3. events'[id].status \notin {"failed", "restarted"}
    BY <1>2, <2>1 DEF Coalesce, ClaimInv
  <2>4. events'[id].sender \in {sender, events[id].sender}
    BY <2>1 DEF Coalesce
  <2>. QED  BY <1>2, <2>2, <2>3, <2>4 DEF ClaimInv, RowClaim, Update
<1>. QED  BY <1>1, <1>2

LEMMA ClaimOpenCursor ==
  ASSUME TypeOK, ClaimInv, NEW w \in Workers, OpenCursor(w)
  PROVE  NoNewClaim /\ NothingRetryable /\ next_id' = next_id
<1>1. ASSUME NEW r \in Query(TopicOf[w])
      PROVE  /\ ~Retryable(r)
             /\ r.target_id \in EventId =>
                  events[r.target_id] # NULL /\ events[r.target_id].sender = r.target_sender
  <2>1. ASSUME NEW s \in SourceEvents(TopicOf[w]), NEW t \in TargetsOf(TopicOf[w], s),
               r = Joined(s, t)
        PROVE  /\ ~Retryable(r)
               /\ events[r.target_id] # NULL /\ events[r.target_id].sender = r.target_sender
    BY <2>1 DEF TargetsOf, Live, Joined, Retryable, ClaimInv
  <2>2. ASSUME NEW s \in SourceEvents(TopicOf[w]), r = Unjoined(s)
        PROVE  ~Retryable(r) /\ r.target_id \notin EventId
    BY <2>2, NullAssumption DEF Unjoined, Retryable, EventStatus
  <2>. QED  BY <2>1, <2>2, QueryRow
<1>2. /\ rows' = [rows EXCEPT ![w] = rows'[w]]
      /\ rows'[w] \subseteq Query(TopicOf[w])
      /\ UNCHANGED <<events, next_id, response, job>>
  BY OpenedRows DEF OpenCursor
<1>3. NothingRetryable
  BY <1>1, <1>2 DEF NothingRetryable, ClaimInv, TypeOK, Retryable
<1>4. ASSUME NEW e \in EventId, NEW x \in ServiceSenders, Claim(x, e)'
      PROVE  Claim(x, e)
  <2>1. CASE CursorClaim(x, e)'
    <3>1. PICK v \in Workers : \E r \in rows'[v] : r.target_id = e /\ r.target_sender = x
      BY <2>1 DEF CursorClaim
    <3>2. CASE v = w
      BY <1>1, <1>2, <3>1, <3>2 DEF TypeOK, Claim, RowClaim
    <3>3. CASE v # w
      BY <1>2, <3>1, <3>3 DEF TypeOK, Claim, CursorClaim
    <3>. QED  BY <3>2, <3>3
  <2>2. CASE RowClaim(x, e)' \/ JobClaim(x, e)' \/ AnswerClaim(x, e)'
    BY <1>2, <2>2 DEF Claim, RowClaim, JobClaim, AnswerClaim
  <2>. QED  BY <1>4, <2>1, <2>2 DEF Claim
<1>. QED  BY <1>2, <1>3, <1>4 DEF NoNewClaim

LEMMA ClaimNextRow ==
  ASSUME TypeOK, ClaimInv, NEW w \in Workers, NextRow(w)
  PROVE  /\ NothingRetryable
         /\ (NoNewClaim /\ next_id' = next_id) \/ ClaimByCreation
<1>1. PICK row \in Oldest(rows[w]) :
        \/ RetryTarget(w, row) \/ SkipForeign(w, row) \/ ReturnOwn(w, row)
        \/ CreateTarget(w, row) \/ CreateConflict(w, row) \/ CreateOrphan(w, row)
  BY DEF NextRow
<1>2. row \in rows[w] /\ row \in Candidate /\ ~Retryable(row)
  BY <1>1 DEF Oldest, TypeOK, ClaimInv
<1>3. \A v \in Workers : rows'[v] \subseteq rows[v]
  BY NextRowShrinks DEF RowsShrink
<1>4. \A v \in Workers : \A r \in rows'[v] : ~Retryable(r)
  BY <1>3 DEF ClaimInv
<1>5. \A e \in EventId, x \in ServiceSenders : CursorClaim(x, e)' => CursorClaim(x, e)
  BY <1>3 DEF CursorClaim
<1>6. CASE ReturnOwn(w, row)
  <2>1. /\ response' = [response EXCEPT ![w] =
             [id |-> row.target_id, depends_on |-> row.source_id,
              status |-> row.target_status]]
        /\ UNCHANGED <<events, next_id, job>>
        /\ row.target_sender = SenderOf[w]
    BY <1>6 DEF ReturnOwn, Return, table
  <2>2. NothingRetryable
    BY <1>4, <2>1 DEF NothingRetryable, ClaimInv, Retryable
  <2>3. ASSUME NEW e \in EventId, NEW x \in ServiceSenders, AnswerClaim(x, e)'
        PROVE  Claim(x, e)
    <3>1. PICK v \in Workers :
            response'[v] # NULL /\ response'[v].id = e /\ SenderOf[v] = x
      BY <2>3 DEF AnswerClaim
    <3>2. CASE v = w
      <4>1. row.target_id = e /\ row.target_sender = x
        BY <2>1, <3>1, <3>2 DEF TypeOK
      <4>. QED  BY <1>2, <4>1 DEF Claim, CursorClaim
    <3>3. CASE v # w
      BY <2>1, <3>1, <3>3 DEF TypeOK, Claim, AnswerClaim
    <3>. QED  BY <3>2, <3>3
  <2>4. ASSUME NEW e \in EventId, NEW x \in ServiceSenders,
               RowClaim(x, e)' \/ JobClaim(x, e)'
        PROVE  Claim(x, e)
    BY <2>1, <2>4 DEF Claim, RowClaim, JobClaim
  <2>. QED  BY <1>5, <2>1, <2>2, <2>3, <2>4 DEF NoNewClaim, Claim
<1>7. CASE CreateTarget(w, row)
  <2>1. /\ next_id \in EventId /\ next_id' = next_id + 1
        /\ events'[next_id].sender = SenderOf[w]
        /\ events'[next_id].status = "pending"
        /\ \A e \in EventId \ {next_id} : events'[e] = events[e]
        /\ response' = [response EXCEPT ![w] =
             [id |-> next_id, depends_on |-> row.source_id, status |-> "pending"]]
        /\ UNCHANGED job
    BY <1>7 DEF CreateTarget, Insert, Return, TypeOK
  <2>2. NothingRetryable
    BY <1>4, <2>1 DEF NothingRetryable, ClaimInv, Retryable
  <2>3. ASSUME NEW e \in EventId, NEW x \in ServiceSenders, AnswerClaim(x, e)'
        PROVE  Claim(x, e) \/ (e = next_id /\ x = SenderOf[w])
    <3>1. PICK v \in Workers :
            response'[v] # NULL /\ response'[v].id = e /\ SenderOf[v] = x
      BY <2>3 DEF AnswerClaim
    <3>2. CASE v = w
      BY <2>1, <3>1, <3>2 DEF TypeOK
    <3>3. CASE v # w
      BY <2>1, <3>1, <3>3 DEF TypeOK, Claim, AnswerClaim
    <3>. QED  BY <3>2, <3>3
  <2>4. ASSUME NEW e \in EventId, NEW x \in ServiceSenders, RowClaim(x, e)'
        PROVE  Claim(x, e) \/ (e = next_id /\ x = SenderOf[w])
    BY <2>1, <2>4 DEF Claim, RowClaim
  <2>5. ASSUME NEW e \in EventId, NEW x \in ServiceSenders, JobClaim(x, e)'
        PROVE  Claim(x, e)
    BY <2>1, <2>5 DEF Claim, JobClaim
  <2>6. ASSUME NEW e \in EventId, NEW x \in ServiceSenders, Claim(x, e)'
        PROVE  Claim(x, e) \/ (e = next_id /\ x = SenderOf[w])
    BY <1>5, <2>3, <2>4, <2>5, <2>6 DEF Claim
  <2>. QED  BY <2>1, <2>2, <2>6 DEF ClaimByCreation
<1>8. CASE SkipForeign(w, row) \/ CreateConflict(w, row) \/ CreateOrphan(w, row)
  <2>1. /\ UNCHANGED <<events, next_id, job>>
        /\ response' = response \/ response' = [response EXCEPT ![w] = NULL]
    BY <1>8 DEF SkipForeign, CreateConflict, CreateOrphan, Return, Continue, table
  <2>2. \A v \in Workers : response'[v] # NULL => response'[v] = response[v]
    BY <2>1 DEF TypeOK
  <2>3. ASSUME NEW e \in EventId, NEW x \in ServiceSenders,
               RowClaim(x, e)' \/ JobClaim(x, e)' \/ AnswerClaim(x, e)'
        PROVE  Claim(x, e)
    BY <2>1, <2>2, <2>3 DEF Claim, RowClaim, JobClaim, AnswerClaim
  <2>. QED  BY <1>4, <1>5, <2>1, <2>3
            DEF NoNewClaim, NothingRetryable, ClaimInv, Claim, Retryable
<1>. QED  BY <1>1, <1>2, <1>6, <1>7, <1>8 DEF RetryTarget

\* Calls that end, answers that arrive or get lost, crashes.
LEMMA ClaimCallEnd ==
  ASSUME TypeOK, ClaimInv, NEW w \in Workers,
         \/ NoMoreRows(w) \/ RaiseAborted(w) \/ Deliver(w)
         \/ DeliverError(w) \/ LoseReply(w) \/ Crash(w)
  PROVE  NothingRetryable /\ NoNewClaim /\ next_id' = next_id
<1>1. UNCHANGED <<events, next_id>>
  BY DEF NoMoreRows, RaiseAborted, Deliver, DeliverError, LoseReply, Crash, table
<1>2. \A v \in Workers : rows'[v] \subseteq rows[v]
  BY DEF NoMoreRows, RaiseAborted, Deliver, DeliverError, LoseReply, Crash, call,
         Return, TypeOK
<1>3. \A v \in Workers : response'[v] # NULL => response'[v] = response[v]
  BY DEF NoMoreRows, RaiseAborted, Deliver, DeliverError, LoseReply, Crash, call,
         Return, TypeOK
<1>4. \A v \in Workers :
        \/ job'[v] \in {NULL, job[v]}
        \/ response[v] # NULL /\ job'[v] = response[v].id
  BY DEF NoMoreRows, RaiseAborted, Deliver, DeliverError, LoseReply, Crash, call,
         Return, TypeOK
<1>5. ASSUME NEW e \in EventId, NEW x \in ServiceSenders, Claim(x, e)'
      PROVE  Claim(x, e)
  <2>1. RowClaim(x, e)' => RowClaim(x, e)
    BY <1>1 DEF RowClaim
  <2>2. JobClaim(x, e)' => JobClaim(x, e) \/ AnswerClaim(x, e)
    BY <1>4, NullAssumption DEF JobClaim, AnswerClaim
  <2>3. AnswerClaim(x, e)' => AnswerClaim(x, e)
    BY <1>3 DEF AnswerClaim
  <2>4. CursorClaim(x, e)' => CursorClaim(x, e)
    BY <1>2 DEF CursorClaim
  <2>. QED  BY <1>5, <2>1, <2>2, <2>3, <2>4 DEF Claim
<1>. QED  BY <1>1, <1>2, <1>5 DEF NoNewClaim, NothingRetryable, ClaimInv, Retryable

LEMMA ClaimReport ==
  ASSUME TypeOK, ClaimInv, NoRestarts,
         NEW w \in Workers, NEW status \in WorkerStatuses, NEW retries \in PatchRetries,
             Report(w, status, retries)
  PROVE  NothingRetryable /\ NoNewClaim /\ next_id' = next_id
<1>1. /\ job[w] \in EventId /\ SenderOf[w] \in Senders /\ job[w] # NULL
      /\ status \in (EventStatus \cup {NULL}) \ {"failed", "restarted"}
      /\ retries \in Int \cup {NULL}
  BY ConstantsAssumption DEF Report, TypeOK, NoRestarts
<1>2. /\ next_id' = next_id
      /\ \A e \in EventId : events'[e] # NULL =>
           events'[e].status \notin {"failed", "restarted"}
      /\ \A e \in EventId, x \in Senders :
           RowClaim(x, e)' => RowClaim(x, e) \/ (e = job[w] /\ x = SenderOf[w])
  BY <1>1, UpdateClaims DEF Report
<1>3. UNCHANGED <<rows, response>> /\ \A v \in Workers : job'[v] \in {NULL, job[v]}
  BY DEF Report, call, TypeOK
<1>4. ASSUME NEW e \in EventId, NEW x \in ServiceSenders, Claim(x, e)'
      PROVE  Claim(x, e)
  <2>1. RowClaim(x, e)' => RowClaim(x, e) \/ JobClaim(x, e)
    BY <1>2, ConstantsAssumption DEF JobClaim, ServiceSenders
  <2>2. JobClaim(x, e)' => JobClaim(x, e)
    BY <1>3, NullAssumption DEF JobClaim
  <2>3. AnswerClaim(x, e)' => AnswerClaim(x, e)
    BY <1>3 DEF AnswerClaim
  <2>4. CursorClaim(x, e)' => CursorClaim(x, e)
    BY <1>3 DEF CursorClaim
  <2>. QED  BY <1>4, <2>1, <2>2, <2>3, <2>4 DEF Claim
<1>. QED  BY <1>2, <1>3, <1>4 DEF NoNewClaim, NothingRetryable, ClaimInv

\* The other users of the table write no service's sender.
LEMMA ClaimOther ==
  ASSUME TypeOK, ClaimInv, NoRestarts, OtherStep
  PROVE  /\ NothingRetryable
         /\ NoNewClaim
         /\ next_id' = next_id \/ (next_id \in EventId /\ next_id' = next_id + 1)
<1>. DEFINE Statuses == \A e \in EventId : events'[e] # NULL =>
                          events'[e].status \notin {"failed", "restarted"}
            Rows == \A e \in EventId, x \in ServiceSenders :
                      RowClaim(x, e)' => RowClaim(x, e)
            NextId == \/ next_id' = next_id
                      \/ next_id \in EventId /\ next_id' = next_id + 1
<1>1. ServiceSenders \subseteq Senders /\ NULL \notin ServiceSenders
  BY ConstantsAssumption, NullAssumption DEF ServiceSenders
<1>2. UNCHANGED <<rows, response, job>>
  BY DEF OtherStep, PostEvent, FinishSource, Age, Touch, OperatorPatch, DeleteEvents, call
<1>3. ASSUME NEW status \in PostStatuses, NEW created_at \in CreatedAt,
             PostEvent(status, created_at)
      PROVE  Statuses /\ Rows /\ NextId
  <2>1. /\ next_id \in EventId /\ next_id' = next_id + 1
        /\ events'[next_id].sender = NULL
        /\ events'[next_id].status = status
        /\ \A e \in EventId \ {next_id} : events'[e] = events[e]
    BY <1>3 DEF PostEvent, Insert, TypeOK
  <2>. QED  BY <1>1, <2>1, ConstantsAssumption DEF ClaimInv, RowClaim
<1>4. ASSUME NEW e \in EventId, FinishSource(e) \/ Touch(e)
      PROVE  Statuses /\ Rows /\ NextId
  <2>1. PICK status \in {"finished", NULL} : Update(e, status, NULL, NULL)
    BY <1>4 DEF FinishSource, Touch
  <2>2. status \in (EventStatus \cup {NULL}) \ {"failed", "restarted"}
    BY NullAssumption DEF EventStatus
  <2>. QED  BY <1>1, <2>1, <2>2, UpdateClaims
<1>5. ASSUME NEW e \in EventId, Age(e)
      PROVE  Statuses /\ Rows /\ NextId
  <2>1. events[e] \in Event
    BY <1>5 DEF Age, Live, TypeOK
  <2>2. events'[e] = [events[e] EXCEPT !.recent = FALSE]
    BY <1>5 DEF Age, TypeOK
  <2>3. events'[e].status = events[e].status /\ events'[e].sender = events[e].sender
    BY <2>1, <2>2 DEF Event
  <2>4. \A x \in EventId \ {e} : events'[x] = events[x]
    BY <1>5 DEF Age, TypeOK
  <2>. QED  BY <1>5, <2>1, <2>3, <2>4, NullAssumption DEF Age, ClaimInv, RowClaim
<1>6. ASSUME NEW e \in EventId, NEW status \in OperatorStatuses, NEW retries \in PatchRetries,
             OperatorPatch(e, status, retries)
      PROVE  Statuses /\ Rows /\ NextId
  <2>1. /\ status \in (EventStatus \cup {NULL}) \ {"failed", "restarted"}
        /\ OperatorSender \in Senders \cup {NULL}
        /\ Update(e, status, OperatorSender, retries)
        /\ retries \in Int \cup {NULL}
    BY <1>6, ConstantsAssumption DEF NoRestarts, OperatorPatch
  <2>. QED  BY <1>1, <2>1, UpdateClaims DEF NoRestarts
<1>7. ASSUME NEW set \in SUBSET EventId, DeleteEvents(set)
      PROVE  Statuses /\ Rows /\ NextId
  BY <1>7 DEF DeleteEvents, ClaimInv, RowClaim
<1>8. Statuses /\ Rows /\ NextId
  BY <1>3, <1>4, <1>5, <1>6, <1>7 DEF OtherStep
<1>. QED
  BY <1>2, <1>8 DEF NothingRetryable, NoNewClaim, ClaimInv, Claim, JobClaim,
                    AnswerClaim, CursorClaim

\* How a step changes the claims.
LEMMA ClaimChange ==
  ASSUME TypeOK, ClaimInv, NoRestarts, [Next]_vars
  PROVE  /\ NothingRetryable
         /\ \/ /\ NoNewClaim
               /\ \/ next_id' = next_id
                  \/ next_id \in EventId /\ next_id' = next_id + 1
            \/ ClaimByCreation
<1>1. CASE UNCHANGED vars
  BY <1>1 DEF vars, NothingRetryable, NoNewClaim, ClaimInv, Claim, RowClaim,
              JobClaim, AnswerClaim, CursorClaim
<1>2. CASE OtherStep
  BY <1>2, ClaimOther
<1>3. ASSUME NEW w \in Workers, EnrollStep(w)
      PROVE  /\ NothingRetryable
             /\ (NoNewClaim /\ next_id' = next_id) \/ ClaimByCreation
  BY <1>3, ClaimOpenCursor, ClaimNextRow, ClaimCallEnd DEF EnrollStep
<1>4. ASSUME NEW w \in Workers, ServiceStep(w)
      PROVE  NothingRetryable /\ NoNewClaim /\ next_id' = next_id
  BY <1>4, ClaimReport, ClaimCallEnd DEF ServiceStep
<1>. QED  BY <1>1, <1>2, <1>3, <1>4 DEF Next

LEMMA ClaimStep ==
  ASSUME TypeOK, ClaimInv, NoRestarts, [Next]_vars
  PROVE  ClaimInv'
<1>1. /\ NothingRetryable
      /\ \/ NoNewClaim /\ (next_id' = next_id \/ (next_id \in EventId /\ next_id' = next_id + 1))
         \/ ClaimByCreation
  BY ClaimChange
<1>2. CASE NoNewClaim /\ (next_id' = next_id \/ (next_id \in EventId /\ next_id' = next_id + 1))
  <2>1. \A e \in EventId, x \in ServiceSenders : Claim(x, e)' => e < next_id'
    BY <1>2, ConstantsAssumption DEF NoNewClaim, ClaimInv, EventId
  <2>2. \A e \in EventId, x, y \in ServiceSenders :
          Claim(x, e)' /\ Claim(y, e)' => x = y
    BY <1>2 DEF NoNewClaim, ClaimInv
  <2>. QED  BY <1>1, <2>1, <2>2 DEF ClaimInv, NothingRetryable, Retryable
<1>3. CASE ClaimByCreation
  <2>1. PICK w \in Workers : \A e \in EventId, x \in ServiceSenders :
          Claim(x, e)' => Claim(x, e) \/ (e = next_id /\ x = SenderOf[w])
    BY <1>3 DEF ClaimByCreation
  <2>2. next_id \in EventId /\ next_id' = next_id + 1 /\ next_id \in Int
    BY <1>3, ConstantsAssumption DEF ClaimByCreation, EventId
  <2>3. \A x \in ServiceSenders : ~Claim(x, next_id)
    BY <2>2 DEF ClaimInv
  <2>4. \A e \in EventId, x \in ServiceSenders : Claim(x, e)' => e < next_id'
    BY <2>1, <2>2, ConstantsAssumption DEF ClaimInv, EventId
  <2>5. \A e \in EventId, x, y \in ServiceSenders :
          Claim(x, e)' /\ Claim(y, e)' => x = y
    BY <2>1, <2>3 DEF ClaimInv
  <2>. QED  BY <1>1, <2>4, <2>5 DEF ClaimInv, NothingRetryable, Retryable
<1>. QED  BY <1>1, <1>2, <1>3

\* "effectively prevents two services starting the same job" (EventModel)
\* holds as long as no job fails or is restarted, whatever else happens:
\* lost answers, crashes, aborted, deleted and ageing events.
THEOREM ExclusiveJob ==
  ASSUME NoRestarts
  PROVE  Spec => []OneServicePerJob
<1>1. Init => ClaimInv
  BY NullAssumption
     DEF Init, ClaimInv, Claim, RowClaim, JobClaim, AnswerClaim, CursorClaim
<1>2. TypeOK /\ ClaimInv /\ [Next]_vars => ClaimInv'
  BY ClaimStep
<1>3. TypeOK /\ ClaimInv => OneServicePerJob
  <2>. SUFFICES ASSUME TypeOK, ClaimInv, NEW w \in Workers, NEW x \in Workers,
                       job[w] # NULL, job[w] = job[x]
                PROVE  SenderOf[w] = SenderOf[x]
    BY DEF OneServicePerJob
  <2>1. job[w] \in EventId
    BY DEF TypeOK
  <2>2. Claim(SenderOf[w], job[w]) /\ Claim(SenderOf[x], job[w])
    BY DEF Claim, JobClaim
  <2>3. SenderOf[w] \in ServiceSenders /\ SenderOf[x] \in ServiceSenders
    BY DEF ServiceSenders
  <2>. QED  BY <2>1, <2>2, <2>3 DEF ClaimInv
<1>. QED  BY <1>1, <1>2, <1>3, TypeCorrect, PTL DEF Spec

-----------------------------------------------------------------------------
(* The endpoint: types *)

\* The types of the endpoint itself.
CacheTypeOK ==
  /\ cache \in [Keys -> Entry \cup {NULL}]
  /\ handler \in [Workers -> {"idle", "miss", "hit", "enroll"}]
  /\ cached \in [Workers -> Response \cup {NULL}]
  /\ crashes \in 0 .. MaxCrashes

\* A step that is none of Enroll.
Beyond ==
  \/ \E w \in Workers : ReturnCached(w) \/ LoseConnection(w)
  \/ ServerCrash

\* The other steps are those of Enroll, or leave it alone.
LEMMA EndpointSteps ==
  ASSUME [EndpointNext]_allVars
  PROVE  [Next]_vars \/ Beyond
<1>1. CASE UNCHANGED allVars
  BY <1>1 DEF allVars, vars
<1>2. CASE EndpointNext
  <2>1. ASSUME NEW w \in Workers, HandlerStep(w)
        PROVE  [Next]_vars \/ Beyond
    <3>1. CASE Miss(w) \/ Hit(w) \/ LoseCached(w) \/ StartProcessing(w)
      BY <3>1 DEF Miss, Hit, LoseCached, StartProcessing
    <3>2. CASE Run(w)
      BY <3>2 DEF Run, Next
    <3>3. CASE Respond(w) \/ RespondError(w) \/ CacheResult(w) \/ LoseAnswer(w)
      BY <3>3 DEF Respond, RespondError, CacheResult, LoseAnswer, Next, ServiceStep
    <3>4. CASE ReturnCached(w) \/ LoseConnection(w)
      BY <3>4 DEF Beyond
    <3>. QED  BY <2>1, <3>1, <3>2, <3>3, <3>4 DEF HandlerStep
  <2>2. CASE ServerCrash
    BY <2>2 DEF Beyond
  <2>3. ASSUME NEW key \in Keys, Expire(key)
        PROVE  [Next]_vars
    BY <2>3 DEF Expire
  <2>4. CASE Outside
    BY <2>4 DEF Outside, Next, ServiceStep
  <2>. QED  BY <1>2, <2>1, <2>2, <2>3, <2>4 DEF EndpointNext
<1>. QED  BY <1>1, <1>2

LEMMA EndpointTypeStep ==
  ASSUME EndpointTypeOK, [EndpointNext]_allVars
  PROVE  EndpointTypeOK'
<1>. USE KeyAssumption DEF KeyAssumption
<1>1. TypeOK /\ CacheTypeOK
  BY DEF EndpointTypeOK, CacheTypeOK
<1>2. TypeOK'
  <2>1. CASE [Next]_vars
    BY <1>1, <2>1, TypeStep
  <2>2. CASE Beyond
    <3>1. ASSUME NEW w \in Workers, ReturnCached(w)
          PROVE  TypeOK'
      <4>1. cached[w] \in Response \cup {NULL}
        BY <1>1 DEF CacheTypeOK
      <4>2. (IF cached[w] = NULL THEN NULL ELSE cached[w].id) \in EventId \cup {NULL}
        BY <4>1 DEF Response
      <4>3. job' \in [Workers -> EventId \cup {NULL}]
        BY <1>1, <3>1, <4>2 DEF ReturnCached, TypeOK
      <4>. QED  BY <1>1, <3>1, <4>3 DEF ReturnCached, table, call, TypeOK
    <3>2. ASSUME NEW w \in Workers, LoseConnection(w)
          PROVE  TypeOK'
      BY <1>1, <3>2 DEF LoseConnection, table, TypeOK
    <3>3. CASE ServerCrash
      BY <1>1, <3>3 DEF ServerCrash, table, TypeOK
    <3>. QED  BY <2>2, <3>1, <3>2, <3>3 DEF Beyond
  <2>. QED  BY <2>1, <2>2, EndpointSteps
<1>3. CacheTypeOK'
  <2>1. CASE UNCHANGED allVars
    BY <1>1, <2>1 DEF allVars, CacheTypeOK
  <2>2. ASSUME NEW w \in Workers, HandlerStep(w)
        PROVE  CacheTypeOK'
    <3>1. KeyOf[w] \in Keys /\ response[w] \in Response \cup {NULL}
      BY <1>1 DEF TypeOK
    <3>2. CASE Miss(w)
      BY <1>1, <3>2 DEF Miss, CacheTypeOK
    <3>3. CASE Hit(w)
      <4>1. cache[KeyOf[w]].result \in Response \cup {NULL}
        BY <1>1, <3>1, <3>3 DEF Hit, CacheTypeOK, Entry
      <4>. QED  BY <1>1, <3>3, <4>1 DEF Hit, CacheTypeOK
    <3>4. CASE ReturnCached(w) \/ LoseCached(w)
      BY <1>1, <3>4 DEF ReturnCached, LoseCached, Clear, CacheTypeOK
    <3>5. CASE StartProcessing(w)
      <4>1. [status |-> "processing", result |-> NULL] \in Entry
        BY DEF Entry
      <4>. QED  BY <1>1, <3>5, <4>1 DEF StartProcessing, CacheTypeOK
    <3>6. CASE Run(w)
      BY <1>1, <3>6 DEF Run, endpoint, CacheTypeOK
    <3>7. CASE LoseConnection(w)
      BY <1>1, <3>7 DEF LoseConnection, CacheTypeOK
    <3>8. CASE Respond(w) \/ RespondError(w) \/ LoseAnswer(w)
      BY <1>1, <3>8 DEF Respond, RespondError, LoseAnswer, Clear, CacheTypeOK
    <3>9. CASE CacheResult(w)
      <4>1. [status |-> "done", result |-> response[w]] \in Entry
        BY <3>1 DEF Entry
      <4>. QED  BY <1>1, <3>9, <4>1 DEF CacheResult, CacheTypeOK
    <3>. QED  BY <2>2, <3>2, <3>3, <3>4, <3>5, <3>6, <3>7, <3>8, <3>9 DEF HandlerStep
  <2>3. CASE ServerCrash
    BY <1>1, <2>3 DEF ServerCrash, CacheTypeOK
  <2>4. ASSUME NEW key \in Keys, Expire(key)
        PROVE  CacheTypeOK'
    BY <1>1, <2>4 DEF Expire, Clear, CacheTypeOK
  <2>5. CASE Outside
    BY <1>1, <2>5 DEF Outside, endpoint, CacheTypeOK
  <2>. QED  BY <2>1, <2>2, <2>3, <2>4, <2>5 DEF EndpointNext
<1>. QED  BY <1>2, <1>3 DEF EndpointTypeOK, CacheTypeOK

\* The entries of the cache and the state of the handlers stay within their
\* types, with those of Enroll: crashes and expiry leave nothing half-written.
THEOREM EndpointTypes == EndpointSpec => []EndpointTypeOK
<1>1. EndpointInit => EndpointTypeOK
  BY KeyAssumption, ConstantsAssumption
     DEF KeyAssumption, ConstantsAssumption, EndpointInit, Init, EndpointTypeOK, TypeOK
<1>. QED  BY <1>1, EndpointTypeStep, PTL DEF EndpointSpec
-----------------------------------------------------------------------------
(* One service per job *)

\* The bodies of requests name the sender: equal keys are of equal senders.
KeysTellSenders ==
  \A w, x \in Workers : KeyOf[w] = KeyOf[x] => SenderOf[w] = SenderOf[x]

\* An answer in Redis, or read from there, will give the job to the sender.
EntryClaim(x, e) ==
  \E w \in Workers : /\ SenderOf[w] = x
                     /\ cache[KeyOf[w]] # NULL
                     /\ cache[KeyOf[w]].result # NULL
                     /\ cache[KeyOf[w]].result.id = e

CachedClaim(x, e) ==
  \E w \in Workers : SenderOf[w] = x /\ cached[w] # NULL /\ cached[w].id = e

CacheClaim(x, e) == EntryClaim(x, e) \/ CachedClaim(x, e)

\* With the cache, too, two senders never have a claim on one event.
EndpointClaimInv ==
  /\ ClaimInv
  /\ \A e \in EventId, x, y \in ServiceSenders :
       (Claim(x, e) \/ CacheClaim(x, e)) /\ (Claim(y, e) \/ CacheClaim(y, e)) => x = y
  /\ \A e \in EventId, x \in ServiceSenders : CacheClaim(x, e) => e < next_id

\* A claim of the cache comes from one of Enroll, or was there before.
LEMMA CacheClaims ==
  ASSUME EndpointTypeOK, KeysTellSenders, [EndpointNext]_allVars
  PROVE  \A e \in EventId, x \in ServiceSenders :
           CacheClaim(x, e)' => CacheClaim(x, e) \/ Claim(x, e)
<1>. USE KeyAssumption DEF KeyAssumption
<1>1. /\ cache \in [Keys -> Entry \cup {NULL}]
      /\ cached \in [Workers -> Response \cup {NULL}]
      /\ response \in [Workers -> Response \cup {NULL}]
  BY DEF EndpointTypeOK, TypeOK
<1>2. \A e \in EventId, x \in ServiceSenders :
        EntryClaim(x, e)' => CacheClaim(x, e) \/ Claim(x, e)
  <2>1. ASSUME \A key \in Keys :
                 cache'[key] # NULL /\ cache'[key].result # NULL
                   => cache'[key] = cache[key]
        PROVE  \A e \in EventId, x \in ServiceSenders :
                 EntryClaim(x, e)' => CacheClaim(x, e)
    BY <2>1 DEF EntryClaim, CacheClaim
  <2>2. ASSUME NEW w \in Workers, CacheResult(w)
        PROVE  \A e \in EventId, x \in ServiceSenders :
                 EntryClaim(x, e)' => CacheClaim(x, e) \/ Claim(x, e)
    <3>1. cache' = [cache EXCEPT ![KeyOf[w]] =
                      [status |-> "done", result |-> response[w]]]
      BY <2>2 DEF CacheResult
    <3>2. ASSUME NEW e \in EventId, NEW x \in ServiceSenders, NEW v \in Workers,
                 SenderOf[v] = x, cache'[KeyOf[v]] # NULL,
                 cache'[KeyOf[v]].result # NULL, cache'[KeyOf[v]].result.id = e
          PROVE  CacheClaim(x, e) \/ Claim(x, e)
      <4>1. CASE KeyOf[v] = KeyOf[w]
        <5>1. cache'[KeyOf[v]].result = response[w]
          BY <1>1, <3>1, <4>1
        <5>2. SenderOf[w] = x
          BY <3>2, <4>1 DEF KeysTellSenders
        <5>3. AnswerClaim(x, e)
          BY <3>2, <5>1, <5>2 DEF AnswerClaim
        <5>. QED  BY <5>3 DEF Claim
      <4>2. CASE KeyOf[v] # KeyOf[w]
        <5>1. cache'[KeyOf[v]] = cache[KeyOf[v]]
          BY <1>1, <3>1, <4>2
        <5>. QED  BY <3>2, <5>1 DEF CacheClaim, EntryClaim
      <4>. QED  BY <4>1, <4>2
    <3>. QED  BY <3>2 DEF EntryClaim
  <2>3. \/ \E w \in Workers : CacheResult(w)
        \/ UNCHANGED cache
        \/ \E key \in Keys : Clear(key)
        \/ \E key \in Keys :
             cache' = [cache EXCEPT ![key] = [status |-> "processing", result |-> NULL]]
    BY DEF EndpointNext, allVars, HandlerStep, Miss, Hit, ReturnCached, LoseCached,
           StartProcessing, Run, LoseConnection, Respond, RespondError, LoseAnswer,
           ServerCrash, Expire, Outside, endpoint
  <2>4. \/ \E w \in Workers : CacheResult(w)
        \/ \A key \in Keys :
             cache'[key] # NULL /\ cache'[key].result # NULL
               => cache'[key] = cache[key]
    BY <1>1, <2>3 DEF Clear
  <2>. QED  BY <2>1, <2>2, <2>4
<1>3. \A e \in EventId, x \in ServiceSenders :
        CachedClaim(x, e)' => CacheClaim(x, e)
  <2>1. \A w \in Workers :
          cached'[w] # NULL =>
            \/ cached'[w] = cached[w]
            \/ /\ cache[KeyOf[w]] # NULL
               /\ cached'[w] = cache[KeyOf[w]].result
    <3>1. \/ \E w \in Workers : Hit(w)
          \/ UNCHANGED cached
          \/ \E w \in Workers : cached' = [cached EXCEPT ![w] = NULL]
          \/ cached' = [w \in Workers |-> NULL]
      BY DEF EndpointNext, allVars, HandlerStep, Miss, ReturnCached, LoseCached,
             StartProcessing, Run, LoseConnection, Respond, RespondError, LoseAnswer,
             CacheResult, ServerCrash, Expire, Outside, endpoint
    <3>. QED  BY <1>1, <3>1 DEF Hit
  <2>. QED  BY <2>1 DEF CachedClaim, CacheClaim, EntryClaim
<1>. QED  BY <1>2, <1>3 DEF CacheClaim

\* The steps that are not of Enroll pass a claim on at most.
LEMMA BeyondClaims ==
  ASSUME EndpointTypeOK, EndpointClaimInv, Beyond
  PROVE  /\ next_id' = next_id
         /\ NothingRetryable
         /\ \A e \in EventId, x \in ServiceSenders :
              Claim(x, e)' => Claim(x, e) \/ CacheClaim(x, e)
<1>1. TypeOK /\ ClaimInv /\ cached \in [Workers -> Response \cup {NULL}]
  BY DEF EndpointTypeOK, EndpointClaimInv
<1>2. UNCHANGED <<events, next_id>>
  BY DEF Beyond, ReturnCached, LoseConnection, ServerCrash, table
<1>3. /\ \A v \in Workers : rows'[v] \subseteq rows[v]
      /\ \A v \in Workers : response'[v] # NULL => response'[v] = response[v]
  BY <1>1 DEF Beyond, ReturnCached, LoseConnection, ServerCrash, call, TypeOK
<1>4. \A v \in Workers : job'[v] # NULL =>
        job'[v] = job[v] \/ (cached[v] # NULL /\ job'[v] = cached[v].id)
  BY <1>1 DEF Beyond, ReturnCached, LoseConnection, ServerCrash, TypeOK
<1>5. NothingRetryable
  BY <1>1, <1>2, <1>3 DEF NothingRetryable, ClaimInv, Retryable
<1>6. ASSUME NEW e \in EventId, NEW x \in ServiceSenders, Claim(x, e)'
      PROVE  Claim(x, e) \/ CacheClaim(x, e)
  <2>1. RowClaim(x, e)' => RowClaim(x, e)
    BY <1>2 DEF RowClaim
  <2>2. JobClaim(x, e)' => JobClaim(x, e) \/ CachedClaim(x, e)
    BY <1>4, NullAssumption DEF JobClaim, CachedClaim
  <2>3. AnswerClaim(x, e)' => AnswerClaim(x, e)
    BY <1>3 DEF AnswerClaim
  <2>4. CursorClaim(x, e)' => CursorClaim(x, e)
    BY <1>3 DEF CursorClaim
  <2>. QED  BY <1>6, <2>1, <2>2, <2>3, <2>4 DEF Claim, CacheClaim
<1>. QED  BY <1>2, <1>5, <1>6

LEMMA EndpointClaimStep ==
  ASSUME EndpointTypeOK, EndpointClaimInv, NoRestarts, KeysTellSenders,
         [EndpointNext]_allVars
  PROVE  EndpointClaimInv'
<1>. DEFINE Any(x, e) == Claim(x, e) \/ CacheClaim(x, e)
<1>1. /\ TypeOK /\ ClaimInv
      /\ \A e \in EventId, x, y \in ServiceSenders : Any(x, e) /\ Any(y, e) => x = y
      /\ \A e \in EventId, x \in ServiceSenders : Any(x, e) => e < next_id
  BY DEF EndpointTypeOK, EndpointClaimInv, ClaimInv
<1>2. \A e \in EventId, x \in ServiceSenders : CacheClaim(x, e)' => Any(x, e)
  BY CacheClaims
<1>3. /\ NothingRetryable
      /\ \/ /\ \A e \in EventId, x \in ServiceSenders : Claim(x, e)' => Any(x, e)
            /\ next_id' = next_id \/ (next_id \in EventId /\ next_id' = next_id + 1)
         \/ ClaimByCreation
  <2>1. CASE [Next]_vars
    BY <1>1, <2>1, ClaimChange DEF NoNewClaim
  <2>2. CASE Beyond
    BY <2>2, BeyondClaims
  <2>. QED  BY <2>1, <2>2, EndpointSteps
<1>4. CASE /\ \A e \in EventId, x \in ServiceSenders : Claim(x, e)' => Any(x, e)
           /\ next_id' = next_id \/ (next_id \in EventId /\ next_id' = next_id + 1)
  <2>1. \A e \in EventId, x \in ServiceSenders : Any(x, e)' => Any(x, e)
    BY <1>2, <1>4
  <2>2. \A e \in EventId, x, y \in ServiceSenders : Any(x, e)' /\ Any(y, e)' => x = y
    BY <1>1, <2>1
  <2>3. \A e \in EventId, x \in ServiceSenders : Any(x, e)' => e < next_id'
    BY <1>1, <1>4, <2>1, ConstantsAssumption DEF EventId
  <2>. QED  BY <1>3, <2>2, <2>3 DEF EndpointClaimInv, ClaimInv, NothingRetryable, Retryable
<1>5. CASE ClaimByCreation
  <2>1. PICK w \in Workers : \A e \in EventId, x \in ServiceSenders :
          Claim(x, e)' => Claim(x, e) \/ (e = next_id /\ x = SenderOf[w])
    BY <1>5 DEF ClaimByCreation
  <2>2. next_id \in EventId /\ next_id' = next_id + 1 /\ next_id \in Int
    BY <1>5, ConstantsAssumption DEF ClaimByCreation, EventId
  <2>3. \A x \in ServiceSenders : ~ Any(x, next_id)
    BY <1>1, <2>2
  <2>4. \A e \in EventId, x \in ServiceSenders :
          Any(x, e)' => Any(x, e) \/ (e = next_id /\ x = SenderOf[w])
    BY <1>2, <2>1
  <2>5. \A e \in EventId, x \in ServiceSenders : Any(x, e)' => e < next_id'
    BY <1>1, <2>2, <2>4, ConstantsAssumption DEF EventId
  <2>6. \A e \in EventId, x, y \in ServiceSenders : Any(x, e)' /\ Any(y, e)' => x = y
    BY <1>1, <2>3, <2>4
  <2>. QED  BY <1>3, <2>5, <2>6 DEF EndpointClaimInv, ClaimInv, NothingRetryable, Retryable
<1>. QED  BY <1>3, <1>4, <1>5

\* POST /enroll gives no job to two services, as long as no job fails or is
\* restarted and the body of a request names its sender: also when answers are
\* kept in Redis for clients that have gone, expire, or outlive a crash.
THEOREM ExclusiveAnswers ==
  ASSUME NoRestarts, KeysTellSenders
  PROVE  EndpointSpec => []OneServicePerJob
<1>1. EndpointInit => EndpointClaimInv
  BY NullAssumption, KeyAssumption
     DEF KeyAssumption, EndpointInit, Init, EndpointClaimInv, ClaimInv, Claim,
         RowClaim, JobClaim, AnswerClaim, CursorClaim, CacheClaim, EntryClaim,
         CachedClaim
<1>2. /\ EndpointTypeOK /\ EndpointClaimInv /\ [EndpointNext]_allVars
      => EndpointClaimInv'
  BY EndpointClaimStep
<1>3. EndpointTypeOK /\ EndpointClaimInv => OneServicePerJob
  <2>. SUFFICES ASSUME EndpointTypeOK, EndpointClaimInv,
                       NEW w \in Workers, NEW x \in Workers,
                       job[w] # NULL, job[w] = job[x]
                PROVE  SenderOf[w] = SenderOf[x]
    BY DEF OneServicePerJob
  <2>1. job[w] \in EventId
    BY DEF EndpointTypeOK, TypeOK
  <2>2. Claim(SenderOf[w], job[w]) /\ Claim(SenderOf[x], job[w])
    BY DEF Claim, JobClaim
  <2>3. SenderOf[w] \in ServiceSenders /\ SenderOf[x] \in ServiceSenders
    BY DEF ServiceSenders
  <2>. QED  BY <2>1, <2>2, <2>3 DEF EndpointClaimInv
<1>. QED  BY <1>1, <1>2, <1>3, EndpointTypes, PTL DEF EndpointSpec

-----------------------------------------------------------------------------
(* A finished job stays finished *)

\* A service has one request at a time, which no other service repeats.
OwnRequests ==
  /\ KeysTellSenders
  /\ \A w, x \in Workers : SenderOf[w] = SenderOf[x] => w = x

\* Nobody but the service that has a job changes its status, and a finished job
\* is never out of the time window of the query.
NobodyReopens ==
  /\ NoRestarts
  /\ OwnRequests
  /\ OperatorStatuses = {}
  /\ ~ IgnoreOlder

\* What a service has depends on where its request is: with a job it has nothing
\* else, and no entry of the cache.
ServiceOK(w) ==
  /\ pc[w] # "idle" => handler[w] = "enroll"
  /\ pc[w] \notin {"cursor", "aborted"} => rows[w] = {}
  /\ pc[w] # "return" => response[w] = NULL
  /\ handler[w] # "hit" => cached[w] = NULL
  /\ job[w] # NULL => handler[w] = "idle" /\ cache[KeyOf[w]] = NULL

ServicesOK == \A w \in Workers : ServiceOK(w)

\* The service works on the event, or an answer, a row of its cursor or an entry
\* of the cache may yet give it to it.
Holds(w, e) ==
  \/ job[w] = e
  \/ response[w] # NULL /\ response[w].id = e
  \/ \E r \in rows[w] : r.target_id = e /\ r.target_sender = SenderOf[w]
  \/ cached[w] # NULL /\ cached[w].id = e
  \/ /\ cache[KeyOf[w]] # NULL
     /\ cache[KeyOf[w]].result # NULL
     /\ cache[KeyOf[w]].result.id = e

\* What a service may get is a job that is not finished.
HeldOK ==
  \A w \in Workers, e \in EventId :
    Holds(w, e) /\ events[e] # NULL =>
      events[e].depends_on # NULL /\ events[e].status # "finished"

JobsInv == EndpointTypeOK /\ TableInv /\ EndpointClaimInv /\ ServicesOK /\ HeldOK

LEMMA OwnKeys ==
  ASSUME OwnRequests
  PROVE  \A w, x \in Workers : KeyOf[w] = KeyOf[x] => w = x
BY DEF OwnRequests, KeysTellSenders

\* A step of enroll_job changes nothing of another call.
LEMMA EnrollMoves ==
  ASSUME TypeOK, NEW w \in Workers, EnrollStep(w)
  PROVE  /\ job' = job /\ pc[w] # "return"
         /\ pc'[w] # "idle"
         /\ pc'[w] \notin {"cursor", "aborted"} => rows'[w] = {}
         /\ pc'[w] # "return" => response'[w] = response[w]
         /\ \A v \in Workers : v # w =>
              pc'[v] = pc[v] /\ rows'[v] = rows[v] /\ response'[v] = response[v]
<1>1. CASE OpenCursor(w)
  BY <1>1 DEF OpenCursor, TypeOK
<1>2. CASE NoMoreRows(w) \/ RaiseAborted(w)
  BY <1>2 DEF NoMoreRows, RaiseAborted, Return, TypeOK
<1>3. CASE NextRow(w)
  <2>1. PICK row \in Oldest(rows[w]) :
          \/ RetryTarget(w, row) \/ SkipForeign(w, row) \/ ReturnOwn(w, row)
          \/ CreateTarget(w, row) \/ CreateConflict(w, row) \/ CreateOrphan(w, row)
    BY <1>3 DEF NextRow
  <2>2. pc[w] \in {"cursor", "aborted"}
    BY <1>3 DEF NextRow
  <2>3. CASE \E value : Return(w, value)
    BY <2>2, <2>3 DEF Return, TypeOK
  <2>4. CASE Continue(w, row)
    BY <2>2, <2>4 DEF Continue, TypeOK
  <2>5. CASE pc' = [pc EXCEPT ![w] = "aborted"] /\ rows' = [rows EXCEPT ![w] = @ \ {row}]
             /\ UNCHANGED <<response, job>>
    BY <2>2, <2>5 DEF TypeOK
  <2>6. CASE RetryTarget(w, row)
    BY <2>3, <2>6 DEF RetryTarget
  <2>7. CASE ReturnOwn(w, row)
    BY <2>3, <2>7 DEF ReturnOwn
  <2>8. CASE CreateTarget(w, row)
    BY <2>3, <2>8 DEF CreateTarget
  <2>9. CASE SkipForeign(w, row)
    BY <2>3, <2>4, <2>9 DEF SkipForeign
  <2>10. CASE CreateConflict(w, row)
    BY <2>3, <2>4, <2>10 DEF CreateConflict
  <2>11. CASE CreateOrphan(w, row)
    BY <2>3, <2>5, <2>11 DEF CreateOrphan
  <2>. QED  BY <2>1, <2>6, <2>7, <2>8, <2>9, <2>10, <2>11
<1>. QED  BY <1>1, <1>2, <1>3 DEF EnrollStep

\* A step of one handler changes nothing of another.
LEMMA HandlerMoves ==
  ASSUME EndpointTypeOK, OwnRequests, NEW w \in Workers, HandlerStep(w),
         NEW v \in Workers, v # w
  PROVE  /\ pc'[v] = pc[v] /\ rows'[v] = rows[v] /\ response'[v] = response[v]
         /\ job'[v] = job[v] /\ handler'[v] = handler[v] /\ cached'[v] = cached[v]
         /\ cache'[KeyOf[v]] = cache[KeyOf[v]]
<1>. USE KeyAssumption DEF KeyAssumption
<1>1. KeyOf[v] # KeyOf[w] /\ KeyOf[v] \in Keys /\ KeyOf[w] \in Keys
  BY OwnKeys
<1>2. TypeOK /\ CacheTypeOK
  BY DEF EndpointTypeOK, CacheTypeOK
<1>3. CASE Miss(w) \/ Hit(w) \/ LoseCached(w) \/ StartProcessing(w)
  BY <1>1, <1>2, <1>3 DEF Miss, Hit, LoseCached, StartProcessing, Clear, vars, CacheTypeOK
<1>4. CASE ReturnCached(w) \/ LoseConnection(w)
  BY <1>1, <1>2, <1>4 DEF ReturnCached, LoseConnection, Clear, call, CacheTypeOK, TypeOK
<1>5. CASE Run(w)
  BY <1>2, <1>5, EnrollMoves DEF Run, endpoint
<1>6. CASE Respond(w) \/ RespondError(w)
  BY <1>1, <1>2, <1>6 DEF Respond, RespondError, Deliver, DeliverError, Clear,
                          CacheTypeOK, TypeOK
<1>7. CASE CacheResult(w) \/ LoseAnswer(w)
  BY <1>1, <1>2, <1>7 DEF CacheResult, LoseAnswer, LoseReply, Clear, CacheTypeOK, TypeOK
<1>. QED  BY <1>3, <1>4, <1>5, <1>6, <1>7, HandlerStep(w) DEF HandlerStep

LEMMA ServicesStep ==
  ASSUME EndpointTypeOK, ServicesOK, OwnRequests, [EndpointNext]_allVars
  PROVE  ServicesOK'
<1>. USE KeyAssumption DEF KeyAssumption
<1>1. TypeOK /\ CacheTypeOK
  BY DEF EndpointTypeOK, CacheTypeOK
<1>2. ASSUME NEW v \in Workers,
             pc'[v] = pc[v], rows'[v] = rows[v], response'[v] = response[v],
             job'[v] \in {job[v], NULL}, handler'[v] = handler[v], cached'[v] = cached[v],
             cache'[KeyOf[v]] \in {cache[KeyOf[v]], NULL}
      PROVE  ServiceOK(v)'
  BY <1>2 DEF ServicesOK, ServiceOK
<1>3. CASE UNCHANGED allVars
  BY <1>2, <1>3 DEF allVars, ServicesOK
<1>4. ASSUME NEW w \in Workers, HandlerStep(w) PROVE ServicesOK'
  <2>1. ServiceOK(w) /\ KeyOf[w] \in Keys
    BY DEF ServicesOK
  <2>2. ASSUME Miss(w) \/ Hit(w) \/ LoseCached(w) \/ StartProcessing(w) PROVE ServiceOK(w)'
    <3>1. job[w] = NULL /\ pc[w] = "idle"
      BY <2>1, <2>2 DEF Miss, Hit, LoseCached, StartProcessing, ServiceOK
    <3>. QED  BY <1>1, <2>1, <2>2, <3>1
              DEF Miss, Hit, LoseCached, StartProcessing, Clear, vars, CacheTypeOK, ServiceOK
  <2>3. ASSUME ReturnCached(w) \/ LoseConnection(w) PROVE ServiceOK(w)'
    BY <1>1, <2>1, <2>3
       DEF ReturnCached, LoseConnection, Clear, call, CacheTypeOK, TypeOK, ServiceOK
  <2>4. ASSUME Run(w) PROVE ServiceOK(w)'
    BY <1>1, <2>1, <2>4, EnrollMoves DEF Run, endpoint, ServiceOK
  <2>5. ASSUME Respond(w) \/ RespondError(w) PROVE ServiceOK(w)'
    BY <1>1, <2>1, <2>5 DEF Respond, RespondError, Deliver, DeliverError, Clear,
                            CacheTypeOK, TypeOK, ServiceOK
  <2>6. ASSUME CacheResult(w) \/ LoseAnswer(w) PROVE ServiceOK(w)'
    BY <1>1, <2>1, <2>6 DEF CacheResult, LoseAnswer, LoseReply, Clear, CacheTypeOK,
                            TypeOK, ServiceOK
  <2>7. ServiceOK(w)'
    BY <1>4, <2>2, <2>3, <2>4, <2>5, <2>6 DEF HandlerStep
  <2>8. ASSUME NEW v \in Workers, v # w PROVE ServiceOK(v)'
    BY <1>2, <1>4, <2>8, HandlerMoves
  <2>. QED  BY <2>7, <2>8 DEF ServicesOK
<1>5. CASE ServerCrash
  BY <1>1, <1>5 DEF ServerCrash, ServicesOK, ServiceOK
<1>6. ASSUME NEW key \in Keys, Expire(key) PROVE ServicesOK'
  BY <1>1, <1>2, <1>6 DEF Expire, Clear, vars, CacheTypeOK, ServicesOK
<1>7. CASE Outside
  <2>1. UNCHANGED <<pc, rows, response, cache, handler, cached>>
        /\ \A v \in Workers : job'[v] \in {job[v], NULL}
    BY <1>1, <1>7 DEF Outside, endpoint, OtherStep, PostEvent, FinishSource, Age, Touch,
       OperatorPatch, DeleteEvents, Crash, Report, call, TypeOK
  <2>. QED  BY <1>2, <2>1 DEF ServicesOK
<1>. QED  BY <1>3, <1>4, <1>5, <1>6, <1>7 DEF EndpointNext

\* Who holds an event has a claim on it.
LEMMA HoldsClaims ==
  ASSUME NEW w \in Workers, NEW e \in EventId, Holds(w, e)
  PROVE  /\ SenderOf[w] \in ServiceSenders
         /\ Claim(SenderOf[w], e) \/ CacheClaim(SenderOf[w], e)
BY DEF Holds, ServiceSenders, Claim, JobClaim, AnswerClaim, CursorClaim, CacheClaim,
       EntryClaim, CachedClaim

\* An event that may be given away after a step.
Fresh(e) ==
  events'[e] # NULL => events'[e].depends_on # NULL /\ events'[e].status # "finished"

\* Where what a service holds after a step of enroll_job comes from.
LEMMA EnrollHolds ==
  ASSUME TypeOK, ClaimInv, ~ IgnoreOlder, NEW w \in Workers, EnrollStep(w),
         NEW e \in EventId
  PROVE  /\ \A r \in rows'[w] : r.target_id = e => r \in rows[w] \/ Fresh(e)
         /\ response'[w] # NULL /\ response'[w].id = e =>
              \/ response'[w] = response[w]
              \/ \E r \in rows[w] : r.target_id = e /\ r.target_sender = SenderOf[w]
              \/ Fresh(e)
<1>1. CASE OpenCursor(w)
  <2>1. rows'[w] \subseteq Query(TopicOf[w]) /\ UNCHANGED <<events, response>>
    BY <1>1, OpenedRows DEF OpenCursor
  <2>2. ASSUME NEW r \in Query(TopicOf[w]), r.target_id = e PROVE Fresh(e)
    <3>1. CASE \E s \in SourceEvents(TopicOf[w]) :
                 \E t \in TargetsOf(TopicOf[w], s) : r = Joined(s, t)
      <4>1. PICK s \in SourceEvents(TopicOf[w]) : e \in TargetsOf(TopicOf[w], s)
        BY <2>2, <3>1 DEF Joined
      <4>2. /\ e \in Live /\ events[e].topic = TopicOf[w] /\ events[e].depends_on = s
            /\ s \notin Excluded(TopicOf[w]) /\ s # NULL
        BY <4>1, NullAssumption DEF TargetsOf, SourceEvents, Live
      <4>3. events[e].status # "finished"
        BY <4>2 DEF Excluded, InWindow
      <4>. QED  BY <2>1, <4>2, <4>3 DEF Fresh
    <3>2. CASE \E s \in SourceEvents(TopicOf[w]) : r = Unjoined(s)
      BY <2>2, <3>2, NullAssumption DEF Unjoined
    <3>. QED  BY <3>1, <3>2, QueryRow
  <2>. QED  BY <2>1, <2>2
<1>2. CASE NoMoreRows(w) \/ RaiseAborted(w)
  BY <1>2 DEF NoMoreRows, RaiseAborted, Return, TypeOK
<1>3. CASE NextRow(w)
  <2>1. PICK row \in Oldest(rows[w]) :
          \/ RetryTarget(w, row) \/ SkipForeign(w, row) \/ ReturnOwn(w, row)
          \/ CreateTarget(w, row) \/ CreateConflict(w, row) \/ CreateOrphan(w, row)
    BY <1>3 DEF NextRow
  <2>2. row \in rows[w] /\ row \in Candidate /\ ~ Retryable(row)
    BY <2>1 DEF Oldest, TypeOK, ClaimInv
  <2>3. rows'[w] \subseteq rows[w]
    BY <1>3, NextRowShrinks DEF RowsShrink
  <2>4. CASE ReturnOwn(w, row)
    BY <2>2, <2>3, <2>4 DEF ReturnOwn, Return, TypeOK
  <2>5. CASE CreateTarget(w, row)
    <3>1. response'[w].id = next_id
      BY <2>5 DEF CreateTarget, Return, TypeOK
    <3>2. next_id \in EventId /\ events'[next_id].depends_on = row.source_id
          /\ events'[next_id].status = "pending"
      BY <2>5 DEF CreateTarget, Insert, TypeOK
    <3>. QED  BY <2>2, <2>3, <3>1, <3>2, NullAssumption DEF Fresh, Candidate
  <2>6. CASE SkipForeign(w, row) \/ CreateConflict(w, row) \/ CreateOrphan(w, row)
    BY <2>3, <2>6
       DEF SkipForeign, CreateConflict, CreateOrphan, Return, Continue, TypeOK
  <2>. QED  BY <2>1, <2>2, <2>4, <2>5, <2>6 DEF RetryTarget
<1>. QED  BY <1>1, <1>2, <1>3 DEF EnrollStep

\* A service holds what it has held, or what the query has found or made.
LEMMA HoldsStep ==
  ASSUME EndpointTypeOK, ClaimInv, ~ IgnoreOlder, OwnRequests, [EndpointNext]_allVars,
         NEW w \in Workers, NEW e \in EventId, Holds(w, e)'
  PROVE  Holds(w, e) \/ Fresh(e)
<1>. USE KeyAssumption DEF KeyAssumption
<1>1. TypeOK /\ CacheTypeOK /\ KeyOf[w] \in Keys
  BY DEF EndpointTypeOK, CacheTypeOK
<1>2. ASSUME \/ job'[w] = job[w] \/ job'[w] = NULL
             \/ response[w] # NULL /\ job'[w] = response[w].id
             \/ cached[w] # NULL /\ job'[w] = cached[w].id,
             response'[w] \in {response[w], NULL},
             rows'[w] \subseteq rows[w],
             \/ cached'[w] = cached[w] \/ cached'[w] = NULL
             \/ cache[KeyOf[w]] # NULL /\ cached'[w] = cache[KeyOf[w]].result,
             \/ cache'[KeyOf[w]] = cache[KeyOf[w]] \/ cache'[KeyOf[w]] = NULL
             \/ cache'[KeyOf[w]].result \in {NULL, response[w]}
      PROVE  Holds(w, e)
  BY <1>2, Holds(w, e)', NullAssumption DEF Holds
<1>3. CASE UNCHANGED allVars
  BY <1>2, <1>3 DEF allVars
<1>4. ASSUME HandlerStep(w) PROVE Holds(w, e) \/ Fresh(e)
  <2>1. CASE Run(w)
    <3>1. UNCHANGED endpoint /\ job' = job
      BY <1>1, <2>1, EnrollMoves DEF Run
    <3>2. CASE \E r \in rows'[w] : r.target_id = e /\ r.target_sender = SenderOf[w]
      BY <1>1, <2>1, <3>2, EnrollHolds DEF Run, Holds
    <3>3. CASE response'[w] # NULL /\ response'[w].id = e
      BY <1>1, <2>1, <3>3, EnrollHolds DEF Run, Holds
    <3>. QED  BY <3>1, <3>2, <3>3, Holds(w, e)' DEF Holds, endpoint
  <2>2. CASE Miss(w) \/ Hit(w) \/ LoseCached(w) \/ StartProcessing(w)
    BY <1>1, <1>2, <2>2
       DEF Miss, Hit, LoseCached, StartProcessing, Clear, vars, CacheTypeOK
  <2>3. CASE ReturnCached(w) \/ LoseConnection(w)
    BY <1>1, <1>2, <2>3 DEF ReturnCached, LoseConnection, Clear, call, CacheTypeOK, TypeOK
  <2>4. CASE Respond(w) \/ RespondError(w)
    BY <1>1, <1>2, <2>4 DEF Respond, RespondError, Deliver, DeliverError, Clear,
                            CacheTypeOK, TypeOK
  <2>5. CASE CacheResult(w) \/ LoseAnswer(w)
    BY <1>1, <1>2, <2>5 DEF CacheResult, LoseAnswer, LoseReply, Clear, CacheTypeOK, TypeOK
  <2>. QED  BY <1>4, <2>1, <2>2, <2>3, <2>4, <2>5 DEF HandlerStep
<1>5. ASSUME NEW v \in Workers, v # w, HandlerStep(v) PROVE Holds(w, e)
  BY <1>2, <1>5, HandlerMoves
<1>6. CASE ServerCrash
  BY <1>1, <1>2, <1>6 DEF ServerCrash
<1>7. ASSUME NEW key \in Keys, Expire(key) PROVE Holds(w, e)
  BY <1>1, <1>2, <1>7 DEF Expire, Clear, vars, CacheTypeOK
<1>8. CASE Outside
  <2>1. UNCHANGED <<rows, response, cache, cached>> /\ job'[w] \in {job[w], NULL}
    BY <1>1, <1>8 DEF Outside, endpoint, OtherStep, PostEvent, FinishSource, Age, Touch,
       OperatorPatch, DeleteEvents, Crash, Report, call, TypeOK
  <2>. QED  BY <1>2, <2>1
<1>. QED  BY <1>3, <1>4, <1>5, <1>6, <1>7, <1>8 DEF EndpointNext

\* What a step changes of a row that is there before it and after.
LEMMA RowStep ==
  ASSUME EndpointTypeOK, TableInv, ClaimInv, NobodyReopens, [EndpointNext]_allVars,
         NEW e \in EventId, events[e] # NULL, events'[e] # NULL
  PROVE  /\ events'[e].topic = events[e].topic
         /\ events'[e].depends_on = events[e].depends_on
         /\ events'[e].created_at = events[e].created_at
         /\ \/ events'[e].status = events[e].status
            \/ FinishSource(e) /\ events'[e].status = "finished"
            \/ \E w \in Workers, status \in WorkerStatuses, retries \in PatchRetries :
                 Report(w, status, retries) /\ UNCHANGED endpoint /\ job[w] = e
<1>1. TypeOK
  BY DEF EndpointTypeOK
<1>2. CASE UNCHANGED events
  BY <1>2
<1>3. ASSUME NEW w \in Workers, EnrollStep(w)
      PROVE  events'[e] = events[e]
  <2>1. CASE NextRow(w)
    <3>1. PICK row \in Oldest(rows[w]) :
            \/ RetryTarget(w, row) \/ SkipForeign(w, row) \/ ReturnOwn(w, row)
            \/ CreateTarget(w, row) \/ CreateConflict(w, row) \/ CreateOrphan(w, row)
      BY <2>1 DEF NextRow
    <3>2. ~ Retryable(row)
      BY <3>1 DEF Oldest, ClaimInv
    <3>3. CASE CreateTarget(w, row)
      <4>1. events' = [events EXCEPT ![next_id] = events'[next_id]] /\ next_id \in EventId
        BY <1>1, <3>3 DEF CreateTarget, Insert, TypeOK
      <4>2. e # next_id
        BY <4>1, ConstantsAssumption DEF TableInv, Live, EventId
      <4>. QED  BY <1>1, <4>1, <4>2 DEF TypeOK
    <3>. QED  BY <3>1, <3>2, <3>3
              DEF RetryTarget, SkipForeign, ReturnOwn, CreateConflict, CreateOrphan, table
  <2>. QED  BY <1>3, <2>1 DEF EnrollStep, OpenCursor, NoMoreRows, RaiseAborted, table
<1>4. ASSUME NEW w \in Workers, NEW status \in WorkerStatuses, NEW retries \in PatchRetries,
             Report(w, status, retries),
             UNCHANGED endpoint
      PROVE  /\ events'[e].topic = events[e].topic
             /\ events'[e].depends_on = events[e].depends_on
             /\ events'[e].created_at = events[e].created_at
             /\ events'[e].status = events[e].status \/ job[w] = e
  <2>1. /\ job[w] \in EventId /\ SenderOf[w] \in Senders /\ status \in EventStatus
        /\ Update(job[w], status, SenderOf[w], retries) /\ retries \in Int \cup {NULL}
    BY <1>1, <1>4, ConstantsAssumption DEF Report, TypeOK
  <2>2. CASE job[w] = e
    BY <1>1, <2>1, <2>2, UpdateRow
  <2>3. CASE job[w] # e
    BY <1>1, <2>1, <2>3 DEF Update, TypeOK
  <2>. QED  BY <2>2, <2>3
<1>5. ASSUME NEW f \in EventId, FinishSource(f) \/ Touch(f)
      PROVE  /\ events'[e].topic = events[e].topic
             /\ events'[e].depends_on = events[e].depends_on
             /\ events'[e].created_at = events[e].created_at
             /\ \/ events'[e].status = events[e].status
                \/ FinishSource(e) /\ events'[e].status = "finished"
  <2>1. CASE f # e
    BY <1>1, <1>5, <2>1 DEF FinishSource, Touch, Update, TypeOK
  <2>2. CASE f = e
    <3>1. PICK status \in {"finished", NULL} :
            /\ Update(e, status, NULL, NULL)
            /\ status = "finished" => FinishSource(e)
      BY <1>5, <2>2, NullAssumption DEF FinishSource, Touch, EventStatus
    <3>2. /\ events'[e].topic = events[e].topic
          /\ events'[e].depends_on = events[e].depends_on
          /\ events'[e].created_at = events[e].created_at
          /\ events'[e].status = Coalesce(status, events[e].status)
      BY <1>1, <3>1, UpdateRow DEF EventStatus
    <3>. QED  BY <3>1, <3>2 DEF Coalesce
  <2>. QED  BY <2>1, <2>2
<1>6. ASSUME OtherStep
      PROVE  /\ events'[e].topic = events[e].topic
             /\ events'[e].depends_on = events[e].depends_on
             /\ events'[e].created_at = events[e].created_at
             /\ \/ events'[e].status = events[e].status
                \/ FinishSource(e) /\ events'[e].status = "finished"
  <2>1. ASSUME NEW status \in PostStatuses, NEW created_at \in CreatedAt,
             PostEvent(status, created_at)
        PROVE  events'[e] = events[e]
    <3>1. events' = [events EXCEPT ![next_id] = events'[next_id]] /\ next_id \in EventId
      BY <1>1, <2>1 DEF PostEvent, Insert, TypeOK
    <3>2. e # next_id
      BY <3>1, ConstantsAssumption DEF TableInv, Live, EventId
    <3>. QED  BY <1>1, <3>1, <3>2 DEF TypeOK
  <2>2. ASSUME NEW set \in SUBSET EventId, DeleteEvents(set)
        PROVE  events'[e] = events[e]
    BY <2>2 DEF DeleteEvents
  <2>3. /\ \A f \in EventId : ~ Age(f)
        /\ \A f \in EventId, status \in OperatorStatuses, retries \in PatchRetries :
             ~ OperatorPatch(f, status, retries)
    BY DEF NobodyReopens, Age
  <2>. QED  BY <1>5, <1>6, <2>1, <2>2, <2>3 DEF OtherStep
<1>7. \/ UNCHANGED events
      \/ \E w \in Workers : EnrollStep(w)
      \/ \E w \in Workers, status \in WorkerStatuses, retries \in PatchRetries :
           Report(w, status, retries) /\ UNCHANGED endpoint
      \/ OtherStep
  <2>1. ASSUME NEW w \in Workers, HandlerStep(w), ~ EnrollStep(w)
        PROVE  UNCHANGED events
    BY <2>1 DEF HandlerStep, Miss, Hit, ReturnCached, LoseCached, StartProcessing, Run,
       LoseConnection, Respond, RespondError, CacheResult, LoseAnswer, Deliver,
       DeliverError, LoseReply, vars, table
  <2>. QED  BY <2>1 DEF EndpointNext, allVars, ServerCrash, Expire, Outside, Crash,
                        vars, table
<1>. QED  BY <1>2, <1>3, <1>4, <1>6, <1>7

\* Steps of the endpoint keep the table in order, and give new rows new ids.
LEMMA EndpointTable ==
  ASSUME EndpointTypeOK, TableInv, EndpointTypeOK', [EndpointNext]_allVars
  PROVE  /\ TableInv'
         /\ \A e \in EventId : events[e] = NULL /\ events'[e] # NULL => e = next_id
<1>1. TypeOK /\ TypeOK'
  BY DEF EndpointTypeOK
<1>2. CASE [Next]_vars
  <2>1. TableInv'
    BY <1>1, <1>2, TableInvStep
  <2>2. CASE KeepRows \/ DeleteRows
    BY <2>1, <2>2 DEF KeepRows, DeleteRows
  <2>3. CASE InsertJob \/ InsertPosted
    BY <1>1, <2>1, <2>3 DEF InsertJob, InsertPosted, Insert, TypeOK
  <2>. QED  BY <1>1, <1>2, <2>1, <2>2, <2>3, TableStep
<1>3. CASE Beyond
  <2>1. UNCHANGED <<events, next_id>>
    BY <1>3 DEF Beyond, ReturnCached, LoseConnection, ServerCrash, table
  <2>. QED  BY <2>1 DEF TableInv, Live
<1>. QED  BY <1>2, <1>3, EndpointSteps

\* Two services never hold one event.
LEMMA OneHolder ==
  ASSUME EndpointClaimInv, OwnRequests, NEW e \in EventId,
         NEW v \in Workers, NEW w \in Workers, Holds(v, e), Holds(w, e)
  PROVE  v = w /\ e < next_id
<1>1. /\ SenderOf[v] \in ServiceSenders
      /\ Claim(SenderOf[v], e) \/ CacheClaim(SenderOf[v], e)
      /\ SenderOf[w] \in ServiceSenders
      /\ Claim(SenderOf[w], e) \/ CacheClaim(SenderOf[w], e)
  BY HoldsClaims
<1>2. SenderOf[v] = SenderOf[w] /\ e < next_id
  BY <1>1 DEF EndpointClaimInv, ClaimInv
<1>. QED  BY <1>2 DEF OwnRequests

LEMMA HeldStep ==
  ASSUME JobsInv, EndpointTypeOK', NobodyReopens, [EndpointNext]_allVars
  PROVE  HeldOK'
<1>. SUFFICES ASSUME NEW w \in Workers, NEW e \in EventId, Holds(w, e)', events'[e] # NULL
              PROVE  events'[e].depends_on # NULL /\ events'[e].status # "finished"
  BY DEF HeldOK
<1>1. /\ EndpointTypeOK /\ TableInv /\ EndpointClaimInv /\ ClaimInv /\ ServicesOK /\ HeldOK
      /\ TypeOK /\ OwnRequests /\ ~ IgnoreOlder
  BY DEF JobsInv, EndpointTypeOK, EndpointClaimInv, NobodyReopens
<1>2. CASE Fresh(e)
  BY <1>2 DEF Fresh
<1>3. CASE Holds(w, e)
  <2>1. e < next_id /\ next_id \in Int /\ e \in Int
    BY <1>1, <1>3, OneHolder, ConstantsAssumption DEF TypeOK, EventId
  <2>2. events[e] # NULL
    BY <1>1, <2>1, EndpointTable
  <2>3. events[e].depends_on # NULL /\ events[e].status # "finished"
    BY <1>1, <1>3, <2>2 DEF HeldOK
  <2>4. /\ events'[e].depends_on = events[e].depends_on
        /\ \/ events'[e].status = events[e].status
           \/ FinishSource(e) /\ events'[e].status = "finished"
           \/ \E v \in Workers, status \in WorkerStatuses, retries \in PatchRetries :
                Report(v, status, retries) /\ UNCHANGED endpoint /\ job[v] = e
    BY <1>1, <2>2, RowStep
  <2>5. ~ FinishSource(e)
    BY <1>1, <2>2, <2>3, ConstantsAssumption DEF TableInv, Live, FinishSource
  <2>6. ASSUME NEW v \in Workers, NEW status \in WorkerStatuses, NEW retries \in PatchRetries,
               Report(v, status, retries),
               UNCHANGED endpoint, job[v] = e
        PROVE  events'[e].status # "finished"
    <3>1. v = w
      <4>1. Holds(v, e)
        BY <2>6 DEF Holds
      <4>. QED  BY <1>1, <1>3, <4>1, OneHolder
    <3>2. job[w] = e /\ job[w] # NULL
      BY <2>6, <3>1, NullAssumption
    <3>3. CASE status = "in_progress"
      <4>1. /\ Update(e, status, SenderOf[v], retries) /\ SenderOf[v] \in Senders
            /\ status \in EventStatus /\ status # NULL /\ retries \in Int \cup {NULL}
        BY <2>6, <3>3, ConstantsAssumption, NullAssumption DEF Report, EventStatus
      <4>2. events'[e].status = Coalesce(status, events[e].status)
        BY <1>1, <2>2, <4>1, UpdateRow
      <4>. QED  BY <3>3, <4>1, <4>2 DEF Coalesce
    <3>4. CASE status # "in_progress"
      <4>1. job'[w] = NULL /\ UNCHANGED <<pc, rows, response, cache, cached>>
        BY <1>1, <2>6, <3>1, <3>4 DEF Report, call, endpoint, TypeOK
      <4>2. /\ rows[w] = {} /\ response[w] = NULL /\ cached[w] = NULL
            /\ cache[KeyOf[w]] = NULL
        BY <1>1, <3>2 DEF ServicesOK, ServiceOK
      <4>. QED  BY <4>1, <4>2, NullAssumption DEF Holds
    <3>. QED  BY <3>3, <3>4
  <2>. QED  BY <2>3, <2>4, <2>5, <2>6
<1>. QED  BY <1>1, <1>2, <1>3, HoldsStep

LEMMA JobsStep ==
  ASSUME NobodyReopens, JobsInv, [EndpointNext]_allVars
  PROVE  JobsInv'
<1>1. /\ EndpointTypeOK /\ TableInv /\ EndpointClaimInv /\ ServicesOK
      /\ NoRestarts /\ OwnRequests /\ KeysTellSenders
  BY DEF JobsInv, NobodyReopens, OwnRequests
<1>2. EndpointTypeOK'
  BY <1>1, EndpointTypeStep
<1>. QED  BY <1>1, <1>2, EndpointTable, EndpointClaimStep, ServicesStep, HeldStep
          DEF JobsInv

LEMMA JobsInit == EndpointInit => JobsInv
<1>. SUFFICES ASSUME EndpointInit PROVE JobsInv
  OBVIOUS
<1>. USE KeyAssumption, ConstantsAssumption, NullAssumption
         DEF KeyAssumption, ConstantsAssumption, EndpointInit, Init
<1>1. EndpointTypeOK
  BY DEF EndpointTypeOK, TypeOK
<1>2. TableInv
  BY DEF TableInv, Live
<1>3. EndpointClaimInv
  BY DEF EndpointClaimInv, ClaimInv, Claim, RowClaim, JobClaim, AnswerClaim, CursorClaim,
         CacheClaim, EntryClaim, CachedClaim
<1>4. ServicesOK /\ HeldOK
  BY DEF ServicesOK, ServiceOK, HeldOK
<1>. QED  BY <1>1, <1>2, <1>3, <1>4 DEF JobsInv

LEMMA FinishedStep ==
  ASSUME NobodyReopens, JobsInv, [EndpointNext]_allVars, NEW e \in EventId,
         Target(e), events[e].status = "finished"
  PROVE  events'[e] = NULL \/ events'[e].status = "finished"
<1>1. events[e] # NULL /\ EndpointTypeOK /\ TableInv /\ ClaimInv /\ HeldOK
  BY DEF Target, Live, JobsInv, EndpointClaimInv
<1>2. ~ FinishSource(e)
  BY DEF FinishSource
<1>3. ASSUME NEW w \in Workers, job[w] = e PROVE FALSE
  BY <1>1, <1>3 DEF HeldOK, Holds
<1>. QED  BY <1>1, <1>2, <1>3, RowStep

\* A finished job is never opened again (EventStream.update, enroll_job), as long
\* as no job fails or is restarted and a service has one request at a time: also
\* when answers are late, kept in Redis, or repeated.
THEOREM FinishedStays ==
  ASSUME NobodyReopens
  PROVE  EndpointSpec => FinishedStaysFinished
<1>1. ASSUME JobsInv, [EndpointNext]_allVars
      PROVE  [\A e \in EventId :
                Target(e) /\ events[e].status = "finished" =>
                  events'[e] = NULL \/ events'[e].status = "finished"]_vars
  BY <1>1, FinishedStep
<1>2. JobsInv /\ [EndpointNext]_allVars => JobsInv'
  BY JobsStep
<1>. QED  BY <1>1, <1>2, JobsInit, PTL DEF EndpointSpec, FinishedStaysFinished

-----------------------------------------------------------------------------
(* One job at a time, in the order of the sources *)

\* Besides, sources are posted finished, and nothing is deleted.
Orderly ==
  /\ NobodyReopens
  /\ PostStatuses \subseteq {"finished"}
  /\ ~ MayDelete

Sources == {s \in Live : events[s].topic = SourceTopic}

Done(topic, s) == \E t \in TargetsOf(topic, s) : events[t].status = "finished"

\* A job has been begun only when those of all sources that came before its own
\* are done, and a cursor shows every source before one of its own that is not.
TargetOrder(t) ==
  /\ events[t].depends_on \in Sources
  /\ \A s \in Sources :
       CameBefore(s, events[t].depends_on) => Done(events[t].topic, s)

CursorOrder(w) ==
  \A r \in rows[w] :
    /\ r.source_id \in Sources
    /\ r.created_at = events[r.source_id].created_at
    /\ \A s \in Sources : CameBefore(s, r.source_id) =>
         (\E q \in rows[w] : q.source_id = s) \/ Done(TopicOf[w], s)

OrderOK ==
  /\ \A s \in Sources : events[s].status = "finished" /\ events[s].created_at \in Int
  /\ \A t \in EventId : Target(t) => TargetOrder(t)
  /\ \A w \in Workers : CursorOrder(w)

\* Where the rows of a cursor come from when a request gives up at the first one
\* that is not its own.
LEMMA RowsOfCursor ==
  ASSUME Sequential, EndpointTypeOK, OwnRequests, [EndpointNext]_allVars, NEW w \in Workers
  PROVE  \/ rows'[w] = rows[w] \/ rows'[w] = {}
         \/ rows'[w] \in Limited(Query(TopicOf[w])) /\ UNCHANGED events
<1>1. TypeOK
  BY DEF EndpointTypeOK
<1>2. ASSUME EnrollStep(w)
      PROVE  \/ rows'[w] = rows[w] \/ rows'[w] = {}
             \/ rows'[w] \in Limited(Query(TopicOf[w])) /\ UNCHANGED events
  BY <1>1, <1>2, OpenedRows DEF EnrollStep, OpenCursor, NextRow, NoMoreRows, RaiseAborted, RetryTarget,
     SkipForeign, ReturnOwn, CreateTarget, CreateConflict, CreateOrphan, Return, TypeOK
<1>3. ASSUME HandlerStep(w), ~ EnrollStep(w)
      PROVE  rows'[w] = rows[w] \/ rows'[w] = {}
  BY <1>1, <1>3 DEF HandlerStep, Miss, Hit, ReturnCached, LoseCached, StartProcessing, Run,
     LoseConnection, Respond, RespondError, CacheResult, LoseAnswer, Deliver,
     DeliverError, LoseReply, vars, call, TypeOK
<1>4. ASSUME NEW v \in Workers, v # w, HandlerStep(v)
      PROVE  rows'[w] = rows[w]
  BY <1>4, HandlerMoves
<1>5. CASE ServerCrash
  BY <1>5 DEF ServerCrash
<1>6. CASE UNCHANGED rows
  BY <1>6
<1>7. ASSUME Outside PROVE UNCHANGED rows
  BY <1>7 DEF Outside, OtherStep, PostEvent, FinishSource, Age, Touch, OperatorPatch,
              DeleteEvents, Crash, Report, call
<1>. QED  BY <1>2, <1>3, <1>4, <1>5, <1>6, <1>7 DEF EndpointNext, allVars, Expire, vars

\* A row that a step adds is a posted event, or the job of a cursor's oldest source.
LEMMA AddedRow ==
  ASSUME EndpointTypeOK, TableInv, EndpointTypeOK', [EndpointNext]_allVars,
         NEW e \in EventId, events[e] = NULL, events'[e] # NULL
  PROVE  \/ /\ events'[e].topic = SourceTopic /\ events'[e].depends_on = NULL
            /\ events'[e].status \in PostStatuses /\ events'[e].created_at \in CreatedAt
         \/ \E w \in Workers : \E row \in Oldest(rows[w]) :
              events'[e].topic = TopicOf[w] /\ events'[e].depends_on = row.source_id
<1>1. TypeOK /\ e = next_id
  BY EndpointTable DEF EndpointTypeOK
<1>2. ASSUME NEW w \in Workers, EnrollStep(w)
      PROVE  \E row \in Oldest(rows[w]) :
               events'[e].topic = TopicOf[w] /\ events'[e].depends_on = row.source_id
  <2>1. NextRow(w)
    BY <1>2 DEF EnrollStep, OpenCursor, NoMoreRows, RaiseAborted, table
  <2>2. PICK row \in Oldest(rows[w]) :
          \/ RetryTarget(w, row) \/ SkipForeign(w, row) \/ ReturnOwn(w, row)
          \/ CreateTarget(w, row) \/ CreateConflict(w, row) \/ CreateOrphan(w, row)
    BY <2>1 DEF NextRow
  <2>3. CASE CreateTarget(w, row)
    BY <1>1, <2>3 DEF CreateTarget, Insert, TypeOK
  <2>4. CASE RetryTarget(w, row)
    <3>1. events'[e] = events[e]
      BY <1>1, <2>4 DEF RetryTarget, Update, TypeOK
    <3>. QED  BY <3>1
  <2>. QED  BY <2>2, <2>3, <2>4 DEF SkipForeign, ReturnOwn, CreateConflict, CreateOrphan, table
<1>3. ASSUME NEW status \in PostStatuses, NEW created_at \in CreatedAt,
             PostEvent(status, created_at)
      PROVE  /\ events'[e].topic = SourceTopic /\ events'[e].depends_on = NULL
             /\ events'[e].status \in PostStatuses /\ events'[e].created_at \in CreatedAt
  BY <1>1, <1>3 DEF PostEvent, Insert, TypeOK
<1>4. ASSUME NEW id \in EventId, NEW status, NEW sender, NEW retries,
             Update(id, status, sender, retries)
      PROVE  FALSE
  BY <1>1, <1>4 DEF Update, TypeOK
<1>5. ASSUME OtherStep,
             ~ \E status \in PostStatuses, created_at \in CreatedAt :
                 PostEvent(status, created_at)
      PROVE  FALSE
  <2>1. ASSUME NEW f \in EventId, FinishSource(f) \/ Touch(f) PROVE FALSE
    BY <1>4, <2>1 DEF FinishSource, Touch
  <2>2. ASSUME NEW f \in EventId, Age(f) PROVE FALSE
    BY <1>1, <2>2 DEF Age, Live, TypeOK
  <2>3. ASSUME NEW f \in EventId, NEW status \in OperatorStatuses,
               NEW retries \in PatchRetries, OperatorPatch(f, status, retries)
        PROVE  FALSE
    BY <1>4, <2>3 DEF OperatorPatch
  <2>4. ASSUME NEW set \in SUBSET EventId, DeleteEvents(set) PROVE FALSE
    BY <2>4 DEF DeleteEvents
  <2>. QED  BY <1>5, <2>1, <2>2, <2>3, <2>4 DEF OtherStep
<1>6. ASSUME NEW w \in Workers, NEW status \in WorkerStatuses, NEW retries \in PatchRetries,
             Report(w, status, retries)
      PROVE  FALSE
  <2>1. job[w] \in EventId
    BY <1>1, <1>6 DEF Report, TypeOK
  <2>. QED  BY <1>4, <1>6, <2>1 DEF Report
<1>7. \/ \E w \in Workers : EnrollStep(w)
      \/ \E w \in Workers, status \in WorkerStatuses, retries \in PatchRetries :
           Report(w, status, retries)
      \/ OtherStep
  <2>1. ASSUME NEW w \in Workers, HandlerStep(w), ~ EnrollStep(w)
        PROVE  UNCHANGED events
    BY <2>1 DEF HandlerStep, Miss, Hit, ReturnCached, LoseCached, StartProcessing, Run,
       LoseConnection, Respond, RespondError, CacheResult, LoseAnswer, Deliver,
       DeliverError, LoseReply, vars, table
  <2>. QED  BY <2>1 DEF EndpointNext, allVars, ServerCrash, Expire, Outside, Crash,
                        vars, table
<1>. QED  BY <1>2, <1>3, <1>5, <1>6, <1>7

\* Without deletion rows stay.
LEMMA RowsStay ==
  ASSUME ~ MayDelete, EndpointTypeOK, TableInv, EndpointTypeOK', [EndpointNext]_allVars
  PROVE  Live \subseteq Live'
<1>1. TypeOK /\ TypeOK'
  BY DEF EndpointTypeOK
<1>3. CASE [Next]_vars
  <2>1. CASE KeepRows
    BY <2>1 DEF KeepRows, Live
  <2>2. ASSUME NEW topic, NEW hash, NEW depends_on, NEW status, NEW sender,
               NEW created_at, Insert(topic, hash, depends_on, status, sender, created_at)
        PROVE  Live \subseteq Live'
    <3>1. next_id \in EventId /\ \A e \in EventId : e # next_id => events'[e] = events[e]
      BY <1>1, <2>2 DEF Insert, TypeOK
    <3>2. next_id \notin Live
      BY <3>1, ConstantsAssumption DEF TableInv, EventId
    <3>. QED  BY <3>1, <3>2 DEF Live
  <2>3. CASE InsertJob \/ InsertPosted
    BY <2>2, <2>3 DEF InsertJob, InsertPosted
  <2>. QED  BY <1>1, <1>3, <2>1, <2>3, TableStep DEF DeleteRows
<1>4. CASE Beyond
  BY <1>4 DEF Beyond, ReturnCached, LoseConnection, ServerCrash, table, Live
<1>. QED  BY <1>3, <1>4, EndpointSteps

\* Who is done stays done.
LEMMA DoneStays ==
  ASSUME Orderly, JobsInv, EndpointTypeOK', [EndpointNext]_allVars,
         NEW topic, NEW s \in Live, Done(topic, s)
  PROVE  Done(topic, s)'
<1>1. EndpointTypeOK /\ TableInv /\ ClaimInv /\ NobodyReopens /\ ~ MayDelete
  BY DEF JobsInv, EndpointClaimInv, Orderly
<1>2. PICK t \in TargetsOf(topic, s) : events[t].status = "finished"
  BY DEF Done
<1>3. t \in Live /\ t \in Live' /\ Target(t)
  BY <1>1, <1>2, RowsStay, NullAssumption DEF TargetsOf, Target, Live
<1>4. events'[t].topic = topic /\ events'[t].depends_on = s
  BY <1>1, <1>2, <1>3, RowStep DEF TargetsOf, Live
<1>5. events'[t].status = "finished"
  BY <1>1, <1>2, <1>3, FinishedStep DEF Live
<1>. QED  BY <1>3, <1>4, <1>5 DEF Done, TargetsOf

\* The sources there are stay, those that are added are seen later, and all are
\* finished and have a created_at.
LEMMA SourcesStep ==
  ASSUME Orderly, JobsInv, OrderOK, EndpointTypeOK', [EndpointNext]_allVars
  PROVE  /\ Sources \subseteq Sources'
         /\ \A s \in Sources' : s \in Sources \/ s = next_id
         /\ \A s \in Sources : events'[s].created_at = events[s].created_at
         /\ \A s \in Sources' : events'[s].status = "finished" /\ events'[s].created_at \in Int
<1>1. /\ EndpointTypeOK /\ TableInv /\ ClaimInv /\ HeldOK /\ NobodyReopens /\ ~ MayDelete
      /\ PostStatuses \subseteq {"finished"}
  BY DEF JobsInv, EndpointClaimInv, Orderly
<1>2. \A s \in Live : /\ s \in Live' /\ events'[s].topic = events[s].topic
                      /\ events'[s].created_at = events[s].created_at
  BY <1>1, RowsStay, RowStep DEF Live
<1>3. /\ Sources \subseteq Sources'
      /\ \A s \in Sources : events'[s].created_at = events[s].created_at
  BY <1>2 DEF Sources
<1>4. \A s \in Sources' : s \in Sources \/ (s \notin Live /\ s = next_id)
  BY <1>1, <1>2, EndpointTable DEF Sources, Live
<1>5. ASSUME NEW s \in Sources
      PROVE  events'[s].status = "finished" /\ events'[s].created_at \in Int
  <2>1. s \in EventId /\ events[s] # NULL /\ events'[s] # NULL /\ events[s].status = "finished"
    BY <1>2 DEF Sources, Live, OrderOK
  <2>2. ASSUME NEW w \in Workers, job[w] = s PROVE FALSE
    BY <1>1, <2>1, <2>2, ConstantsAssumption DEF HeldOK, Holds, TableInv, Live, Sources
  <2>. QED  BY <1>1, <1>3, <2>1, <2>2, RowStep DEF OrderOK
<1>6. ASSUME NEW s \in Sources', s \notin Live
      PROVE  events'[s].status = "finished" /\ events'[s].created_at \in Int
  <2>1. s \in EventId /\ events[s] = NULL /\ events'[s] # NULL /\ events'[s].topic = SourceTopic
    BY <1>6 DEF Sources, Live
  <2>2. \A w \in Workers : TopicOf[w] # SourceTopic
    BY ConstantsAssumption
  <2>. QED  BY <1>1, <2>1, <2>2, AddedRow, ConstantsAssumption
<1>. QED  BY <1>3, <1>4, <1>5, <1>6

\* A source that is added came before none of those there are, and those keep
\* their order.
LEMMA OrderKept ==
  ASSUME Orderly, JobsInv, OrderOK, EndpointTypeOK', [EndpointNext]_allVars,
         NEW s \in Sources', NEW source \in Sources, CameBefore(s, source)'
  PROVE  s \in Sources /\ CameBefore(s, source)
<1>1. /\ next_id \in Int /\ EventId \subseteq Int /\ source \in EventId /\ source < next_id
  BY ConstantsAssumption
     DEF JobsInv, EndpointTypeOK, TypeOK, EventId, TableInv, Sources, Live
<1>2. s \in Sources
  BY <1>1, SourcesStep DEF CameBefore
<1>. QED  BY <1>2, SourcesStep DEF CameBefore

\* The targets are begun in the order of their sources.
LEMMA TargetsStep ==
  ASSUME Orderly, JobsInv, OrderOK, EndpointTypeOK', [EndpointNext]_allVars,
         NEW t \in EventId, Target(t)'
  PROVE  TargetOrder(t)'
<1>1. EndpointTypeOK /\ TableInv /\ ClaimInv /\ NobodyReopens /\ ~ MayDelete
  BY DEF JobsInv, EndpointClaimInv, Orderly
<1>2. Sources \subseteq Sources' /\ Sources \subseteq Live
  BY SourcesStep DEF Sources
<1>3. ASSUME NEW source \in Sources, NEW topic,
             events'[t].depends_on = source, events'[t].topic = topic,
             \A s \in Sources : CameBefore(s, source) => Done(topic, s)
      PROVE  TargetOrder(t)'
  <2>1. ASSUME NEW s \in Sources', CameBefore(s, source)' PROVE Done(topic, s)'
    <3>1. s \in Sources /\ CameBefore(s, source)
      BY <2>1, OrderKept
    <3>. QED  BY <1>2, <1>3, <3>1, DoneStays
  <2>. QED  BY <1>2, <1>3, <2>1 DEF TargetOrder
<1>4. CASE events[t] # NULL
  <2>1. /\ events'[t].topic = events[t].topic
        /\ events'[t].depends_on = events[t].depends_on
        /\ events'[t].depends_on # NULL
    BY <1>1, <1>4, RowStep DEF Target, Live
  <2>2. TargetOrder(t)
    BY <1>4, <2>1 DEF OrderOK, Target, Live
  <2>. QED  BY <1>3, <2>1, <2>2 DEF TargetOrder
<1>5. CASE events[t] = NULL
  <2>1. PICK w \in Workers : \E row \in Oldest(rows[w]) :
          events'[t].topic = TopicOf[w] /\ events'[t].depends_on = row.source_id
    BY <1>1, <1>5, AddedRow DEF Target, Live
  <2>2. PICK row \in Oldest(rows[w]) :
          events'[t].topic = TopicOf[w] /\ events'[t].depends_on = row.source_id
    BY <2>1
  <2>3. /\ row \in rows[w] /\ CursorOrder(w)
        /\ \A q \in rows[w] : row.created_at <= q.created_at
    BY <2>2 DEF Oldest, OrderOK
  <2>4. ASSUME NEW s \in Sources, CameBefore(s, row.source_id) PROVE Done(TopicOf[w], s)
    <3>1. ASSUME NEW q \in rows[w], q.source_id = s PROVE FALSE
      <4>1. /\ row.created_at = events[row.source_id].created_at
            /\ q.created_at = events[s].created_at
            /\ row.source_id \in Sources
        BY <2>3, <3>1 DEF CursorOrder
      <4>2. row.created_at \in Int /\ q.created_at \in Int /\ row.created_at <= q.created_at
        BY <2>3, <4>1 DEF OrderOK
      <4>. QED  BY <2>4, <4>1, <4>2 DEF CameBefore
    <3>. QED  BY <2>3, <2>4, <3>1 DEF CursorOrder
  <2>5. row.source_id \in Sources
    BY <2>3 DEF CursorOrder
  <2>. QED  BY <1>3, <2>2, <2>4, <2>5
<1>. QED  BY <1>4, <1>5

\* The rows of a cursor, up to its limit, are those of the sources that are not
\* done.
LEMMA QueryOrder ==
  ASSUME Orderly, JobsInv, OrderOK, NEW topic, NEW some \in Limited(Query(topic))
  PROVE  \A r \in some :
           /\ r.source_id \in Sources
           /\ r.created_at = events[r.source_id].created_at
           /\ \A s \in Sources : CameBefore(s, r.source_id) =>
                (\E q \in some : q.source_id = s) \/ Done(topic, s)
<1>1. SourceEvents(topic) \subseteq Sources
  BY DEF SourceEvents, Sources
<1>2. ASSUME NEW r \in Query(topic)
      PROVE  r.source_id \in Sources /\ r.created_at = events[r.source_id].created_at
  BY <1>1, QueryRow DEF Joined, Unjoined
<1>3. ASSUME NEW s \in Sources
      PROVE  (\E q \in Query(topic) : q.source_id = s) \/ Done(topic, s)
  <2>1. CASE s \notin SourceEvents(topic)
    <3>1. s \in Excluded(topic)
      BY <2>1 DEF SourceEvents, Sources, OrderOK, InWindow, Orderly, NobodyReopens
    <3>2. PICK t \in Live : /\ events[t].topic = topic /\ events[t].depends_on = s
                            /\ events[t].status \in {"finished", "failed"}
      BY <3>1 DEF Excluded
    <3>3. events[t].status = "finished"
      BY <3>2 DEF JobsInv, EndpointClaimInv, ClaimInv, Live
    <3>. QED  BY <3>2, <3>3 DEF Done, TargetsOf
  <2>2. CASE s \in SourceEvents(topic) /\ TargetsOf(topic, s) = {}
    <3>1. Unjoined(s) \in Query(topic)
      BY <2>2 DEF Query, UnjoinedRows
    <3>. QED  BY <3>1 DEF Unjoined
  <2>3. ASSUME NEW t \in TargetsOf(topic, s), s \in SourceEvents(topic)
        PROVE  \E q \in Query(topic) : q.source_id = s
    <3>1. Joined(s, t) \in Query(topic)
      BY <2>3 DEF Query, JoinedRows
    <3>. QED  BY <3>1 DEF Joined
  <2>. QED  BY <2>1, <2>2, <2>3
<1>4. ASSUME NEW r \in some, NEW s \in Sources, CameBefore(s, r.source_id),
             NEW q \in Query(topic), q.source_id = s
      PROVE  q \in some
  <2>1. r \in Query(topic) /\ (q \notin some => r.created_at <= q.created_at)
    BY <1>4 DEF Limited
  <2>2. /\ r.created_at = events[r.source_id].created_at /\ r.created_at \in Int
        /\ q.created_at = events[s].created_at /\ q.created_at \in Int
    BY <1>2, <1>4, <2>1 DEF OrderOK
  <2>. QED  BY <1>4, <2>1, <2>2 DEF CameBefore
<1>5. some \subseteq Query(topic)
  BY DEF Limited
<1>. QED  BY <1>2, <1>3, <1>4, <1>5

LEMMA OrderStep ==
  ASSUME Sequential, Orderly, JobsInv, OrderOK, EndpointTypeOK', [EndpointNext]_allVars
  PROVE  OrderOK'
<1>1. EndpointTypeOK /\ TableInv /\ OwnRequests
  BY DEF JobsInv, Orderly, NobodyReopens
<1>2. /\ Sources \subseteq Sources' /\ Sources \subseteq Live
      /\ \A s \in Sources : events'[s].created_at = events[s].created_at
  BY SourcesStep DEF Sources
<1>3. ASSUME NEW w \in Workers PROVE CursorOrder(w)'
  <2>1. CASE rows'[w] = {}
    BY <2>1 DEF CursorOrder
  <2>2. CASE rows'[w] = rows[w]
    <3>1. CursorOrder(w)
      BY DEF OrderOK
    <3>2. ASSUME NEW r \in rows[w], NEW s \in Sources', CameBefore(s, r.source_id)'
          PROVE  (\E q \in rows[w] : q.source_id = s) \/ Done(TopicOf[w], s)'
      <4>1. r.source_id \in Sources
        BY <3>1, <3>2 DEF CursorOrder
      <4>2. s \in Sources /\ CameBefore(s, r.source_id)
        BY <3>2, <4>1, OrderKept
      <4>. QED  BY <1>2, <3>1, <3>2, <4>2, DoneStays DEF CursorOrder
    <3>. QED  BY <1>2, <2>2, <3>1, <3>2 DEF CursorOrder
  <2>3. CASE rows'[w] \in Limited(Query(TopicOf[w])) /\ UNCHANGED events
    <3>1. /\ Sources' = Sources
          /\ \A s : Done(TopicOf[w], s) => Done(TopicOf[w], s)'
          /\ \A s, t : CameBefore(s, t)' => CameBefore(s, t)
      BY <2>3 DEF Sources, Done, TargetsOf, Live, CameBefore
    <3>. QED  BY <2>3, <3>1, QueryOrder DEF CursorOrder
  <2>. QED  BY <1>1, <2>1, <2>2, <2>3, RowsOfCursor
<1>. QED  BY <1>3, SourcesStep, TargetsStep DEF OrderOK

\* "Ensure events are processed in sequential order" (EnrollRequestModel): with
\* the sequential flag the job of a source is not begun while that of a source
\* that came before it is active, for any number of services, sources and crashes
\* and any order of created_at and commits, as long as no job fails or is restarted.
THEOREM OneJobAtATime ==
  ASSUME Orderly
  PROVE  EndpointSpec => []OneActiveJob
<1>1. CASE ~ Sequential
  <2>1. OneActiveJob
    BY <1>1 DEF OneActiveJob
  <2>. QED  BY <2>1, PTL
<1>2. CASE Sequential
  <2>1. JobsInv /\ OrderOK /\ [EndpointNext]_allVars => JobsInv' /\ OrderOK'
    <3>1. ASSUME JobsInv, OrderOK, [EndpointNext]_allVars PROVE JobsInv' /\ OrderOK'
      <4>1. JobsInv'
        BY <3>1, JobsStep DEF Orderly
      <4>. QED  BY <1>2, <3>1, <4>1, OrderStep DEF JobsInv
    <3>. QED  BY <3>1
  <2>2. EndpointInit => OrderOK
    BY NullAssumption
       DEF EndpointInit, Init, OrderOK, Sources, Live, Target, CursorOrder
  <2>3. JobsInv /\ OrderOK => OneActiveJob
    <3>. SUFFICES ASSUME JobsInv, OrderOK, NEW a \in EventId, NEW b \in EventId,
                         Active(a), Active(b), events[a].topic = events[b].topic,
                         CameBefore(events[a].depends_on, events[b].depends_on)
                  PROVE  FALSE
      BY DEF OneActiveJob
    <3>1. AtMostOneTarget
      BY DEF JobsInv, TableInv, AtMostOneTarget, Target
    <3>2. Target(a) /\ Target(b) /\ TargetOrder(a) /\ TargetOrder(b)
      BY DEF Active, OrderOK
    <3>3. Done(events[a].topic, events[a].depends_on)
      BY <3>2 DEF TargetOrder
    <3>4. PICK t \in TargetsOf(events[a].topic, events[a].depends_on) :
            events[t].status = "finished"
      BY <3>3 DEF Done
    <3>5. t = a
      BY <3>1, <3>2, <3>4 DEF AtMostOneTarget, TargetsOf, Target, Live
    <3>. QED  BY <3>4, <3>5 DEF Active
  <2>. QED  BY <2>1, <2>2, <2>3, JobsInit, PTL DEF EndpointSpec
<1>. QED  BY <1>1, <1>2
=============================================================================
