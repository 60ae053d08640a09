----------------------------- MODULE Operations -----------------------------
(***************************************************************************)
(* Batches of operations on the entities of a project: the transactions    *)
(* they run in, their failures and retries, and the events they announce.  *)
(* Translated from ayon_server/operations/project_level (__init__.py and   *)
(* entity_create / entity_update / entity_delete), with the transactions   *)
(* of ayon_server/lib/postgres.py.                                         *)
(*                                                                         *)
(* Postgres is external: READ COMMITTED, a row lock from a write to the    *)
(* end of its transaction, a victim aborted when transactions wait for one *)
(* another.                                                                *)
(***************************************************************************)
EXTENDS Naturals, Sequences, FiniteSets

CONSTANTS
  Batches,        \* requests
  Entities,       \* rows of the entity tables
  Values,         \* what a row may hold
  Scripts,        \* lists of operations a request may carry
  Modes,          \* ways to process a request, see mode
  WaitForEvents,  \* the wait_for_events flag of the requests
  InitialRows,    \* the rows before the requests
  MaxConcurrent,  \* bound: batches in progress at a time
  MaxBusy,        \* bound: ServiceUnavailableException during operations
  MaxOutages,     \* bound: failures after the commit
  MaxCrashes,     \* bound: crashes of the server
  NULL

Operation ==
  [type : {"create", "update", "delete"}, entity : Entities, value : Values]

ASSUME ScriptAssumption ==
  /\ Scripts \subseteq Seq(Operation)
  /\ NULL \notin Values \cup Batches
  /\ NULL \notin {"ok", "failed", "error", "interrupted", "lost"}
  /\ Modes \subseteq {"can_fail", "collect", "raise"}
  /\ WaitForEvents \in BOOLEAN
  /\ InitialRows \in [Entities -> Values \cup {NULL}]
  /\ MaxConcurrent \in Nat
  /\ MaxBusy \in Nat
  /\ MaxOutages \in Nat
  /\ MaxCrashes \in Nat

MaxTries == 3

VARIABLES
  script,    \* the operations of each batch
  mode,      \* can_fail, or raise_on_error, or neither ("collect")
  rows,      \* the committed rows; NULL if there is none
  owner,     \* the transaction that holds the lock of each row
  pending,   \* what the owner has written to a row
  pc,        \* where each batch is
  attempt,   \* transactions it has begun
  loaded,    \* the entity its current operation has read
  done,      \* operations executed in the open transaction
  result,    \* success of the operations so far
  events,    \* events to dispatch when they are committed
  reply,     \* the answer
  applied,   \* history: the operations that have been committed
  log,       \* the event stream
  faults     \* history: the faults so far

database == <<rows, owner, pending, applied>>
progress == <<pc, attempt, loaded, done, result>>
vars == <<script, mode, database, progress, events, reply, log, faults>>
-----------------------------------------------------------------------------
InProgress == {b \in Batches : pc[b] \notin {"new", "done"}}

CanFail(b) == mode[b] = "can_fail"

\* The current operation.
Current(b) == script[b][Len(result[b]) + 1]

\* The row a transaction sees: its own write, or what is committed.
Visible(b, e) == IF owner[e] = b THEN pending[e] ELSE rows[e]

\* A write waits for the end of the transaction that has written the row.  An
\* uncommitted new row is not there for an update, but it is for its key.
Blocked(b) ==
  /\ pc[b] = "write"
  /\ owner[Current(b).entity] \notin {b, NULL}
  /\ rows[Current(b).entity] # NULL \/ Current(b).type = "create"

\* A circle of transactions that wait for one another.
Deadlocked(b) ==
  \E circle \in SUBSET Batches :
    /\ b \in circle
    /\ \A c \in circle : Blocked(c)
    /\ circle = {owner[Current(c).entity] : c \in circle}

\* The transaction ends: its locks and what it has written are gone.
Release(b) ==
  /\ owner' = [e \in Entities |-> IF owner[e] = b THEN NULL ELSE owner[e]]
  /\ pending' = [e \in Entities |-> IF owner[e] = b THEN NULL ELSE pending[e]]
  /\ done' = [done EXCEPT ![b] = {}]

\* Mutant: the connection of a failed transaction keeps it open.
Rollback_Leak(b) ==
  /\ done' = [done EXCEPT ![b] = {}]
  /\ UNCHANGED database

Rollback(b) == Release(b) /\ UNCHANGED <<rows, applied>>

Answer(b, r) == reply' = [reply EXCEPT ![b] = r]

Goto(b, label) == pc' = [pc EXCEPT ![b] = label]

Event(b, i) == [batch |-> b, op |-> i]

Value(ev) ==
  LET op == script[ev.batch][ev.op]
  IN  IF op.type = "delete" THEN NULL ELSE op.value
-----------------------------------------------------------------------------
Init ==
  /\ script \in [Batches -> Scripts]
  /\ mode \in [Batches -> Modes]
  /\ rows = InitialRows
  /\ owner = [e \in Entities |-> NULL]
  /\ pending = [e \in Entities |-> NULL]
  /\ pc = [b \in Batches |-> "new"]
  /\ attempt = [b \in Batches |-> 0]
  /\ loaded = [b \in Batches |-> NULL]
  /\ done = [b \in Batches |-> {}]
  /\ result = [b \in Batches |-> << >>]
  /\ events = [b \in Batches |-> << >>]
  /\ reply = [b \in Batches |-> NULL]
  /\ applied = {}
  /\ log = << >>
  /\ faults = [busy |-> 0, outages |-> 0, crashes |-> 0]

\* _validate: no entity is updated or deleted twice.
Duplicate(ops) ==
  \E i, j \in DOMAIN ops :
    /\ i # j
    /\ "create" \notin {ops[i].type, ops[j].type}
    /\ ops[i].entity = ops[j].entity

Refused(b) ==
  /\ pc[b] = "new"
  /\ Duplicate(script[b])
  /\ Goto(b, "done")
  /\ Answer(b, "error")
  /\ UNCHANGED <<script, mode, database, attempt, loaded, done, result, events,
                 log, faults>>

\* _process: one transaction for the batch, or one for each operation.
Start(b) ==
  /\ pc[b] = "new"
  /\ ~ Duplicate(script[b])
  /\ Cardinality(InProgress) < MaxConcurrent
  /\ Goto(b, IF script[b] = << >> THEN "commit" ELSE "op")
  /\ attempt' = [attempt EXCEPT ![b] = 1]
  /\ UNCHANGED <<script, mode, database, loaded, done, result, events, reply,
                 log, faults>>

\* The current operation has a result: go on with the next one, or finish.
Advance(b, success) ==
  /\ result' = [result EXCEPT ![b] = Append(@, success)]
  /\ Goto(b, IF Len(result[b]) + 1 = Len(script[b]) THEN "commit" ELSE "op")

\* The exception handlers of _process_operations.  What raised the exception
\* may have aborted the transaction; if it has not, and can_fail is off, the
\* transaction stays as it is when the loop breaks.
Failure(b, aborts) ==
  \/ /\ CanFail(b)
     /\ Advance(b, FALSE)
     /\ UNCHANGED <<database, done, events, reply>>
  \/ /\ mode[b] = "collect"
     /\ result' = [result EXCEPT ![b] = Append(@, FALSE)]
     /\ Goto(b, "commit")
     /\ IF aborts THEN Rollback(b) ELSE UNCHANGED <<database, done>>
     /\ UNCHANGED <<events, reply>>
  \/ /\ mode[b] = "raise"
     /\ Rollback(b)
     /\ Goto(b, "done")
     /\ Answer(b, "error")
     /\ events' = [events EXCEPT ![b] = << >>]
     /\ UNCHANGED result

\* The operation is not allowed, its data are invalid or a hook rejects it.
Reject(b) ==
  /\ pc[b] = "op"
  /\ Failure(b, FALSE)
  /\ UNCHANGED <<script, mode, attempt, loaded, log, faults>>

\* entity_class.load
Load(b) ==
  /\ pc[b] = "op"
  /\ LET row == Visible(b, Current(b).entity)
     IN  IF Current(b).type # "create" /\ row = NULL
         THEN /\ Failure(b, FALSE)
              /\ UNCHANGED loaded
         ELSE /\ loaded' = [loaded EXCEPT ![b] = row]
              /\ Goto(b, "write")
              /\ UNCHANGED <<database, done, result, events, reply>>
  /\ UNCHANGED <<script, mode, attempt, log, faults>>

\* Mutant: the comparison is made with the patched entity.
NewEvents_AfterPatch(b) ==
  LET op == Current(b)
  IN  IF op.type = "update" THEN << >> ELSE << Event(b, Len(result[b]) + 1) >>

\* The events of an operation.  Those of an update come from a comparison with
\* the entity as it was loaded.
NewEvents(b) ==
  LET op == Current(b)
  IN  IF op.type = "update" /\ op.value = loaded[b]
      THEN << >>
      ELSE << Event(b, Len(result[b]) + 1) >>

\* Mutant: an operation always has a transaction of its own.
Execute_OwnTransaction(b) ==
  LET op == Current(b)
      hits == op.type = "create" \/ Visible(b, op.entity) # NULL
      row == IF op.type = "delete" THEN NULL ELSE op.value
  IN  /\ rows' = IF hits THEN [rows EXCEPT ![op.entity] = row] ELSE rows
      /\ applied' = applied \cup {<<b, Len(result[b]) + 1>>}
      /\ UNCHANGED <<owner, pending, done>>

\* The statement, in the transaction of the batch or in one of its own that is
\* committed at once.  An update or delete of a row that is gone changes nothing
\* and is no error.
Execute(b) ==
  LET i == Len(result[b]) + 1
      op == Current(b)
      hits == op.type = "create" \/ Visible(b, op.entity) # NULL
      row == IF op.type = "delete" THEN NULL ELSE op.value
  IN  IF CanFail(b)
      THEN /\ rows' = IF hits THEN [rows EXCEPT ![op.entity] = row] ELSE rows
           /\ applied' = applied \cup {<<b, i>>}
           /\ UNCHANGED <<owner, pending, done>>
      ELSE /\ owner' = IF hits THEN [owner EXCEPT ![op.entity] = b] ELSE owner
           /\ pending' = IF hits THEN [pending EXCEPT ![op.entity] = row]
                                 ELSE pending
           /\ done' = [done EXCEPT ![b] = @ \cup {i}]
           /\ UNCHANGED <<rows, applied>>

Write(b) ==
  /\ pc[b] = "write"
  /\ ~ Blocked(b)
  /\ ~ (Current(b).type = "create" /\ Visible(b, Current(b).entity) # NULL)
  /\ Execute(b)
  /\ events' = [events EXCEPT ![b] = @ \o NewEvents(b)]
  /\ loaded' = [loaded EXCEPT ![b] = NULL]
  /\ Advance(b, TRUE)
  /\ UNCHANGED <<script, mode, attempt, reply, log, faults>>

\* The statement violates a constraint: a key that exists, or another one.
Violate(b) ==
  /\ pc[b] = "write"
  /\ ~ Blocked(b)
  /\ Failure(b, TRUE)
  /\ loaded' = [loaded EXCEPT ![b] = NULL]
  /\ UNCHANGED <<script, mode, attempt, log, faults>>

\* Postgres aborts one of the transactions that wait for one another
\* (DeadlockException, which is not retried).
Victim(b) ==
  /\ Deadlocked(b)
  /\ Failure(b, TRUE)
  /\ loaded' = [loaded EXCEPT ![b] = NULL]
  /\ UNCHANGED <<script, mode, attempt, log, faults>>

\* Mutant: a retry starts with the events of the attempt before it.
Busy_KeepsEvents(b) ==
  /\ pc[b] = "op"
  /\ faults.busy < MaxBusy
  /\ faults' = [faults EXCEPT !.busy = @ + 1]
  /\ Rollback(b)
  /\ IF CanFail(b) \/ attempt[b] = MaxTries
     THEN /\ Goto(b, "done")
          /\ Answer(b, "error")
          /\ UNCHANGED <<attempt, result>>
     ELSE /\ attempt' = [attempt EXCEPT ![b] = @ + 1]
          /\ result' = [result EXCEPT ![b] = << >>]
          /\ UNCHANGED <<pc, reply>>
  /\ UNCHANGED <<script, mode, loaded, events, log>>

\* ServiceUnavailableException: no connection, or an entity that a hook finds
\* locked.  The whole transaction is tried again, MaxTries times.
Busy(b) ==
  /\ pc[b] = "op"
  /\ faults.busy < MaxBusy
  /\ faults' = [faults EXCEPT !.busy = @ + 1]
  /\ Rollback(b)
  /\ events' = [events EXCEPT ![b] = << >>]
  /\ IF CanFail(b) \/ attempt[b] = MaxTries
     THEN /\ Goto(b, "done")
          /\ Answer(b, "error")
          /\ UNCHANGED <<attempt, result>>
     ELSE /\ attempt' = [attempt EXCEPT ![b] = @ + 1]
          /\ result' = [result EXCEPT ![b] = << >>]
          /\ UNCHANGED <<pc, reply>>
  /\ UNCHANGED <<script, mode, loaded, log>>
-----------------------------------------------------------------------------
Succeeded(b) == \A i \in DOMAIN result[b] : result[b][i]

Outcome(b) == IF Succeeded(b) THEN "ok" ELSE "failed"

\* The transaction block is left without an exception: Postgres commits what it
\* holds.  RollbackException is raised after that, and drops the events.
Finish(b) ==
  /\ pc[b] = "commit"
  /\ rows' = [e \in Entities |-> IF owner[e] = b THEN pending[e] ELSE rows[e]]
  /\ applied' = applied \cup ({b} \X done[b])
  /\ Release(b)
  /\ LET kept == IF CanFail(b) \/ Succeeded(b) THEN events[b] ELSE << >>
     IN  /\ events' = [events EXCEPT ![b] = kept]
         /\ Goto(b, IF kept = << >> THEN "done" ELSE "dispatch")
         /\ IF kept = << >> THEN Answer(b, Outcome(b)) ELSE UNCHANGED reply
  /\ UNCHANGED <<script, mode, attempt, loaded, result, log, faults>>

\* The views are refreshed, and _process_events dispatches one event after the
\* other: in the request, or in a task, and then the request is answered first.
Dispatch(b) ==
  /\ pc[b] = "dispatch"
  /\ log' = Append(log, Head(events[b]))
  /\ events' = [events EXCEPT ![b] = Tail(@)]
  /\ Goto(b, IF Len(events[b]) = 1 THEN "done" ELSE "dispatch")
  /\ IF Len(events[b]) = 1 \/ ~ WaitForEvents
     THEN Answer(b, Outcome(b)) ELSE UNCHANGED reply
  /\ UNCHANGED <<script, mode, database, attempt, loaded, done, result, faults>>

\* Mutant: the failure of the dispatch is answered like that of an operation.
Outage_AsRollback(b) ==
  /\ pc[b] = "dispatch"
  /\ faults.outages < MaxOutages
  /\ faults' = [faults EXCEPT !.outages = @ + 1]
  /\ events' = [events EXCEPT ![b] = << >>]
  /\ Goto(b, "done")
  /\ Answer(b, IF reply[b] = NULL THEN "error" ELSE reply[b])
  /\ UNCHANGED <<script, mode, database, attempt, loaded, done, result, log>>

\* Refreshing the views or dispatching an event raises an exception: an error
\* of another kind than those of a batch that is rolled back.  The dispatch in a
\* task may raise when the request is answered already.
Outage(b) ==
  /\ pc[b] = "dispatch"
  /\ faults.outages < MaxOutages
  /\ faults' = [faults EXCEPT !.outages = @ + 1]
  /\ events' = [events EXCEPT ![b] = << >>]
  /\ Goto(b, "done")
  /\ \E r \in {"interrupted"} \cup (IF WaitForEvents THEN {} ELSE {Outcome(b)}) :
       Answer(b, IF reply[b] = NULL THEN r ELSE reply[b])
  /\ UNCHANGED <<script, mode, database, attempt, loaded, done, result, log>>

\* The server dies: open transactions and events in memory are gone, with the
\* requests it was working on.
CrashWith(lost) ==
  /\ faults.crashes < MaxCrashes
  /\ lost # {}
  /\ faults' = [faults EXCEPT !.crashes = @ + 1]
  /\ owner' = [e \in Entities |-> NULL]
  /\ pending' = [e \in Entities |-> NULL]
  /\ pc' = [b \in Batches |-> IF b \in lost THEN "done" ELSE pc[b]]
  /\ reply' = [b \in Batches |-> IF b \in lost /\ reply[b] = NULL
                                 THEN "lost" ELSE reply[b]]
  /\ done' = [b \in Batches |-> {}]
  /\ events' = [b \in Batches |-> << >>]
  /\ UNCHANGED <<script, mode, rows, attempt, loaded, result, applied, log>>

Crash == CrashWith(InProgress)

Step(b) ==
  \/ Refused(b) \/ Start(b)
  \/ Load(b) \/ Reject(b) \/ Busy(b)
  \/ Write(b) \/ Violate(b) \/ Victim(b)
  \/ Finish(b) \/ Dispatch(b) \/ Outage(b)

Next == (\E b \in Batches : Step(b)) \/ Crash

Spec == Init /\ [][Next]_vars

\* The server goes on with each request, and Postgres with each transaction.
\* No fault is bound to happen.
Progress(b) ==
  \/ Refused(b) \/ Start(b) \/ Load(b) \/ Write(b) \/ Violate(b) \/ Victim(b)
  \/ Finish(b) \/ Dispatch(b)

FairSpec == Spec /\ \A b \in Batches : WF_vars(Progress(b))
-----------------------------------------------------------------------------
Indices(b) == DOMAIN script[b]

Raising == {b \in Batches : mode[b] = "raise"}

\* Types of the variables; rows that are written hold the write of their owner.
TypeOK ==
  /\ script \in [Batches -> Scripts]
  /\ mode \in [Batches -> Modes]
  /\ rows \in [Entities -> Values \cup {NULL}]
  /\ owner \in [Entities -> Batches \cup {NULL}]
  /\ pending \in [Entities -> Values \cup {NULL}]
  /\ \A e \in Entities : owner[e] = NULL => pending[e] = NULL
  /\ pc \in [Batches -> {"new", "op", "write", "commit", "dispatch", "done"}]
  /\ attempt \in [Batches -> 0..MaxTries]
  /\ loaded \in [Batches -> Values \cup {NULL}]
  /\ \A b \in Batches :
       /\ done[b] \subseteq Indices(b)
       /\ Len(result[b]) \in 0..Len(script[b])
       /\ \A i \in DOMAIN events[b] :
            events[b][i].batch = b /\ events[b][i].op \in Indices(b)
  /\ reply \in [Batches -> {NULL, "ok", "failed", "error", "interrupted", "lost"}]
  /\ \A p \in applied : p[1] \in Batches /\ p[2] \in Indices(p[1])
  /\ faults \in [busy : 0..MaxBusy, outages : 0..MaxOutages,
                 crashes : 0..MaxCrashes]

\* Without can_fail, all operations of a batch are committed or none is,
\* whatever fails, waits or dies in the middle: "all previous operations are
\* rolled back" (api/operations/operations.py).
AllOrNothing ==
  \A b \in Batches :
    ~ CanFail(b) => \/ \A i \in Indices(b) : <<b, i>> \in applied
                    \/ \A i \in Indices(b) : <<b, i>> \notin applied

\* The same of the batches with raise_on_error.
RaisingIsAtomic ==
  \A b \in Raising :
    \/ \A i \in Indices(b) : <<b, i>> \in applied
    \/ \A i \in Indices(b) : <<b, i>> \notin applied

\* An event is dispatched once, and only for an operation that is committed:
\* not for an attempt that was rolled back and tried again.
AnnouncedOnce ==
  /\ \A k \in DOMAIN log : <<log[k].batch, log[k].op>> \in applied
  /\ \A k, n \in DOMAIN log : log[k] = log[n] => k = n

Touching(e) ==
  {b \in Batches : \E i \in Indices(b) : script[b][i].entity = e}

\* The positions in the event stream of the events about a row.
About(e) == {k \in DOMAIN log : script[log[k].batch][log[k].op].entity = e}

Replay(e) ==
  IF About(e) = {} THEN InitialRows[e]
  ELSE Value(log[CHOOSE k \in About(e) : \A n \in About(e) : n <= k])

\* Operations of the batch may be committed and their events lost: with can_fail
\* when it meets a busy entity, with neither flag when an operation fails.
CutShort(b) ==
  \/ CanFail(b) /\ reply[b] = "error"
  \/ mode[b] = "collect" /\ reply[b] = "failed"

\* A listener that follows the event stream knows the rows, once the requests
\* are processed, if no row is written by two of them: whatever was retried,
\* rolled back, waited for or failed alone, no change goes unannounced, unless
\* the server has failed after a commit or a can_fail batch was cut short.
ReplayMatches ==
  /\ \A b \in Batches : pc[b] = "done" /\ ~ CutShort(b)
  /\ faults.outages = 0 /\ faults.crashes = 0
  => \A e \in Entities : Cardinality(Touching(e)) <= 1 => Replay(e) = rows[e]

\* Every request is answered and leaves no transaction behind: retries end, and
\* transactions that wait for one another do not wait for ever.
EveryBatchEnds == \A b \in Batches : <>(pc[b] = "done")

\* What AtomicBatches says of the batches with raise_on_error.
Atomic == INSTANCE AtomicBatches WITH
  applied <- {p \in applied : p[1] \in Raising},
  reply <- [b \in Batches |-> IF b \notin Raising THEN NULL
                             ELSE IF reply[b] = "interrupted" THEN "lost"
                             ELSE reply[b]]

\* With raise_on_error a batch is atomic, whatever batches run next to it, and
\* its answer is true: an error means that nothing has happened, nor will,
\* unless the views or the dispatch have failed after the commit.
IsAtomic == Atomic!Spec
=============================================================================
