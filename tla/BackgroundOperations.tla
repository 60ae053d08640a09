------------------------ MODULE BackgroundOperations ------------------------
(***************************************************************************)
(* Operations whose request is answered at once: a task of the server      *)
(* processes them after the response, and a client polls a status that is  *)
(* kept in Redis.  Translated from api/operations/operations.py.           *)
(*                                                                         *)
(* The framework is external: it starts a background task after it has     *)
(* sent the response.  The counter of concurrent tasks is left out, it is  *)
(* only logged.  Bound: a status expires only after its task has ended (an *)
(* operation, which renews it, takes less than BACKGROUND_OPS_TTL).        *)
(***************************************************************************)
EXTENDS Operations

CONSTANTS
  ForegroundModes,  \* modes of the batches a client waits for
  BackgroundModes,  \* modes of the others: raise_on_error is always off
  MaxBackground     \* bound: batches sent to the background variant

ASSUME ModesAssumption ==
  /\ ForegroundModes \subseteq Modes
  /\ BackgroundModes \subseteq Modes \ {"raise"}
  /\ MaxBackground \in Nat

\* A status: its state, the index of the current operation, and the result.
States == {"pending", "in_progress", "completed"}

Statuses ==
  [state : States, index : Nat, result : {NULL, "ok", "failed"}]

ASSUME StatusAssumption == NULL \notin Statuses

VARIABLES
  background,  \* the batches sent to the background variant
  task,        \* their tasks
  status       \* what Redis tells of them; NULL when there is nothing

taskVars == <<background, task, status>>
backgroundVars == <<vars, taskVars>>

Status(state, index, answer) ==
  [state |-> state, index |-> index, result |-> answer]

SetStatus(b, st) == status' = [status EXCEPT ![b] = st]

SetTask(b, t) == task' = [task EXCEPT ![b] = t]

BackgroundInit ==
  /\ Init
  /\ background \in SUBSET Batches
  /\ Cardinality(background) <= MaxBackground
  /\ \A b \in Batches :
       mode[b] \in IF b \in background THEN BackgroundModes
                                       ELSE ForegroundModes
  /\ task = [b \in Batches |-> "none"]
  /\ status = [b \in Batches |-> NULL]
-----------------------------------------------------------------------------
\* background_operations, up to add_task.
AddTask(b) ==
  /\ b \in background
  /\ task[b] = "none"
  /\ SetTask(b, "added")
  /\ UNCHANGED <<vars, background, status>>

\* The rest of it: the status, and the response with the id of the task.
Accept(b) ==
  /\ task[b] = "added"
  /\ SetStatus(b, Status("pending", 0, NULL))
  /\ SetTask(b, "queued")
  /\ UNCHANGED <<vars, background>>

\* Mutant: the task starts when it is added.
Begin_AtOnce(b) ==
  /\ task[b] \in {"added", "queued"}
  /\ SetStatus(b, Status("in_progress", 0, NULL))
  /\ SetTask(b, IF task[b] = "added" THEN "added" ELSE "running")
  /\ UNCHANGED <<vars, background>>

\* _execute_background_operations starts.
Begin(b) ==
  /\ task[b] = "queued"
  /\ SetStatus(b, Status("in_progress", 0, NULL))
  /\ SetTask(b, "running")
  /\ UNCHANGED <<vars, background>>

\* The progress has been reported for the operation that comes next.
Reported(b) == pc[b] = "op" => status[b].index = Len(result[b])

\* handle_progress, before each operation; a retry starts again from zero.
Report(b) ==
  /\ task[b] = "running"
  /\ ~ Reported(b)
  /\ SetStatus(b, Status("in_progress", Len(result[b]), NULL))
  /\ UNCHANGED <<vars, background, task>>

\* A step of ProjectLevelOperations.process, in the request or in its task.
Process(b) ==
  /\ b \in background => task[b] = "running" /\ Reported(b)
  /\ Step(b)
  /\ UNCHANGED taskVars

\* Mutant: the task does not wait for the events.
Complete_BeforeEvents(b) ==
  /\ task[b] = "running"
  /\ pc[b] \in {"dispatch", "done"}
  /\ pc[b] = "done" => reply[b] \in {"ok", "failed"}
  /\ SetStatus(b, Status("completed", Len(script[b]), Outcome(b)))
  /\ SetTask(b, "over")
  /\ UNCHANGED <<vars, background>>

\* Mutant: a result with errors is not stored.
Complete_Success(b) ==
  /\ task[b] = "running"
  /\ pc[b] = "done"
  /\ reply[b] \in {"ok", "failed"}
  /\ IF reply[b] = "ok"
     THEN SetStatus(b, Status("completed", Len(script[b]), reply[b]))
     ELSE UNCHANGED status
  /\ SetTask(b, "over")
  /\ UNCHANGED <<vars, background>>

\* process returns: the result is there for the client.
Complete(b) ==
  /\ task[b] = "running"
  /\ pc[b] = "done"
  /\ reply[b] \in {"ok", "failed"}
  /\ SetStatus(b, Status("completed", Len(script[b]), reply[b]))
  /\ SetTask(b, "over")
  /\ UNCHANGED <<vars, background>>

\* process raises an exception, which nobody catches: the status stays.
Abandon(b) ==
  /\ task[b] = "running"
  /\ pc[b] = "done"
  /\ reply[b] \notin {"ok", "failed"}
  /\ SetTask(b, "over")
  /\ UNCHANGED <<vars, background, status>>

\* The status has not been renewed for BACKGROUND_OPS_TTL.
Expire(b) ==
  /\ task[b] = "over"
  /\ status[b] # NULL
  /\ SetStatus(b, NULL)
  /\ UNCHANGED <<vars, background, task>>

\* The server dies; Redis does not.
BackgroundCrash ==
  LET alive == {b \in Batches : task[b] \in {"added", "queued", "running"}}
  IN  /\ CrashWith(InProgress \cup alive)
      /\ task' = [b \in Batches |-> IF b \in alive THEN "over" ELSE task[b]]
      /\ UNCHANGED <<background, status>>

TaskStep(b) ==
  \/ AddTask(b) \/ Accept(b) \/ Begin(b) \/ Report(b)
  \/ Complete(b) \/ Abandon(b)

BackgroundNext ==
  \/ \E b \in Batches : Process(b) \/ TaskStep(b) \/ Expire(b)
  \/ BackgroundCrash

\* The event loop goes on with the requests and the tasks.
ProcessOn(b) ==
  /\ b \in background => task[b] = "running" /\ Reported(b)
  /\ Progress(b)
  /\ UNCHANGED taskVars

BackgroundSpec ==
  /\ BackgroundInit
  /\ [][BackgroundNext]_backgroundVars
  /\ \A b \in Batches :
       WF_backgroundVars(ProcessOn(b)) /\ WF_backgroundVars(TaskStep(b))
-----------------------------------------------------------------------------
\* Types, and what the status says of the task.
BackgroundTypeOK ==
  /\ TypeOK
  /\ background \subseteq Batches
  /\ task \in [Batches -> {"none", "added", "queued", "running", "over"}]
  /\ status \in [Batches -> Statuses \cup {NULL}]
  /\ \A b \in Batches :
       /\ task[b] # "none" => b \in background
       /\ task[b] \in {"none", "added"} => status[b] = NULL
       /\ task[b] \in {"queued", "running"} => status[b] # NULL
       /\ task[b] = "queued" => status[b].state = "pending"
       /\ task[b] = "running" => status[b].state = "in_progress"
       /\ status[b] # NULL => status[b].index <= Len(script[b])

Rank(st) ==
  CASE st = NULL -> 0
    [] st # NULL /\ st.state = "pending" -> 1
    [] st # NULL /\ st.state = "in_progress" -> 2
    [] st # NULL /\ st.state = "completed" -> 3

\* A client that polls never sees a status go back, though the request that
\* sets it to pending and the task that sets it to in_progress are not ordered
\* by the code; it ends with its expiration.
StatusGoesForward ==
  [][\A b \in Batches :
       \/ Rank(status'[b]) >= Rank(status[b])
       \/ task[b] = "over" /\ status'[b] = NULL]_backgroundVars

\* A client that sees "completed" finds the rows as the result says, and the
\* listeners know them: the task has waited for its events.
CompletedIsTrue ==
  \A b \in Batches :
    status[b] # NULL /\ Rank(status[b]) = 3 =>
      /\ status[b].result = "ok" =>
           \A i \in Indices(b) : <<b, i>> \in applied
      /\ ~ CutShort(b) /\ faults.outages = 0 /\ faults.crashes = 0 =>
           \A e \in Entities :
             Touching(e) = {b} => Replay(e) = rows[e]

\* A task that is accepted ends with a result to be read, unless the processing
\* raises an exception or the server dies.
EveryTaskReports ==
  \A b \in Batches :
    task[b] = "added" ~> \/ status[b] # NULL /\ Rank(status[b]) = 3
                         \/ reply[b] \in {"error", "interrupted"}
                         \/ faults.crashes > 0
=============================================================================
