-------------------------- MODULE RequestCoalescer --------------------------
(***************************************************************************)
(* Callers that ask for the same thing at the same time share one task.    *)
(* Translated from ayon_server/utils/request_coalescer.py.                 *)
(*                                                                         *)
(* The lock is never held over an await, so that each of the two critical  *)
(* sections is one step.  asyncio is external: awaiting a task that is     *)
(* done does not suspend, cancelling a caller cancels the task it awaits,  *)
(* and the callers of a task that has ended are resumed in any order.      *)
(***************************************************************************)
EXTENDS Naturals, Sequences, FiniteSets, FiniteSetsExt

CONSTANTS
  Callers,     \* coroutines that call the coalescer
  Keys,        \* functions with their arguments, see _hash_args
  MaxWaiters,  \* RequestCoalescer.max_waiters
  MaxCalls,    \* bound: calls of all callers
  MaxWrites,   \* bound: changes of the data
  MaxFailures, \* bound: tasks that raise an exception
  MaxCancels,  \* bound: callers that are cancelled
  NULL

ASSUME CoalescerAssumption ==
  /\ IsFiniteSet(Callers)
  /\ NULL \notin Callers \cup Keys
  /\ MaxWaiters \in Nat \ {0}
  /\ MaxCalls \in Nat
  /\ MaxWrites \in Nat
  /\ MaxFailures \in Nat
  /\ MaxCancels \in Nat

VARIABLES
  futures,   \* current_futures: the task of each entry
  waiters,   \* current_waiters: the callers counted for each entry
  tasks,     \* the tasks, in the order of their creation
  key,       \* what each caller asks for; NULL when it is not waiting
  entry,     \* its selected_key
  future,    \* its selected_future
  outcome,   \* how its last call has ended
  doomed,    \* callers to be cancelled when they are resumed
  calls,     \* the calls so far
  data,      \* the version of what the tasks read
  floor,     \* history: the oldest version a call may return, see Floor
  faults     \* history: exceptions and cancellations so far

shared == <<futures, waiters>>
locals == <<key, entry, future>>
vars == <<shared, tasks, locals, outcome, doomed, calls, data, floor, faults>>
-----------------------------------------------------------------------------
Waiting == {c \in Callers : key[c] # NULL}

\* The callers that an entry stands for.
WaitingFor(e) == {c \in Waiting : entry[c] = e}

\* An entry is named for what is asked for, and for its task (a new uuid) if the
\* plain name is taken.
Entry(k, n) == [key |-> k, task |-> n]

\* Mutant: every batch has the plain name.
NewEntry_Plain(k) == Entry(k, 0)

NewEntry(k) ==
  IF Entry(k, 0) \notin DOMAIN futures THEN Entry(k, 0)
                                       ELSE Entry(k, Len(tasks) + 1)

\* The batches with space for another waiter.
Open(k) == {e \in DOMAIN futures : e.key = k /\ waiters[e] < MaxWaiters}

\* The first of them in the order of insertion.
First(entries) ==
  CHOOSE e \in entries : \A other \in entries : futures[e] <= futures[other]

Ended(t) == tasks[t].state \in {"done", "failed", "cancelled"}

\* A call may return what was read for a call it overlaps, and so may that one.
Floor(k) ==
  Min({data} \cup {floor[c] : c \in {d \in Waiting : key[d] = k}})

Result(t) ==
  [state |-> tasks[t].state, key |-> tasks[t].key, value |-> tasks[t].value]

Without(f, e) == [d \in DOMAIN f \ {e} |-> f[d]]
-----------------------------------------------------------------------------
Init ==
  /\ futures = << >>
  /\ waiters = << >>
  /\ tasks = << >>
  /\ key = [c \in Callers |-> NULL]
  /\ entry = [c \in Callers |-> NULL]
  /\ future = [c \in Callers |-> NULL]
  /\ outcome = [c \in Callers |-> NULL]
  /\ doomed = {}
  /\ calls = 0
  /\ data = 0
  /\ floor = [c \in Callers |-> 0]
  /\ faults = [failures |-> 0, cancels |-> 0]

\* The caller awaits the task of the entry.
Await(c, k, e, t) ==
  /\ key' = [key EXCEPT ![c] = k]
  /\ entry' = [entry EXCEPT ![c] = e]
  /\ future' = [future EXCEPT ![c] = t]
  /\ floor' = [floor EXCEPT ![c] = Floor(k)]

CanCall(c) ==
  /\ c \notin Waiting
  /\ calls < MaxCalls
  /\ calls' = calls + 1

\* __call__ finds a batch whose task has not ended.
Join(c, k) ==
  /\ CanCall(c)
  /\ Open(k) # {}
  /\ LET e == First(Open(k))
     IN  /\ ~ Ended(futures[e])
         /\ waiters' = [waiters EXCEPT ![e] = @ + 1]
         /\ Await(c, k, e, futures[e])
  /\ UNCHANGED <<futures, tasks, outcome, doomed, data, faults>>

\* __call__ finds a batch whose task has ended, and whose callers have not all
\* been resumed: it counts itself in and out without a break.
JoinEnded(c, k) ==
  /\ CanCall(c)
  /\ Open(k) # {}
  /\ LET e == First(Open(k))
     IN  /\ Ended(futures[e])
         /\ outcome' = [outcome EXCEPT ![c] = Result(futures[e])]
         /\ floor' = [floor EXCEPT ![c] = Floor(k)]
  /\ UNCHANGED <<shared, tasks, locals, doomed, data, faults>>

\* __call__ starts a task.
Create(c, k) ==
  /\ CanCall(c)
  /\ Open(k) = {}
  /\ LET e == NewEntry(k)
         t == Len(tasks) + 1
         known == DOMAIN futures \cup {e}
     IN  /\ tasks' = Append(tasks,
                            [key |-> k, state |-> "created", value |-> NULL])
         /\ futures' = [d \in known |-> IF d = e THEN t ELSE futures[d]]
         /\ waiters' = [d \in known |-> IF d = e THEN 1 ELSE waiters[d]]
         /\ Await(c, k, e, t)
  /\ UNCHANGED <<outcome, doomed, data, faults>>

\* Mutant: the last caller leaves the entry behind.
Leave_Keeps(c) ==
  LET e == entry[c]
  IN  /\ waiters' = [waiters EXCEPT ![e] = @ - 1]
      /\ UNCHANGED futures

\* The finally block of __call__.
Leave(c) ==
  LET e == entry[c]
  IN  IF e \notin DOMAIN waiters THEN UNCHANGED shared
      ELSE IF waiters[e] = 1
           THEN /\ futures' = Without(futures, e)
                /\ waiters' = Without(waiters, e)
           ELSE /\ waiters' = [waiters EXCEPT ![e] = @ - 1]
                /\ UNCHANGED futures

\* A cancellation is delivered once.
Undoom(c) == doomed \ {c}

\* The task has ended: a caller is resumed, and returns or raises what it gives.
Resume(c) ==
  /\ c \in Waiting
  /\ Ended(future[c])
  /\ Leave(c)
  /\ outcome' = [outcome EXCEPT ![c] =
                   IF c \in doomed
                   THEN [Result(future[c]) EXCEPT !.state = "cancelled"]
                   ELSE Result(future[c])]
  /\ doomed' = Undoom(c)
  /\ key' = [key EXCEPT ![c] = NULL]
  /\ entry' = [entry EXCEPT ![c] = NULL]
  /\ future' = [future EXCEPT ![c] = NULL]
  /\ UNCHANGED <<tasks, calls, data, floor, faults>>

\* The caller is cancelled: so is the task, for all who await it.
Cancel(c) ==
  /\ c \in Waiting
  /\ faults.cancels < MaxCancels
  /\ faults' = [faults EXCEPT !.cancels = @ + 1]
  /\ IF Ended(future[c])
     THEN doomed' = doomed \cup {c} /\ UNCHANGED tasks
     ELSE /\ tasks' = [tasks EXCEPT ![future[c]].state = "cancelling"]
          /\ UNCHANGED doomed
  /\ UNCHANGED <<shared, locals, outcome, calls, data, floor>>
-----------------------------------------------------------------------------
\* The task reads what it is about.
Read(t) ==
  /\ tasks[t].state = "created"
  /\ tasks' = [tasks EXCEPT ![t] = [@ EXCEPT !.state = "read", !.value = data]]
  /\ UNCHANGED <<shared, locals, outcome, doomed, calls, data, floor, faults>>

EndTask(t, state) ==
  /\ tasks' = [tasks EXCEPT ![t].state = state]
  /\ UNCHANGED <<shared, locals, outcome, doomed, calls, data, floor>>

Return(t) ==
  /\ tasks[t].state = "read"
  /\ EndTask(t, "done")
  /\ UNCHANGED faults

\* Mutant: nobody is told of the exception.
Raise_Untold(t) ==
  /\ tasks[t].state = "read"
  /\ faults.failures < MaxFailures
  /\ faults' = [faults EXCEPT !.failures = @ + 1]
  /\ EndTask(t, "untold")

Raise(t) ==
  /\ tasks[t].state = "read"
  /\ faults.failures < MaxFailures
  /\ faults' = [faults EXCEPT !.failures = @ + 1]
  /\ EndTask(t, "failed")

\* The CancelledError is raised in the task.
Cancelled(t) ==
  /\ tasks[t].state = "cancelling"
  /\ EndTask(t, "cancelled")
  /\ UNCHANGED faults

\* Someone changes what the tasks read.
Change ==
  /\ data < MaxWrites
  /\ data' = data + 1
  /\ UNCHANGED <<shared, tasks, locals, outcome, doomed, calls, floor, faults>>

CallerStep(c) ==
  \/ \E k \in Keys : Join(c, k) \/ JoinEnded(c, k) \/ Create(c, k)
  \/ Resume(c)
  \/ Cancel(c)

TaskStep(t) == Read(t) \/ Return(t) \/ Raise(t) \/ Cancelled(t)

Next ==
  \/ \E c \in Callers : CallerStep(c)
  \/ \E t \in DOMAIN tasks : TaskStep(t)
  \/ Change

Spec == Init /\ [][Next]_vars

\* The event loop runs the tasks, and resumes those who await them.
FairSpec ==
  /\ Spec
  /\ \A c \in Callers : WF_vars(Resume(c))
  /\ \A t \in 1..MaxCalls :
       WF_vars(t \in DOMAIN tasks /\ TaskStep(t))
-----------------------------------------------------------------------------
Versions == 0..MaxWrites

TaskRecord ==
  [key : Keys,
   state : {"created", "read", "done", "failed", "cancelling", "cancelled"},
   value : Versions \cup {NULL}]

EntryRecord == [key : Keys, task : Nat]

\* Types of the variables.
TypeOK ==
  /\ tasks \in Seq(TaskRecord)
  /\ DOMAIN futures \subseteq EntryRecord
  /\ futures \in [DOMAIN futures -> DOMAIN tasks]
  /\ waiters \in [DOMAIN futures -> Nat]
  /\ key \in [Callers -> Keys \cup {NULL}]
  /\ doomed \subseteq Waiting
  /\ calls \in 0..MaxCalls
  /\ data \in Versions
  /\ floor \in [Callers -> Versions]
  /\ \A c \in Callers \ Waiting : entry[c] = NULL /\ future[c] = NULL
  /\ faults \in [failures : 0..MaxFailures, cancels : 0..MaxCancels]

\* Every caller waits for the task of its own entry and its own question, and is
\* counted there once: the counts are right through overflows, exceptions and
\* cancellations, no entry outlives its callers and no caller its entry.
CountsMatch ==
  /\ \A c \in Waiting :
       /\ entry[c] \in DOMAIN futures
       /\ entry[c].key = key[c]
       /\ futures[entry[c]] = future[c]
       /\ tasks[future[c]].key = key[c]
  /\ \A e \in DOMAIN futures :
       /\ waiters[e] = Cardinality(WaitingFor(e))
       /\ waiters[e] \in 1..MaxWaiters

\* What a call returns is not older than its start, or the start of a call it
\* overlaps (or one that overlaps that one): a caller that finds nobody waiting
\* never gets what was read before it asked.
NoOlderThanOverlap ==
  \A c \in Callers \ Waiting :
    outcome[c] # NULL /\ outcome[c].state = "done" => outcome[c].value >= floor[c]

\* Every call ends, also those that share a task that fails or is cancelled.
EveryCallEnds == \A c \in Callers : c \in Waiting ~> c \notin Waiting
=============================================================================
