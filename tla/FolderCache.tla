---------------------------- MODULE FolderCache ----------------------------
(***************************************************************************)
(* The list of folders in Redis: requests that change the hierarchy and    *)
(* rebuild it, and requests that list the folders from it.                 *)
(* Translated from ayon_server/helpers/hierarchy_cache.py,                 *)
(* ayon_server/helpers/inherited_attributes.py,                            *)
(* ayon_server/entities/folder.py (save, refresh_views, delete) and        *)
(* api/folders/list_folders.py (FolderListLoader).                         *)
(*                                                                         *)
(* A tree is the set of the changes it contains: Hierarchy has the trees.  *)
(* The list joins folders with exported_attributes, which only             *)
(* rebuild_inherited_attributes writes: a change of a folder is not in it  *)
(* before that.                                                            *)
(***************************************************************************)
EXTENDS Naturals, FiniteSets

CONSTANTS
  Writers,      \* requests that change folders or tasks
  Readers,      \* requests that list the folders
  Tasks,        \* tasks of the loader
  NULL,
  MayDelete,    \* folders may be deleted, which rebuilds the list twice
  MayExpire,    \* the ttl of the list may run out
  MaxChanges,   \* bound: changes
  MaxWriters,   \* bound: writers at a time
  MaxFaults     \* bound: failures of a task, and refreshes that are lost

ASSUME CacheAssumption ==
  /\ NULL \notin Tasks
  /\ Cardinality(Tasks) >= Cardinality(Readers)
  /\ MayDelete \in BOOLEAN
  /\ MayExpire \in BOOLEAN
  /\ MaxChanges \in Nat
  /\ MaxWriters \in Nat
  /\ MaxFaults \in Nat

Trees == SUBSET (1..MaxChanges)

VARIABLES
  committed,  \* the changes in the database
  missing,    \* those of them that exported_attributes lacks
  next,       \* changes so far
  cache,      \* project-folders of the project: a tree or NULL
  pc,         \* where each writer is
  change,     \* what it changes
  tree,       \* what it has read for the list
  task,       \* the loader's tasks: stage, and the tree to be stored
  current,    \* the task in _current_futures
  waiting,    \* the task each reader awaits
  lost,       \* history: a folder's refresh was lost, and none followed it
  faults      \* history: the faults so far

database == <<committed, missing, lost>>
writing == <<database, next, pc, change, tree>>
loading == <<task, current, waiting>>
vars == <<database, next, pc, change, tree, cache,
          task, current, waiting, faults>>
-----------------------------------------------------------------------------
Goto(w, label) == pc' = [pc EXCEPT ![w] = label]

\* The request ends: what it has read is gone.
End(w) ==
  /\ Goto(w, "idle")
  /\ change' = [change EXCEPT ![w] = 0]
  /\ tree' = [tree EXCEPT ![w] = {}]

Busy == {w \in Writers : pc[w] # "idle"}

\* The query of rebuild_hierarchy_cache: folders INNER JOIN
\* exported_attributes.
Listed == committed \ missing

\* The transaction of a deletion holds the lock of the hierarchy view.
Deleting == {w \in Writers : pc[w] \in {"list", "open"}}

NoTask == [stage |-> "none", tree |-> {}]

Waiters(t) == {r \in Readers : waiting[r] = t}

Init ==
  /\ committed = {}
  /\ missing = {}
  /\ lost = FALSE
  /\ next = 1
  /\ cache = {}
  /\ pc = [w \in Writers |-> "idle"]
  /\ change = [w \in Writers |-> 0]
  /\ tree = [w \in Writers |-> {}]
  /\ task = [t \in Tasks |-> NoTask]
  /\ current = NULL
  /\ waiting = [r \in Readers |-> NULL]
  /\ faults = 0
-----------------------------------------------------------------------------
Begin(w) ==
  /\ pc[w] = "idle"
  /\ Cardinality(Busy) < MaxWriters
  /\ next <= MaxChanges
  /\ next' = next + 1
  /\ change' = [change EXCEPT ![w] = next]

\* A folder is created or updated, for which its save refreshes the hierarchy
\* view: FolderEntity.refresh_views is to follow.
Update(w) ==
  /\ Deleting = {}
  /\ Begin(w)
  /\ committed' = committed \cup {next}
  /\ missing' = missing \cup {next}
  /\ Goto(w, "export")
  /\ UNCHANGED <<lost, tree, cache, loading, faults>>

\* A task is created, updated or deleted: only the list is rebuilt afterwards.
UpdateTask(w) ==
  /\ Begin(w)
  /\ committed' = committed \cup {next}
  /\ Goto(w, "rebuild")
  /\ UNCHANGED <<missing, lost, tree, cache, loading, faults>>

\* A folder is deleted.  ProjectLevelEntity.delete commits, that is, refreshes
\* the views in the transaction: the tree has what is committed, and lacks the
\* folder already.
Delete(w) ==
  /\ MayDelete
  /\ Deleting = {}
  /\ Begin(w)
  /\ tree' = [tree EXCEPT ![w] = committed \cup {next}]
  /\ Goto(w, "list")
  /\ UNCHANGED <<database, cache, loading, faults>>

\* Redis.set in the transaction.
SetInTransaction(w) ==
  /\ pc[w] = "list"
  /\ cache' = tree[w]
  /\ Goto(w, "open")
  /\ UNCHANGED <<database, next, change, tree, loading, faults>>

\* The batch is committed, with what it has exported; the views are refreshed.
CommitDelete(w) ==
  /\ pc[w] = "open"
  /\ committed' = committed \cup {change[w]}
  /\ missing' = missing \ tree[w]
  /\ lost' = FALSE
  /\ Goto(w, "export")
  /\ UNCHANGED <<next, change, tree, cache, loading, faults>>

\* Another operation of the batch fails.
RollbackDelete(w) ==
  /\ pc[w] = "open"
  /\ End(w)
  /\ UNCHANGED <<database, next, cache, loading, faults>>

\* rebuild_inherited_attributes, which waits for the hierarchy view.
Export(w) ==
  /\ pc[w] = "export"
  /\ Deleting = {}
  /\ missing' = {}
  /\ lost' = FALSE
  /\ Goto(w, "rebuild")
  /\ UNCHANGED <<committed, next, change, tree, cache, loading, faults>>

\* rebuild_hierarchy_cache: the query.
Read(w) ==
  /\ pc[w] = "rebuild"
  /\ tree' = [tree EXCEPT ![w] = Listed]
  /\ Goto(w, "set")
  /\ UNCHANGED <<database, next, change, cache, loading, faults>>

\* rebuild_hierarchy_cache: Redis.set.
Set(w) ==
  /\ pc[w] = "set"
  /\ cache' = tree[w]
  /\ End(w)
  /\ UNCHANGED <<database, next, loading, faults>>

\* What is committed is not refreshed: a deadlock is swallowed, and the
\* refresh of the batch's other types goes on; or the request ends, with its
\* server, with an error of Redis or Postgres, with the exception that cuts a
\* can_fail batch short (503), or because _process takes the committed batch
\* for one that was rolled back and has no events.
Lose(w) ==
  /\ pc[w] \in {"export", "rebuild", "set"}
  /\ faults < MaxFaults
  /\ faults' = faults + 1
  /\ lost' = (lost \/ pc[w] = "export")
  /\ \/ End(w)
     \/ /\ pc[w] = "export"
        /\ Goto(w, "rebuild")
        /\ UNCHANGED <<change, tree>>
  /\ UNCHANGED <<committed, missing, next, cache, loading>>

\* Mutant: the entry is kept without a ttl.
Expire_Never ==
  /\ FALSE
  /\ UNCHANGED vars

\* The entry has a ttl of an hour.
Expire ==
  /\ MayExpire
  /\ cache # NULL
  /\ cache' = NULL
  /\ UNCHANGED <<writing, loading, faults>>
-----------------------------------------------------------------------------
\* get_folder_list: join the task there is, or create one.
List(r) ==
  /\ waiting[r] = NULL
  /\ \/ /\ current # NULL
        /\ waiting' = [waiting EXCEPT ![r] = current]
        /\ UNCHANGED <<task, current>>
     \/ /\ current = NULL
        /\ \E t \in Tasks :
             /\ task[t] = NoTask
             /\ task' = [task EXCEPT ![t].stage = "get"]
             /\ current' = t
             /\ waiting' = [waiting EXCEPT ![r] = t]
  /\ UNCHANGED <<writing, cache, faults>>

\* _load_folders: Redis.get.
LoadCached(t) ==
  /\ task[t].stage = "get"
  /\ task' = [task EXCEPT ![t] = IF cache = NULL
                                 THEN [stage |-> "query", tree |-> {}]
                                 ELSE [stage |-> "done", tree |-> {}]]
  /\ UNCHANGED <<writing, cache, current, waiting, faults>>

\* There is no list: the task calls rebuild_hierarchy_cache, and exports
\* nothing.
LoadTree(t) ==
  /\ task[t].stage = "query"
  /\ task' = [task EXCEPT ![t] = [stage |-> "set", tree |-> Listed]]
  /\ UNCHANGED <<writing, cache, current, waiting, faults>>

StoreTree(t) ==
  /\ task[t].stage = "set"
  /\ cache' = task[t].tree
  /\ task' = [task EXCEPT ![t] = [stage |-> "done", tree |-> {}]]
  /\ UNCHANGED <<writing, current, waiting, faults>>

\* Redis or Postgres is not available.
LoadFails(t) ==
  /\ task[t].stage \in {"get", "query", "set"}
  /\ faults < MaxFaults
  /\ faults' = faults + 1
  /\ task' = [task EXCEPT ![t] = [stage |-> "failed", tree |-> {}]]
  /\ UNCHANGED <<writing, cache, current, waiting>>

\* A reader leaves its task, which nothing refers to after the last one.
LeaveTask(r, cur) ==
  /\ current' = cur
  /\ waiting' = [waiting EXCEPT ![r] = NULL]
  /\ task' = [t \in Tasks |-> IF t # cur /\ Waiters(t) \subseteq {r}
                              THEN NoTask ELSE task[t]]

\* Mutant: only the readers of the task in _current_futures go on.
Return_Current(r) ==
  /\ waiting[r] # NULL
  /\ waiting[r] = current
  /\ task[waiting[r]].stage = "done"
  /\ LeaveTask(r, NULL)
  /\ UNCHANGED <<writing, cache, faults>>

\* The task is done: whichever task is in _current_futures is taken out.
Return(r) ==
  /\ waiting[r] # NULL
  /\ task[waiting[r]].stage = "done"
  /\ LeaveTask(r, NULL)
  /\ UNCHANGED <<writing, cache, faults>>

\* The task has failed: its exception is raised by the await.
Raise(r) ==
  /\ waiting[r] # NULL
  /\ task[waiting[r]].stage = "failed"
  /\ LeaveTask(r, current)
  /\ UNCHANGED <<writing, cache, faults>>

Write(w) ==
  \/ Update(w) \/ Delete(w) \/ SetInTransaction(w) \/ CommitDelete(w)
  \/ RollbackDelete(w) \/ UpdateTask(w) \/ Export(w) \/ Read(w) \/ Set(w)

Load(t) == LoadCached(t) \/ LoadTree(t) \/ StoreTree(t)

Next ==
  \/ \E w \in Writers : Write(w) \/ Lose(w)
  \/ Expire
  \/ \E r \in Readers : List(r) \/ Return(r) \/ Raise(r)
  \/ \E t \in Tasks : Load(t) \/ LoadFails(t)

Spec == Init /\ [][Next]_vars

\* The server goes on with a request once it has begun, the loop runs the tasks
\* and wakes those who await them, and Redis keeps its ttl.
FairSpec ==
  /\ Spec
  /\ \A w \in Writers : WF_vars(pc[w] # "idle" /\ Write(w))
  /\ \A t \in Tasks : WF_vars(Load(t))
  /\ \A r \in Readers : WF_vars(Return(r)) /\ WF_vars(Raise(r))
  /\ WF_vars(Expire)
-----------------------------------------------------------------------------
\* Types of the variables; a reader awaits a task there is.
TypeOK ==
  /\ committed \in Trees
  /\ missing \in SUBSET committed
  /\ lost \in BOOLEAN
  /\ next \in 1..(MaxChanges + 1)
  /\ cache \in Trees \cup {NULL}
  /\ pc \in [Writers -> {"idle", "list", "open", "export", "rebuild", "set"}]
  /\ change \in [Writers -> 0..MaxChanges]
  /\ tree \in [Writers -> Trees]
  /\ task \in [Tasks -> [stage : {"none", "get", "query", "set", "done", "failed"},
                         tree : Trees]]
  /\ current \in Tasks \cup {NULL}
  /\ waiting \in [Readers -> Tasks \cup {NULL}]
  /\ \A r \in Readers : waiting[r] # NULL => task[waiting[r]] # NoTask
  /\ faults \in 0..MaxFaults

\* A list that is out of date does not stay: its ttl runs out, and whoever
\* rebuilds it then sees the changes, but those of folders that no refresh has
\* exported.  Such changes stay missing only after a refresh was lost, and only
\* until the next one of any folder: no other request's refresh exports less
\* than what is committed.
EventuallyCurrent ==
  <>[](/\ cache \in {NULL, Listed}
       /\ missing # {} => lost)

\* Every request to list the folders is answered, though readers take one
\* another's tasks out of the loader.
EveryListAnswered == \A r \in Readers : waiting[r] # NULL ~> waiting[r] = NULL
=============================================================================
