------------------------------ MODULE Project ------------------------------
(***************************************************************************)
(* The record of a project: how requests load it through the coalescer and *)
(* the cache in Redis, patch it, save it in a transaction, and how its     *)
(* attributes are exported to its folders and the list of the projects is  *)
(* rebuilt.  Translated from ayon_server/entities/project.py,              *)
(* helpers/inherited_attributes.py, helpers/project_list.py, and the       *)
(* endpoints and helpers that load and save projects.                      *)
(*                                                                         *)
(* One server process.  A record has the attributes and the other data of  *)
(* its row, and auxiliary tables, of which two stand for the five there    *)
(* are: each is read and written by statements of its own.                 *)
(* RequestCoalescer has a module of its own: here a load that is under way *)
(* is joined.  Postgres is external: READ COMMITTED, row locks, and the    *)
(* exclusive lock of REFRESH MATERIALIZED VIEW, both held to the end of a  *)
(* transaction.                                                            *)
(***************************************************************************)
EXTENDS Naturals, FiniteSets

CONSTANTS
  Requests,     \* requests in progress
  Projects,
  Values,       \* what a field may hold
  Menu,         \* what the requests may be
  Initial,      \* the initial value of every field
  MaxFailures,  \* bound: transactions that are rolled back
  NULL

\* Auxiliary tables: folder_types, statuses and so on.
Tables == {"types", "statuses"}
Fields == {"attrib", "data"} \cup Tables

\* What the statements of _load read, each of them.
Parts == {{"attrib", "data"}, {"types"}, {"statuses"}}

Record == [Fields -> Values]

\* patch: update_project, set_project_anatomy.  locked: GuestUsers.add,
\* freeze_project_bundle.  read: get_project.  folder: a change of a folder.
Kinds == {"patch", "locked", "read", "folder"}

Request ==
  [kind : Kinds, project : Projects, field : Fields, value : Values]

ASSUME ProjectAssumption ==
  /\ Menu \subseteq [Requests -> Request]
  /\ Initial \in Values
  /\ NULL \notin Requests \cup Values \cup Record \cup [Projects -> Values]
  /\ MaxFailures \in Nat

VARIABLES
  request,   \* what each request is
  pc,        \* where it is
  holds,     \* the request whose load has made the entity it holds
  object,    \* the entity each load has made
  loads,     \* the load under way for each project
  original,  \* ProjectEntity.original_attributes, one for the whole process
  cache,     \* project-data in Redis
  rows,      \* public.projects and the tables of the projects, committed
  owner,     \* the transaction that holds the lock of each row
  written,   \* the record each transaction writes
  view,      \* the transaction that holds the lock of the hierarchy view
  export,    \* the attributes each transaction exports; NULL for none
  exported,  \* exported_attributes of the root folders, committed
  versions,  \* history: the records each project has had
  list,      \* project-list in Redis: what it says of each project
  seen,      \* the list each save has read and not stored yet
  raced,     \* history: saves overlapped, or one was rolled back, when they
             \* built the list, and none has begun to build it alone since
  failures   \* history: transactions rolled back

database == <<rows, owner, written, view, export, exported, versions>>
memory == <<holds, object, loads, original>>
lists == <<list, raced>>
vars == <<request, pc, memory, cache, database, lists, seen, failures>>
-----------------------------------------------------------------------------
InProgress == {r \in Requests : pc[r] \notin {"new", "done"}}

ProjectOf(r) == request[r].project

Goto(r, label) == pc' = [pc EXCEPT ![r] = label]

Is(r, kinds, label) == request[r].kind \in kinds /\ pc[r] = label

Patched(r, record) == [record EXCEPT ![request[r].field] = request[r].value]

\* The transactions that have read the list.
Listing == {r \in Requests : pc[r] \in {"store list", "end"}}

Init ==
  /\ request \in Menu
  /\ pc = [r \in Requests |-> "new"]
  /\ holds = [r \in Requests |-> NULL]
  /\ object = [r \in Requests |-> NULL]
  /\ loads = [p \in Projects |-> NULL]
  /\ original = NULL
  /\ cache = [p \in Projects |-> NULL]
  /\ rows = [p \in Projects |-> [f \in Fields |-> Initial]]
  /\ owner = [p \in Projects |-> NULL]
  /\ written = [r \in Requests |-> NULL]
  /\ view = [p \in Projects |-> NULL]
  /\ export = [r \in Requests |-> NULL]
  /\ exported = [p \in Projects |-> Initial]
  /\ versions = [p \in Projects |-> {rows[p]}]
  /\ list = [p \in Projects |-> Initial]
  /\ seen = [r \in Requests |-> NULL]
  /\ raced = FALSE
  /\ failures = 0

\* Mutant: the lock of the row outlives the transaction.
Release_KeepsRow(r) ==
  /\ view' = [p \in Projects |-> IF view[p] = r THEN NULL ELSE view[p]]
  /\ written' = [written EXCEPT ![r] = NULL]
  /\ export' = [export EXCEPT ![r] = NULL]
  /\ seen' = [seen EXCEPT ![r] = NULL]
  /\ Goto(r, "done")
  /\ UNCHANGED owner

\* The transaction is over, and its locks are released.
Release(r) ==
  /\ owner' = [p \in Projects |-> IF owner[p] = r THEN NULL ELSE owner[p]]
  /\ view' = [p \in Projects |-> IF view[p] = r THEN NULL ELSE view[p]]
  /\ written' = [written EXCEPT ![r] = NULL]
  /\ export' = [export EXCEPT ![r] = NULL]
  /\ seen' = [seen EXCEPT ![r] = NULL]
  /\ Goto(r, "done")
-----------------------------------------------------------------------------
(* ProjectEntity.load without for_update *)

\* A request without a lock begins a load, or joins the one under way.
Load(r) ==
  LET p == ProjectOf(r)
      leader == IF loads[p] = NULL THEN r ELSE loads[p].leader
  IN  /\ Is(r, {"patch", "read"}, "new")
      /\ Goto(r, "loading")
      /\ holds' = [holds EXCEPT ![r] = leader]
      /\ loads' = IF loads[p] # NULL THEN loads
                  ELSE [loads EXCEPT ![p] =
                          [leader |-> r, at |-> "cache", value |-> NULL]]
      /\ UNCHANGED <<request, object, original, cache, database, lists, seen,
                     failures>>

\* _load looks into the cache.
LookUp(p) ==
  /\ loads[p] # NULL
  /\ loads[p].at = "cache"
  /\ IF cache[p] = NULL
     THEN /\ loads' = [loads EXCEPT ![p].at = "row"]
          /\ UNCHANGED object
     ELSE /\ loads' = [loads EXCEPT ![p].at = "done"]
          /\ object' = [object EXCEPT ![loads[p].leader] = cache[p]]
  /\ UNCHANGED <<request, pc, holds, original, cache, database, lists, seen,
                 failures>>

\* It reads the row.  What the value has of the tables is replaced below.
SelectRow(p) ==
  /\ loads[p] # NULL
  /\ loads[p].at = "row"
  /\ loads' = [loads EXCEPT ![p] =
                [leader |-> @.leader, at |-> "types", value |-> rows[p]]]
  /\ UNCHANGED <<request, pc, holds, object, original, cache, database, lists,
                 seen, failures>>

\* It reads the tables, in no transaction: commits may come in between.
SelectTable(p) ==
  /\ loads[p] # NULL
  /\ loads[p].at \in Tables
  /\ LET table == loads[p].at
         next  == IF table = "types" THEN "statuses" ELSE "store"
     IN  loads' = [loads EXCEPT ![p] =
                    [leader |-> @.leader, at |-> next,
                     value |-> [@.value EXCEPT ![table] = rows[p][table]]]]
  /\ UNCHANGED <<request, pc, holds, object, original, cache, database, lists,
                 seen, failures>>

\* It keeps what it has read, for the process and in the cache.
Store(p) ==
  /\ loads[p] # NULL
  /\ loads[p].at = "store"
  /\ loads' = [loads EXCEPT ![p].at = "done"]
  /\ object' = [object EXCEPT ![loads[p].leader] = loads[p].value]
  /\ original' = loads[p].value.attrib
  /\ cache' = [cache EXCEPT ![p] = loads[p].value]
  /\ UNCHANGED <<request, pc, holds, database, lists, seen, failures>>

\* The load is forgotten when the last of those who have joined it goes on.
Forget(r) ==
  LET p == ProjectOf(r)
      others == {q \in Requests \ {r} : pc[q] = "loading" /\ holds[q] = holds[r]}
  IN  loads' = IF others = {} THEN [loads EXCEPT ![p] = NULL] ELSE loads

Loaded(r) == pc[r] = "loading" /\ object[holds[r]] # NULL

\* The answer of get_project.  (It adds defaults, the same for every project, to
\* the config of the entity it shares with those who have joined the load.)
Answer(r) ==
  /\ request[r].kind = "read"
  /\ Loaded(r)
  /\ Forget(r)
  /\ Goto(r, "done")
  /\ UNCHANGED <<request, holds, object, original, cache, database, lists, seen,
                 failures>>

\* update_project: the entity is patched, and save begins a transaction.
Patch(r) ==
  /\ request[r].kind = "patch"
  /\ Loaded(r)
  /\ Forget(r)
  /\ Goto(r, "send")
  /\ object' = [object EXCEPT ![holds[r]] = Patched(r, @)]
  /\ UNCHANGED <<request, holds, original, cache, database, lists, seen, failures>>
-----------------------------------------------------------------------------
(* ProjectEntity.load with for_update, in the transaction of the caller *)

\* Mutant: the row is read and not locked.
LoadLocked_NoLock(r) ==
  LET p == ProjectOf(r)
  IN  /\ Is(r, {"locked"}, "new")
      /\ Goto(r, "locked")
      /\ holds' = [holds EXCEPT ![r] = r]
      /\ object' = [object EXCEPT ![r] = rows[p]]
      /\ UNCHANGED <<request, loads, original, cache, database, lists, seen,
                     failures>>

\* FOR UPDATE NOWAIT.  Whoever writes the tables has updated the row before: once
\* the row is locked they do not change, and locking them as well waits for
\* nobody.
LoadLocked(r) ==
  LET p == ProjectOf(r)
  IN  /\ Is(r, {"locked"}, "new")
      /\ IF owner[p] # NULL
         THEN /\ Goto(r, "done")
              /\ UNCHANGED <<holds, object, owner>>
         ELSE /\ Goto(r, "locked")
              /\ holds' = [holds EXCEPT ![r] = r]
              /\ object' = [object EXCEPT ![r] = rows[p]]
              /\ owner' = [owner EXCEPT ![p] = r]
      /\ UNCHANGED <<request, loads, original, cache, rows, written, view,
                     export, exported, versions, lists, seen, failures>>

\* The same end of _load; then the caller changes the entity and saves it.
StoreLocked(r) ==
  LET p == ProjectOf(r)
  IN  /\ Is(r, {"locked"}, "locked")
      /\ Goto(r, "send")
      /\ original' = object[r].attrib
      /\ cache' = [cache EXCEPT ![p] = object[r]]
      /\ object' = [object EXCEPT ![r] = Patched(r, @)]
      /\ UNCHANGED <<request, holds, loads, database, lists, seen, failures>>

\* The same, but the caller raises an exception: the guest user exists already.
Refuse(r) ==
  /\ Is(r, {"locked"}, "locked")
  /\ original' = object[r].attrib
  /\ cache' = [cache EXCEPT ![ProjectOf(r)] = object[r]]
  /\ Release(r)
  /\ UNCHANGED <<request, holds, object, loads, rows, exported, versions, lists,
                 failures>>
-----------------------------------------------------------------------------
(* ProjectEntity.save *)

\* The fields of the row are taken from the entity when the UPDATE is sent.
Send(r) ==
  /\ pc[r] = "send"
  /\ Goto(r, "update")
  /\ written' = [written EXCEPT ![r] = object[holds[r]]]
  /\ UNCHANGED <<request, memory, cache, rows, owner, view, export, exported,
                 versions, lists, seen, failures>>

\* The UPDATE waits for the row; the comparison is made with the attributes that
\* some load has read last.
Update(r) ==
  LET p == ProjectOf(r)
  IN  /\ pc[r] = "update"
      /\ owner[p] \in {NULL, r}
      /\ owner' = [owner EXCEPT ![p] = r]
      /\ Goto(r, IF original # written[r].attrib THEN "rebuild" ELSE "types")
      /\ UNCHANGED <<request, memory, cache, rows, written, view, export,
                     exported, versions, lists, seen, failures>>

\* rebuild_inherited_attributes, which begins with a refresh of the view.
Rebuild(r) ==
  LET p == ProjectOf(r)
  IN  /\ pc[r] = "rebuild"
      /\ view[p] = NULL
      /\ view' = [view EXCEPT ![p] = r]
      /\ export' = [export EXCEPT ![r] = written[r].attrib]
      /\ Goto(r, "types")
      /\ UNCHANGED <<request, memory, cache, rows, owner, written, exported,
                     versions, lists, seen, failures>>

\* aux_table_update, with what the entity has by now.
SaveTable(r) ==
  LET table == pc[r]
  IN  /\ table \in Tables
      /\ written' = [written EXCEPT ![r] =
                      [@ EXCEPT ![table] = object[holds[r]][table]]]
      /\ Goto(r, IF table = "types" THEN "statuses" ELSE "commit")
      /\ UNCHANGED <<request, memory, cache, rows, owner, view, export, exported,
                     versions, lists, seen, failures>>

\* ProjectEntity.commit, inside the transaction.
Invalidate(r) ==
  /\ pc[r] = "commit"
  /\ Goto(r, "list")
  /\ cache' = [cache EXCEPT ![ProjectOf(r)] = NULL]
  /\ UNCHANGED <<request, memory, database, lists, seen, failures>>

\* Mutant: the list is read by a connection of its own, which does not see what
\* the transaction has written.
BuildList_Outside(r) ==
  /\ pc[r] = "list"
  /\ Goto(r, "store list")
  /\ seen' = [seen EXCEPT ![r] = [p \in Projects |-> rows[p].data]]
  /\ raced' = (raced /\ Listing # {})
  /\ UNCHANGED <<request, memory, cache, database, list, failures>>

\* build_project_list: the query, which sees what the transaction has written.
BuildList(r) ==
  /\ pc[r] = "list"
  /\ Goto(r, "store list")
  /\ seen' = [seen EXCEPT ![r] =
               [p \in Projects |-> IF p = ProjectOf(r) THEN written[r].data
                                   ELSE rows[p].data]]
  /\ raced' = (raced /\ Listing # {})
  /\ UNCHANGED <<request, memory, cache, database, list, failures>>

\* build_project_list: Redis.set_json, without a ttl and before the commit.
StoreList(r) ==
  /\ pc[r] = "store list"
  /\ Goto(r, "end")
  /\ list' = seen[r]
  /\ UNCHANGED <<request, memory, cache, database, raced, seen, failures>>

Commit(r) ==
  LET p == ProjectOf(r)
  IN  /\ pc[r] = "end"
      /\ rows' = [rows EXCEPT ![p] = written[r]]
      /\ versions' = [versions EXCEPT ![p] = @ \cup {written[r]}]
      /\ exported' = IF export[r] = NULL THEN exported
                     ELSE [exported EXCEPT ![p] = export[r]]
      /\ raced' = (raced \/ Listing # {r})
      /\ Release(r)
      /\ UNCHANGED <<request, memory, cache, list, failures>>

\* The tables of types, statuses and tags cannot be updated, after which the
\* query of the list fails as well; or Redis or the caller's transaction fails.
Rollback(r) ==
  /\ pc[r] \in {"list", "store list", "end"}
  /\ failures < MaxFailures
  /\ failures' = failures + 1
  /\ raced' = (raced \/ r \in Listing)
  /\ Release(r)
  /\ UNCHANGED <<request, memory, cache, rows, exported, versions, list>>
-----------------------------------------------------------------------------
(* A change of a folder ends with rebuild_inherited_attributes *)

\* The refresh waits for the view; then the attributes are read.
Crawl(r) ==
  LET p == ProjectOf(r)
  IN  /\ Is(r, {"folder"}, "new")
      /\ view[p] = NULL
      /\ view' = [view EXCEPT ![p] = r]
      /\ export' = [export EXCEPT ![r] = rows[p].attrib]
      /\ Goto(r, "export")
      /\ UNCHANGED <<request, memory, cache, rows, owner, written, exported,
                     versions, lists, seen, failures>>

Export(r) ==
  /\ pc[r] = "export"
  /\ exported' = [exported EXCEPT ![ProjectOf(r)] = export[r]]
  /\ Release(r)
  /\ UNCHANGED <<request, memory, cache, rows, versions, lists, failures>>

\* What goes on by itself once it has begun.
Proceed(r) ==
  \/ Answer(r) \/ Patch(r) \/ StoreLocked(r) \/ Refuse(r)
  \/ Send(r) \/ Update(r) \/ Rebuild(r) \/ SaveTable(r)
  \/ Invalidate(r) \/ BuildList(r) \/ StoreList(r) \/ Commit(r) \/ Export(r)

Begin(r) == Load(r) \/ LoadLocked(r) \/ Crawl(r)

LoadStep(p) == LookUp(p) \/ SelectRow(p) \/ SelectTable(p) \/ Store(p)

\* The entry of the cache has not been renewed for an hour.
Expire(p) ==
  /\ cache[p] # NULL
  /\ cache' = [cache EXCEPT ![p] = NULL]
  /\ UNCHANGED <<request, pc, memory, database, lists, seen, failures>>

Next ==
  \/ \E r \in Requests : Begin(r) \/ Proceed(r) \/ Rollback(r)
  \/ \E p \in Projects : LoadStep(p) \/ Expire(p)

Spec == Init /\ [][Next]_vars

\* The server goes on with what has begun.
FairSpec ==
  /\ Spec
  /\ \A r \in Requests : WF_vars(Proceed(r))
  /\ \A p \in Projects : WF_vars(LoadStep(p))
-----------------------------------------------------------------------------
Labels ==
  {"new", "loading", "locked", "send", "update", "rebuild", "types", "statuses",
   "commit", "list", "store list", "end", "export", "done"}

\* A transaction has its row from the UPDATE on, or from the load for update.
Open ==
  {"locked", "send", "update", "rebuild", "types", "statuses", "commit", "list",
   "store list", "end"}

ListTypes ==
  /\ list \in [Projects -> Values]
  /\ seen \in [Requests -> [Projects -> Values] \cup {NULL}]
  /\ raced \in BOOLEAN

\* Types, and who holds the locks.
TypeOK ==
  /\ request \in [Requests -> Request]
  /\ pc \in [Requests -> Labels]
  /\ holds \in [Requests -> Requests \cup {NULL}]
  /\ object \in [Requests -> Record \cup {NULL}]
  /\ original \in Values \cup {NULL}
  /\ cache \in [Projects -> Record \cup {NULL}]
  /\ rows \in [Projects -> Record]
  /\ owner \in [Projects -> Requests \cup {NULL}]
  /\ written \in [Requests -> Record \cup {NULL}]
  /\ view \in [Projects -> Requests \cup {NULL}]
  /\ export \in [Requests -> Values \cup {NULL}]
  /\ exported \in [Projects -> Values]
  /\ ListTypes
  /\ failures \in 0..MaxFailures
  /\ \A p \in Projects :
       /\ loads[p] # NULL =>
            /\ loads[p].leader \in Requests
            /\ loads[p].at \in {"cache", "row", "types", "statuses", "store", "done"}
            /\ loads[p].value \in Record \cup {NULL}
       /\ owner[p] # NULL => pc[owner[p]] \in Open
       /\ view[p] # NULL => export[view[p]] # NULL

\* What the process and Redis are given of a project outside of the transactions
\* that save it, which write to Redis while they are open.
\*
\* project-data: what each statement of _load has read was committed, though the
\* parts may be of several commits.
CacheCommitted ==
  \A p \in Projects : cache[p] # NULL =>
    \A part \in Parts : \E v \in versions[p] : \A f \in part : cache[p][f] = v[f]

\* exported_attributes: what folders inherit was committed.
ExportCommitted ==
  \A p \in Projects : \E v \in versions[p] : exported[p] = v.attrib

\* project-list: it is written before the commit, and never expires.  Still it is
\* what is committed when no save has its commit ahead of it, but for two cases: a
\* save that was rolled back afterwards, or saves of two projects that overlapped.
\* What is wrong then lasts until a save builds the list alone.
ListCurrent ==
  Listing = {} /\ ~ raced => list = [p \in Projects |-> rows[p].data]

\* The copies of a record tell of commits only, with the exceptions above.
CopiesOfCommits == CacheCommitted /\ ExportCommitted /\ ListCurrent

\* A request that locks the record changes its own field and nothing else, next
\* to whatever other requests load and save: it undoes no update.
LockedKeepsTheRest ==
  [][\A r \in Requests :
       Is(r, {"locked"}, "end") /\ rows' # rows /\ pc'[r] = "done" =>
         rows' = [rows EXCEPT ![ProjectOf(r)] = Patched(r, @)]]_vars

\* Every request that has begun ends: nobody waits for ever for a row, the view
\* or a load that others have begun.
EveryRequestEnds ==
  \A r \in Requests : r \in InProgress ~> pc[r] = "done"
=============================================================================
