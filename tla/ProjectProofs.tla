---------------------------- MODULE ProjectProofs ----------------------------
(***************************************************************************)
(* Theorems about Project, for any requests, projects, values and numbers  *)
(* of transactions that are rolled back.                                   *)
(***************************************************************************)
EXTENDS Project, TLAPS

-----------------------------------------------------------------------------
(* The inductive invariant *)

\* From the patch on a request holds the entity; its statements have been sent
\* since "update", have the row since "rebuild", and what they export is known
\* since "types".
Holding ==
  {"send", "update", "rebuild", "types", "statuses", "commit", "list", "store list",
   "end"}
Saving ==
  {"update", "rebuild", "types", "statuses", "commit", "list", "store list", "end"}
Updated ==
  {"rebuild", "types", "statuses", "commit", "list", "store list", "end"}
Exporting == {"types", "statuses", "commit", "list", "store list", "end"}

\* Where a load has read the row.
Reading == {"types", "statuses", "store"}

LoadRecord ==
  [leader : Requests, at : {"cache", "row", "types", "statuses", "store", "done"},
   value : Record \cup {NULL}]

\* What TypeOK leaves out: loads and versions are functions, and a load is led by
\* a request that takes no lock.
ShapeOK ==
  /\ loads \in [Projects -> LoadRecord \cup {NULL}]
  /\ versions \in [Projects -> SUBSET Record]
  /\ \A p \in Projects : loads[p] # NULL =>
       request[loads[p].leader].kind \in {"patch", "read"}

\* Where a request is fits to what it is, what it holds and what it has locked.
StageOK(r) ==
  /\ pc[r] = "loading" =>
       /\ request[r].kind \in {"patch", "read"}
       /\ holds[r] \in Requests
       /\ request[holds[r]].kind \in {"patch", "read"}
  /\ pc[r] = "locked" => request[r].kind = "locked" /\ object[r] \in Record
  /\ pc[r] \in Holding =>
       holds[r] \in Requests /\ object[holds[r]] \in Record
  /\ pc[r] \in Saving => written[r] \in Record
  /\ pc[r] \in Updated => owner[ProjectOf(r)] = r
  /\ pc[r] = "store list" => seen[r] \in [Projects -> Values]
  /\ pc[r] \in Holding => request[r].kind \in {"patch", "locked"}
  /\ pc[r] = "export" => request[r].kind = "folder" /\ export[r] # NULL

\* A request with a lock has the row as it is committed, with its own change.
LockedOK(r) ==
  request[r].kind = "locked" =>
    /\ pc[r] = "locked" \/ pc[r] \in Holding => owner[ProjectOf(r)] = r
    /\ pc[r] = "locked" => holds[r] = r /\ object[r] = rows[ProjectOf(r)]
    /\ pc[r] \in Holding =>
         holds[r] = r /\ object[r] = Patched(r, rows[ProjectOf(r)])
    /\ pc[r] \in Saving => written[r] = Patched(r, rows[ProjectOf(r)])

\* What a transaction exports are its own attributes, or committed ones.
ExportOK(r) ==
  export[r] # NULL =>
    \/ /\ pc[r] \in Exporting
       /\ export[r] = written[r].attrib
    \/ /\ pc[r] = "export"
       /\ \E v \in versions[ProjectOf(r)] : export[r] = v.attrib

RequestsOK == \A r \in Requests : StageOK(r) /\ LockedOK(r) /\ ExportOK(r)

\* Each part of a record was committed.
FromCommits(p, record) ==
  \A part \in Parts : \E v \in versions[p] : \A f \in part : record[f] = v[f]

\* What is read from the tables was committed, each part of it.
ReadOK ==
  \A p \in Projects :
    /\ rows[p] \in versions[p]
    /\ loads[p] # NULL /\ loads[p].at \in Reading =>
         loads[p].value \in Record /\ FromCommits(p, loads[p].value)

Committed == CacheCommitted /\ ExportCommitted

Inv == TypeOK /\ ShapeOK /\ RequestsOK /\ ReadOK /\ Committed

\* The list as it would be if r committed now.
ListAfter(r) ==
  [p \in Projects |-> IF p = ProjectOf(r) THEN written[r].data ELSE rows[p].data]

\* A save that builds the list alone has the list as it is after its commit.
AloneOK(r) ==
  Listing = {r} =>
    /\ pc[r] = "store list" => seen[r] = ListAfter(r)
    /\ pc[r] = "end" => list = ListAfter(r)

\* Unless saves have raced, that is so, and then the list is what is committed.
ListOK == ListCurrent /\ (~ raced => \A r \in Requests : AloneOK(r))
-----------------------------------------------------------------------------
(* Facts about values *)

\* NULL is none of the things it stands for the lack of.
LEMMA NULLs ==
  /\ NULL \notin Requests /\ NULL \notin Values
  /\ NULL \notin Record /\ NULL \notin [Projects -> Values]
BY ProjectAssumption DEF ProjectAssumption

\* The project of a request is one, and so on.
LEMMA RequestParts ==
  ASSUME TypeOK, NEW r \in Requests
  PROVE  /\ ProjectOf(r) \in Projects
         /\ request[r] \in Request
         /\ request[r].field \in Fields
         /\ request[r].value \in Values
         /\ \A v \in Record : Patched(r, v) \in Record
BY ProjectAssumption
   DEF ProjectAssumption, TypeOK, Request, Record, Patched, ProjectOf

\* A load goes on.
LEMMA LoadGoesOn ==
  ASSUME NEW l \in LoadRecord, NEW at
  PROVE  [l EXCEPT !.at = at] = [leader |-> l.leader, at |-> at, value |-> l.value]
BY DEF LoadRecord

\* The attributes of a record are a value.
LEMMA Attributes ==
  ASSUME NEW v \in Record
  PROVE  v.attrib \in Values /\ v.attrib # NULL /\ v # NULL
BY ProjectAssumption DEF ProjectAssumption, Record, Fields

\* A transaction that ends holds no lock, and takes none from others.
LEMMA ReleaseLeaves ==
  ASSUME TypeOK, NEW r \in Requests, Release(r)
  PROVE  /\ pc' \in [Requests -> Labels]
         /\ pc'[r] = "done"
         /\ \A q \in Requests : q # r =>
              pc'[q] = pc[q] /\ written'[q] = written[q] /\ export'[q] = export[q]
         /\ export'[r] = NULL
         /\ owner' \in [Projects -> Requests \cup {NULL}]
         /\ view' \in [Projects -> Requests \cup {NULL}]
         /\ written' \in [Requests -> Record \cup {NULL}]
         /\ export' \in [Requests -> Values \cup {NULL}]
         /\ seen' \in [Requests -> [Projects -> Values] \cup {NULL}]
         /\ \A q \in Requests : q # r => seen'[q] = seen[q]
         /\ \A p \in Projects :
              /\ owner'[p] # r /\ view'[p] # r
              /\ \A q \in Requests : q # r => (owner'[p] = q <=> owner[p] = q)
              /\ owner'[p] # NULL => owner'[p] = owner[p]
              /\ view'[p] # NULL => view'[p] = view[p]
<1>1. /\ pc \in [Requests -> Labels]
      /\ owner \in [Projects -> Requests \cup {NULL}]
      /\ view \in [Projects -> Requests \cup {NULL}]
      /\ written \in [Requests -> Record \cup {NULL}]
      /\ export \in [Requests -> Values \cup {NULL}]
      /\ seen \in [Requests -> [Projects -> Values] \cup {NULL}]
  BY DEF TypeOK, ListTypes
<1>2. "done" \in Labels
  BY DEF Labels
<1>3. /\ pc' = [pc EXCEPT ![r] = "done"]
      /\ written' = [written EXCEPT ![r] = NULL]
      /\ export' = [export EXCEPT ![r] = NULL]
      /\ seen' = [seen EXCEPT ![r] = NULL]
      /\ owner' = [p \in Projects |-> IF owner[p] = r THEN NULL ELSE owner[p]]
      /\ view' = [p \in Projects |-> IF view[p] = r THEN NULL ELSE view[p]]
  BY DEF Release, Goto
<1>4. /\ pc' \in [Requests -> Labels] /\ pc'[r] = "done" /\ export'[r] = NULL
      /\ written' \in [Requests -> Record \cup {NULL}]
      /\ export' \in [Requests -> Values \cup {NULL}]
      /\ seen' \in [Requests -> [Projects -> Values] \cup {NULL}]
      /\ \A q \in Requests : q # r =>
           /\ pc'[q] = pc[q] /\ written'[q] = written[q] /\ export'[q] = export[q]
           /\ seen'[q] = seen[q]
  BY <1>1, <1>2, <1>3
<1>5. /\ owner' \in [Projects -> Requests \cup {NULL}]
      /\ view' \in [Projects -> Requests \cup {NULL}]
      /\ \A p \in Projects :
           /\ owner'[p] # r /\ view'[p] # r
           /\ \A q \in Requests : q # r => (owner'[p] = q <=> owner[p] = q)
           /\ owner'[p] # NULL => owner'[p] = owner[p]
           /\ view'[p] # NULL => view'[p] = view[p]
  BY <1>1, <1>3, NULLs
<1>. QED  BY <1>4, <1>5

\* The transaction that has the row stays open, also where a request that has
\* none goes on.
LEMMA OwnersStay ==
  ASSUME TypeOK, NEW r \in Requests, NEW l \in Labels,
         pc' = [pc EXCEPT ![r] = l],
         owner' \in [Projects -> Requests \cup {NULL}],
         \A p \in Projects : owner'[p] \in {owner[p], r},
         l \in Open \/ (pc[r] \notin Open /\ owner' = owner)
  PROVE  /\ pc' \in [Requests -> Labels]
         /\ \A p \in Projects : owner'[p] # NULL => pc'[owner'[p]] \in Open
<1>1. /\ pc \in [Requests -> Labels]
      /\ \A p \in Projects : owner[p] # NULL => pc[owner[p]] \in Open
  BY DEF TypeOK
<1>. QED  BY <1>1

\* The same where a transaction ends.
LEMMA OwnersEnd ==
  ASSUME TypeOK, NEW r \in Requests, Release(r)
  PROVE  /\ \A p \in Projects : owner'[p] # NULL => pc'[owner'[p]] \in Open
         /\ \A p \in Projects : view'[p] # NULL => export'[view'[p]] # NULL
<1>1. /\ owner \in [Projects -> Requests \cup {NULL}]
      /\ view \in [Projects -> Requests \cup {NULL}]
      /\ \A p \in Projects : owner[p] # NULL => pc[owner[p]] \in Open
      /\ \A p \in Projects : view[p] # NULL => export[view[p]] # NULL
  BY DEF TypeOK
<1>2. ASSUME NEW p \in Projects, owner'[p] # NULL PROVE pc'[owner'[p]] \in Open
  <2>1. PICK q \in Requests : q = owner'[p] /\ q # r /\ owner[p] = q
    BY <1>1, <1>2, ReleaseLeaves
  <2>2. pc'[q] = pc[q] /\ q # NULL
    BY <2>1, ReleaseLeaves, NULLs
  <2>. QED  BY <2>1, <2>2, <1>1
<1>3. ASSUME NEW p \in Projects, view'[p] # NULL PROVE export'[view'[p]] # NULL
  <2>1. PICK q \in Requests : q = view'[p] /\ q # r /\ view[p] = q
    BY <1>1, <1>3, ReleaseLeaves
  <2>2. export'[q] = export[q] /\ q # NULL
    BY <2>1, ReleaseLeaves, NULLs
  <2>. QED  BY <2>1, <2>2, <1>1
<1>. QED  BY <1>2, <1>3

\* A record that was committed is one whose parts were.
LEMMA CommitsHaveParts ==
  ASSUME NEW p \in Projects, NEW v \in versions[p]
  PROVE  FromCommits(p, v)
BY DEF FromCommits

\* Its parts still are when the statement for a table is read from a commit.
LEMMA PartsAreReplaced ==
  ASSUME NEW p \in Projects, NEW u \in Record, NEW v \in versions[p],
         v \in Record, FromCommits(p, u), NEW table \in Tables
  PROVE  /\ [u EXCEPT ![table] = v[table]] \in Record
         /\ FromCommits(p, [u EXCEPT ![table] = v[table]])
<1>. DEFINE w == [u EXCEPT ![table] = v[table]]
<1>1. w \in Record /\ w[table] = v[table] /\ \A f \in Fields : f # table => w[f] = u[f]
  BY DEF Record, Fields, Tables
<1>2. ASSUME NEW part \in Parts
      PROVE  \E x \in versions[p] : \A f \in part : w[f] = x[f]
  <2>1. CASE part = {table}
    BY <2>1, <1>1
  <2>2. CASE part # {table}
    <3>1. part \subseteq Fields /\ table \notin part
      BY <2>2 DEF Parts, Fields, Tables
    <3>2. PICK x \in versions[p] : \A f \in part : u[f] = x[f]
      BY DEF FromCommits
    <3>. QED  BY <3>1, <3>2, <1>1
  <2>. QED  BY <2>1, <2>2
<1>. QED  BY <1>1, <1>2 DEF FromCommits

-----------------------------------------------------------------------------
(* The actions *)

\* At first there are the initial records, and no locks.
LEMMA InitInv == Init => Inv
<1>. SUFFICES ASSUME Init PROVE Inv
  OBVIOUS
<1>. USE ProjectAssumption DEF ProjectAssumption, Init
<1>1. TypeOK
  <2>1. rows \in [Projects -> Record]
    BY DEF Record
  <2>2. request \in [Requests -> Request]
    OBVIOUS
  <2>3. ListTypes
    BY DEF ListTypes
  <2>. QED  BY <2>1, <2>2, <2>3 DEF TypeOK, Labels
<1>2. ShapeOK
  BY DEF ShapeOK, Record
<1>3. RequestsOK
  BY DEF RequestsOK, StageOK, LockedOK, ExportOK, Holding, Saving, Updated, Exporting
<1>4. ReadOK
  BY DEF ReadOK
<1>5. Committed
  BY DEF Committed, CacheCommitted, ExportCommitted, Record, Fields
<1>. QED  BY <1>1, <1>2, <1>3, <1>4, <1>5 DEF Inv

\* A load begins, or is joined.
LEMMA LoadInv ==
  ASSUME Inv, NEW r \in Requests, Load(r)
  PROVE  Inv'
<1>. USE NULLs DEF Holding, Saving, Updated, Exporting, Reading
<1>1. PICK p : p = ProjectOf(r)
  OBVIOUS
<1>2. PICK leader : leader = IF loads[p] = NULL THEN r ELSE loads[p].leader
  OBVIOUS
<1>3. /\ request[r].kind \in {"patch", "read"} /\ pc[r] = "new"
      /\ pc' = [pc EXCEPT ![r] = "loading"]
      /\ holds' = [holds EXCEPT ![r] = leader]
      /\ loads' = IF loads[p] # NULL THEN loads
                  ELSE [loads EXCEPT ![p] =
                          [leader |-> r, at |-> "cache", value |-> NULL]]
      /\ UNCHANGED <<request, object, original, cache, database, lists, seen, failures>>
  BY <1>1, <1>2 DEF Load, Is, Goto
<1>4. p \in Projects /\ leader \in Requests
      /\ request[leader].kind \in {"patch", "read"}
  BY <1>1, <1>2, <1>3, RequestParts DEF Inv, TypeOK, ShapeOK, LoadRecord
<1>5. TypeOK /\ ShapeOK /\ RequestsOK /\ ReadOK /\ Committed
  BY DEF Inv
<1>0. ListTypes'
  BY <1>3, <1>5 DEF TypeOK, ListTypes, lists
<1>6. TypeOK'
  <2>1. /\ pc' \in [Requests -> Labels]
        /\ \A q \in Projects : owner'[q] # NULL => pc'[owner'[q]] \in Open
    <3>1. "loading" \in Labels /\ pc[r] \notin Open /\ owner' = owner
      BY <1>3 DEF Labels, Open, database
    <3>. QED  BY <3>1, <1>3, <1>5, OwnersStay DEF TypeOK
  <2>2. holds' \in [Requests -> Requests \cup {NULL}]
    BY <1>3, <1>4, <1>5 DEF TypeOK
  <2>3. \A q \in Projects : loads'[q] # NULL =>
          /\ loads'[q].leader \in Requests
          /\ loads'[q].at \in {"cache", "row", "types", "statuses", "store", "done"}
          /\ loads'[q].value \in Record \cup {NULL}
    BY <1>3, <1>4, <1>5 DEF TypeOK, ShapeOK
  <2>. QED  BY <1>0, <2>1, <2>2, <2>3, <1>3, <1>5 DEF TypeOK, database
<1>7. ShapeOK'
  <2>1. loads' \in [Projects -> LoadRecord \cup {NULL}]
    BY <1>3, <1>5 DEF ShapeOK, LoadRecord
  <2>. QED  BY <2>1, <1>3, <1>4, <1>5 DEF ShapeOK, LoadRecord, database
<1>8. RequestsOK'
  <2>. SUFFICES ASSUME NEW q \in Requests PROVE (StageOK(q) /\ LockedOK(q) /\ ExportOK(q))'
    BY DEF RequestsOK
  <2>1. StageOK(q) /\ LockedOK(q) /\ ExportOK(q)
    BY <1>5 DEF RequestsOK
  <2>2. CASE q = r
    BY <2>1, <2>2, <1>3, <1>4, <1>5
       DEF StageOK, LockedOK, ExportOK, Saving, database, ProjectOf, Patched, TypeOK
  <2>3. CASE q # r
    BY <2>1, <2>3, <1>3, <1>5
       DEF StageOK, LockedOK, ExportOK, Saving, database, ProjectOf, Patched, TypeOK
  <2>. QED  BY <2>2, <2>3
<1>9. ReadOK' /\ Committed'
  BY <1>3, <1>4, <1>5 DEF ReadOK, Committed, CacheCommitted, ExportCommitted,
                          FromCommits, database, ShapeOK, Tables
<1>. QED  BY <1>6, <1>7, <1>8, <1>9 DEF Inv

\* The steps of a load.
LEMMA LoadStepInv ==
  ASSUME Inv, NEW p \in Projects, LoadStep(p)
  PROVE  Inv'
<1>. USE NULLs DEF Holding, Saving, Updated, Exporting, Reading
<1>1. TypeOK /\ ShapeOK /\ RequestsOK /\ ReadOK /\ Committed
  BY DEF Inv
<1>2. PICK l \in LoadRecord : l = loads[p] /\ l # NULL
  BY <1>1 DEF LoadStep, LookUp, SelectRow, SelectTable, Store, ShapeOK
<1>3. request[l.leader].kind \in {"patch", "read"} /\ l.leader \in Requests
  BY <1>1, <1>2 DEF ShapeOK, LoadRecord
<1>4. PICK at \in {"row", "types", "statuses", "store", "done"},
            value \in Record \cup {NULL} :
        /\ loads' = [loads EXCEPT ![p] =
                       [leader |-> l.leader, at |-> at, value |-> value]]
        /\ at \in Reading => value \in Record /\ FromCommits(p, value)
        /\ \/ UNCHANGED <<object, cache, original>>
           \/ /\ UNCHANGED <<cache, original>>
              /\ \E v \in Record : object' = [object EXCEPT ![l.leader] = v]
           \/ \E v \in Record :
                /\ FromCommits(p, v)
                /\ object' = [object EXCEPT ![l.leader] = v]
                /\ original' = v.attrib
                /\ cache' = [cache EXCEPT ![p] = v]
        /\ UNCHANGED <<request, pc, holds, database, lists, seen, failures>>
  <2>1. CASE LookUp(p)
    <3>1. CASE cache[p] = NULL
      <4>1. loads' = [loads EXCEPT ![p] =
                       [leader |-> l.leader, at |-> "row", value |-> l.value]]
        BY <2>1, <3>1, <1>1, <1>2 DEF LookUp, LoadRecord, ShapeOK
      <4>. QED  BY <4>1, <2>1, <3>1, <1>2 DEF LookUp, LoadRecord, Tables
    <3>2. CASE cache[p] # NULL
      <4>1. loads' = [loads EXCEPT ![p] =
                       [leader |-> l.leader, at |-> "done", value |-> l.value]]
        BY <2>1, <3>2, <1>1, <1>2 DEF LookUp, LoadRecord, ShapeOK
      <4>2. cache[p] \in Record
        BY <3>2, <1>1 DEF TypeOK
      <4>. QED  BY <4>1, <4>2, <2>1, <3>2, <1>2 DEF LookUp, LoadRecord, Tables
    <3>. QED  BY <3>1, <3>2
  <2>2. CASE SelectRow(p)
    <3>1. loads' = [loads EXCEPT ![p] =
                       [leader |-> l.leader, at |-> "types", value |-> rows[p]]]
      BY <2>2, <1>2 DEF SelectRow
    <3>2. rows[p] \in Record /\ FromCommits(p, rows[p])
      BY <1>1, CommitsHaveParts DEF TypeOK, ReadOK
    <3>. QED  BY <3>1, <3>2, <2>2 DEF SelectRow
  <2>3. CASE SelectTable(p)
    <3>1. PICK table \in Tables, next \in {"statuses", "store"} :
            loads' = [loads EXCEPT ![p] =
                       [leader |-> l.leader, at |-> next,
                        value |-> [l.value EXCEPT ![table] = rows[p][table]]]]
      BY <2>3, <1>2 DEF SelectTable
    <3>2. l.value \in Record /\ FromCommits(p, l.value)
      BY <2>3, <1>1, <1>2 DEF SelectTable, ReadOK, Tables
    <3>3. PICK v \in Record : v = rows[p] /\ v \in versions[p]
      BY <1>1 DEF TypeOK, ReadOK
    <3>4. PICK value \in Record :
            value = [l.value EXCEPT ![table] = v[table]] /\ FromCommits(p, value)
      BY <3>2, <3>3, PartsAreReplaced
    <3>. QED  BY <3>1, <3>3, <3>4, <2>3 DEF SelectTable
  <2>4. CASE Store(p)
    <3>1. loads' = [loads EXCEPT ![p] =
                       [leader |-> l.leader, at |-> "done", value |-> l.value]]
      <4>1. loads' = [loads EXCEPT ![p] = [l EXCEPT !.at = "done"]]
        BY <2>4, <1>2 DEF Store
      <4>. QED  BY <4>1, LoadGoesOn
    <3>2. l.value \in Record /\ FromCommits(p, l.value)
      BY <2>4, <1>1, <1>2 DEF Store, ReadOK
    <3>3. /\ object' = [object EXCEPT ![l.leader] = l.value]
          /\ original' = l.value.attrib
          /\ cache' = [cache EXCEPT ![p] = l.value]
          /\ UNCHANGED <<request, pc, holds, database, lists, seen, failures>>
      BY <2>4, <1>2 DEF Store
    <3>. QED  BY <3>1, <3>2, <3>3 DEF Tables
  <2>. QED  BY <2>1, <2>2, <2>3, <2>4 DEF LoadStep
<1>6. /\ object' \in [Requests -> Record \cup {NULL}]
      /\ \A q \in Requests : object[q] \in Record => object'[q] \in Record
      /\ \A q \in Requests : request[q].kind = "locked" => object'[q] = object[q]
      /\ original' \in Values \cup {NULL}
      /\ cache' \in [Projects -> Record \cup {NULL}]
  <2>1. object' = object \/ \E v \in Record : object' = [object EXCEPT ![l.leader] = v]
    BY <1>4
  <2>2. object \in [Requests -> Record \cup {NULL}]
        /\ original \in Values \cup {NULL} /\ cache \in [Projects -> Record \cup {NULL}]
    BY <1>1 DEF TypeOK
  <2>3. /\ object' \in [Requests -> Record \cup {NULL}]
        /\ \A q \in Requests : object[q] \in Record => object'[q] \in Record
        /\ \A q \in Requests : request[q].kind = "locked" => object'[q] = object[q]
    BY <2>1, <2>2, <1>3
  <2>4. original' \in Values \cup {NULL}
    BY <2>2, <1>4, Attributes
  <2>5. cache' \in [Projects -> Record \cup {NULL}]
    BY <2>2, <1>4
  <2>. QED  BY <2>3, <2>4, <2>5
<1>7. /\ loads' \in [Projects -> LoadRecord \cup {NULL}]
      /\ loads'[p] \in LoadRecord /\ loads'[p].leader = l.leader
      /\ loads'[p].at \in Reading =>
           loads'[p].value \in Record /\ FromCommits(p, loads'[p].value)
      /\ \A q \in Projects : q # p => loads'[q] = loads[q]
  BY <1>1, <1>3, <1>4 DEF ShapeOK, LoadRecord
<1>8. ShapeOK'
  BY <1>1, <1>3, <1>4, <1>7 DEF ShapeOK, database, LoadRecord
<1>0. ListTypes'
  BY <1>1, <1>4 DEF TypeOK, ListTypes, lists
<1>9. TypeOK'
  BY <1>0, <1>1, <1>4, <1>6, <1>8 DEF TypeOK, ShapeOK, LoadRecord, database
<1>10. RequestsOK'
  <2>. SUFFICES ASSUME NEW q \in Requests PROVE (StageOK(q) /\ LockedOK(q) /\ ExportOK(q))'
    BY DEF RequestsOK
  <2>1. StageOK(q) /\ LockedOK(q) /\ ExportOK(q)
    BY <1>1 DEF RequestsOK
  <2>2. StageOK(q)'
    BY <2>1, <1>4, <1>6 DEF StageOK, database, ProjectOf
  <2>3. LockedOK(q)'
    BY <2>1, <1>4, <1>6 DEF LockedOK, database, ProjectOf, Patched
  <2>4. ExportOK(q)'
    BY <2>1, <1>4 DEF ExportOK, database, ProjectOf
  <2>. QED  BY <2>2, <2>3, <2>4
<1>11. ReadOK'
  <2>1. UNCHANGED <<rows, versions>>
    BY <1>4 DEF database
  <2>2. \A q \in Projects :
          loads'[q] # NULL /\ loads'[q].at \in Reading =>
            loads'[q].value \in Record /\ FromCommits(q, loads'[q].value)
    <3>1. ASSUME NEW q \in Projects, q # p, loads'[q] # NULL,
                 loads'[q].at \in Reading
          PROVE  loads'[q].value \in Record /\ FromCommits(q, loads'[q].value)
      <4>1. loads'[q] = loads[q]
        BY <1>4, <1>1, <3>1 DEF ShapeOK
      <4>2. UNCHANGED versions
        BY <1>4 DEF database
      <4>. QED  BY <4>1, <4>2, <3>1, <1>1 DEF ReadOK, FromCommits
    <3>2. loads'[p].at \in Reading =>
            loads'[p].value \in Record /\ FromCommits(p, loads'[p].value)
      BY <1>7
    <3>. QED  BY <3>1, <3>2
  <2>. QED  BY <2>1, <2>2, <1>1 DEF ReadOK, FromCommits
<1>12. Committed'
  <2>1. UNCHANGED <<exported, versions>>
    BY <1>4 DEF database
  <2>2. \A q \in Projects : cache'[q] # NULL => FromCommits(q, cache'[q])
    <3>1. \A q \in Projects : cache[q] # NULL => FromCommits(q, cache[q])
      BY <1>1 DEF Committed, CacheCommitted, FromCommits
    <3>. QED  BY <3>1, <1>1, <1>4 DEF TypeOK
  <2>. QED  BY <2>1, <2>2, <1>1
            DEF Committed, CacheCommitted, ExportCommitted, FromCommits
<1>. QED  BY <1>8, <1>9, <1>10, <1>11, <1>12 DEF Inv

\* A request takes what has been loaded: get_project answers, update_project
\* patches.
LEMMA LoadedInv ==
  ASSUME Inv, NEW r \in Requests, Answer(r) \/ Patch(r)
  PROVE  Inv'
<1>. USE NULLs DEF Holding, Saving, Updated, Exporting, Reading
<1>1. TypeOK /\ ShapeOK /\ RequestsOK /\ ReadOK /\ Committed
  BY DEF Inv
<1>2. /\ pc[r] = "loading" /\ object[holds[r]] # NULL /\ Forget(r)
      /\ UNCHANGED <<request, holds, original, cache, database, lists, seen, failures>>
      /\ \/ pc' = [pc EXCEPT ![r] = "done"] /\ UNCHANGED object
         \/ /\ pc' = [pc EXCEPT ![r] = "send"] /\ request[r].kind = "patch"
            /\ object' = [object EXCEPT ![holds[r]] = Patched(r, object[holds[r]])]
  BY DEF Answer, Patch, Loaded, Goto
<1>3. /\ holds[r] \in Requests /\ request[holds[r]].kind \in {"patch", "read"}
      /\ request[r].kind \in {"patch", "read"}
      /\ object[holds[r]] \in Record
  <2>1. StageOK(r)
    BY <1>1 DEF RequestsOK
  <2>2. /\ holds[r] \in Requests /\ request[holds[r]].kind \in {"patch", "read"}
        /\ request[r].kind \in {"patch", "read"}
    BY <2>1, <1>2 DEF StageOK
  <2>3. object[holds[r]] \in Record
    BY <2>2, <1>1, <1>2 DEF TypeOK
  <2>. QED  BY <2>2, <2>3
<1>4. Patched(r, object[holds[r]]) \in Record
  BY <1>1, <1>3, RequestParts
<1>5. /\ object' \in [Requests -> Record \cup {NULL}]
      /\ \A q \in Requests : object[q] \in Record => object'[q] \in Record
      /\ \A q \in Requests : request[q].kind = "locked" => object'[q] = object[q]
  <2>1. object \in [Requests -> Record \cup {NULL}]
    BY <1>1 DEF TypeOK
  <2>. QED  BY <2>1, <1>2, <1>3, <1>4
<1>6. loads' \in [Projects -> LoadRecord \cup {NULL}]
      /\ \A p \in Projects : loads'[p] # NULL => loads'[p] = loads[p]
  BY <1>1, <1>2 DEF Forget, ShapeOK
<1>7. ShapeOK'
  BY <1>1, <1>2, <1>6 DEF ShapeOK, database, LoadRecord
<1>0. ListTypes'
  BY <1>1, <1>2 DEF TypeOK, ListTypes, lists
<1>8. TypeOK'
  <2>1. /\ pc' \in [Requests -> Labels]
        /\ \A q \in Projects : owner'[q] # NULL => pc'[owner'[q]] \in Open
    <3>1. PICK l \in {"done", "send"} : pc' = [pc EXCEPT ![r] = l]
      BY <1>2
    <3>2. l \in Labels /\ pc[r] \notin Open /\ owner' = owner
      BY <1>2 DEF Labels, Open, database
    <3>. QED  BY <3>1, <3>2, <1>1, OwnersStay DEF TypeOK
  <2>. QED  BY <1>0, <2>1, <1>1, <1>2, <1>5, <1>6 DEF TypeOK, database
<1>9. RequestsOK'
  <2>. SUFFICES ASSUME NEW q \in Requests PROVE (StageOK(q) /\ LockedOK(q) /\ ExportOK(q))'
    BY DEF RequestsOK
  <2>1. StageOK(q) /\ LockedOK(q) /\ ExportOK(q)
    BY <1>1 DEF RequestsOK
  <2>2. CASE q = r
    <3>1. /\ pc'[r] \in {"done", "send"} /\ object'[holds[r]] \in Record
          /\ pc'[r] = "send" => request[r].kind = "patch"
      BY <1>1, <1>2, <1>3, <1>5 DEF TypeOK
    <3>2. export'[r] = NULL
      BY <2>1, <2>2, <1>2 DEF ExportOK, database
    <3>. QED  BY <3>1, <3>2, <2>2, <1>2, <1>3 DEF StageOK, LockedOK, ExportOK
  <2>3. CASE q # r
    BY <2>1, <2>3, <1>1, <1>2, <1>5
       DEF StageOK, LockedOK, ExportOK, Saving, database, ProjectOf, Patched, TypeOK
  <2>. QED  BY <2>2, <2>3
<1>10. ReadOK' /\ Committed'
  BY <1>1, <1>2, <1>6 DEF ReadOK, Committed, CacheCommitted, ExportCommitted,
                                       FromCommits, database
<1>. QED  BY <1>7, <1>8, <1>9, <1>10 DEF Inv

\* FOR UPDATE NOWAIT
LEMMA LoadLockedInv ==
  ASSUME Inv, NEW r \in Requests, LoadLocked(r)
  PROVE  Inv'
<1>. USE NULLs DEF Holding, Saving, Updated, Exporting, Reading
<1>1. TypeOK /\ ShapeOK /\ RequestsOK /\ ReadOK /\ Committed
  BY DEF Inv
<1>2. PICK p \in Projects : p = ProjectOf(r)
  BY <1>1, RequestParts
<1>3. /\ request[r].kind = "locked" /\ pc[r] = "new"
      /\ UNCHANGED <<request, loads, original, cache, rows, written, view,
                     export, exported, versions, lists, seen, failures>>
      /\ \/ pc' = [pc EXCEPT ![r] = "done"] /\ UNCHANGED <<holds, object, owner>>
         \/ /\ owner[p] = NULL
            /\ pc' = [pc EXCEPT ![r] = "locked"]
            /\ holds' = [holds EXCEPT ![r] = r]
            /\ object' = [object EXCEPT ![r] = rows[p]]
            /\ owner' = [owner EXCEPT ![p] = r]
  BY <1>2 DEF LoadLocked, Is, Goto
<1>4. rows[p] \in Record
  BY <1>1 DEF TypeOK
<1>5. ShapeOK'
  BY <1>1, <1>3 DEF ShapeOK, LoadRecord
<1>0. ListTypes'
  BY <1>1, <1>3 DEF TypeOK, ListTypes, lists
<1>6. TypeOK'
  <2>1. /\ holds' \in [Requests -> Requests \cup {NULL}]
        /\ object' \in [Requests -> Record \cup {NULL}]
        /\ owner' \in [Projects -> Requests \cup {NULL}]
        /\ \A q \in Projects : owner'[q] \in {owner[q], r}
    BY <1>1, <1>3, <1>4 DEF TypeOK
  <2>2. /\ pc' \in [Requests -> Labels]
        /\ \A q \in Projects : owner'[q] # NULL => pc'[owner'[q]] \in Open
    <3>1. PICK l \in {"done", "locked"} :
            /\ pc' = [pc EXCEPT ![r] = l]
            /\ l = "done" => owner' = owner
      BY <1>3
    <3>2. l \in Labels /\ (l \in Open \/ (pc[r] \notin Open /\ owner' = owner))
      BY <3>1, <1>3 DEF Labels, Open
    <3>. QED  BY <3>1, <3>2, <2>1, <1>1, OwnersStay
  <2>. QED  BY <1>0, <2>1, <2>2, <1>1, <1>3 DEF TypeOK
<1>7. RequestsOK'
  <2>. SUFFICES ASSUME NEW q \in Requests PROVE (StageOK(q) /\ LockedOK(q) /\ ExportOK(q))'
    BY DEF RequestsOK
  <2>1. StageOK(q) /\ LockedOK(q) /\ ExportOK(q)
    BY <1>1 DEF RequestsOK
  <2>2. CASE q = r
    BY <2>1, <2>2, <1>1, <1>2, <1>3, <1>4
       DEF StageOK, LockedOK, ExportOK, Saving, ProjectOf, TypeOK
  <2>3. CASE q # r
    <3>1. /\ pc'[q] = pc[q] /\ holds'[q] = holds[q] /\ object'[q] = object[q]
          /\ ProjectOf(q) \in Projects
          /\ (owner[ProjectOf(q)] = q => owner'[ProjectOf(q)] = q)
          /\ \A x \in Requests : object[x] \in Record => object'[x] \in Record
      BY <2>3, <1>1, <1>3, <1>4, RequestParts DEF TypeOK
    <3>2. StageOK(q)'
      BY <3>1, <2>1, <1>3 DEF StageOK, ProjectOf
    <3>3. LockedOK(q)' /\ ExportOK(q)'
      BY <3>1, <2>1, <1>3 DEF LockedOK, ExportOK, ProjectOf, Patched, Saving
    <3>. QED  BY <3>2, <3>3
  <2>. QED  BY <2>2, <2>3
<1>8. ReadOK' /\ Committed'
  BY <1>1, <1>3 DEF ReadOK, Committed, CacheCommitted, ExportCommitted, FromCommits
<1>. QED  BY <1>5, <1>6, <1>7, <1>8 DEF Inv

\* The locked row goes to the cache, and the request goes on or is refused.
LEMMA LockedInv ==
  ASSUME Inv, NEW r \in Requests, StoreLocked(r) \/ Refuse(r)
  PROVE  Inv'
<1>. USE NULLs DEF Holding, Saving, Updated, Exporting, Reading
<1>1. TypeOK /\ ShapeOK /\ RequestsOK /\ ReadOK /\ Committed
  BY DEF Inv
<1>2. PICK p \in Projects : p = ProjectOf(r)
  BY <1>1, RequestParts
<1>3. /\ request[r].kind = "locked" /\ pc[r] = "locked"
      /\ original' = object[r].attrib
      /\ cache' = [cache EXCEPT ![p] = object[r]]
      /\ UNCHANGED <<request, holds, loads, rows, exported, versions, lists,
                     failures>>
  BY <1>2 DEF StoreLocked, Refuse, Is, database
<1>4. /\ object[r] = rows[p] /\ object[r] \in Record /\ object[r] \in versions[p]
      /\ owner[p] = r
      /\ Patched(r, object[r]) \in Record
  <2>1. StageOK(r) /\ LockedOK(r)
    BY <1>1 DEF RequestsOK
  <2>2. /\ object[r] = rows[p] /\ object[r] \in Record /\ owner[p] = r
    BY <2>1, <1>2, <1>3 DEF StageOK, LockedOK
  <2>3. object[r] \in versions[p]
    BY <2>2, <1>1 DEF ReadOK
  <2>. QED  BY <2>2, <2>3, <1>1, RequestParts
<1>5. ShapeOK' /\ ReadOK'
  BY <1>1, <1>3 DEF ShapeOK, ReadOK, LoadRecord, FromCommits
<1>6. Committed'
  <2>1. \A q \in Projects : cache'[q] # NULL => FromCommits(q, cache'[q])
    <3>1. \A q \in Projects : cache[q] # NULL => FromCommits(q, cache[q])
      BY <1>1 DEF Committed, CacheCommitted, FromCommits
    <3>2. FromCommits(p, object[r])
      BY <1>4, CommitsHaveParts
    <3>. QED  BY <3>1, <3>2, <1>1, <1>3 DEF TypeOK
  <2>. QED  BY <2>1, <1>1, <1>3
            DEF Committed, CacheCommitted, ExportCommitted, FromCommits
<1>7. original' \in Values \cup {NULL} /\ cache' \in [Projects -> Record \cup {NULL}]
  <2>1. object[r].attrib \in Values
    BY <1>4, Attributes
  <2>. QED  BY <2>1, <1>1, <1>3, <1>4 DEF TypeOK
<1>8. CASE StoreLocked(r)
  <2>1. /\ pc' = [pc EXCEPT ![r] = "send"]
        /\ object' = [object EXCEPT ![r] = Patched(r, object[r])]
        /\ UNCHANGED <<database, seen>>
    BY <1>8 DEF StoreLocked, Goto
  <2>2. TypeOK'
    <3>1. /\ pc' \in [Requests -> Labels]
          /\ \A q \in Projects : owner'[q] # NULL => pc'[owner'[q]] \in Open
      <4>1. "send" \in Labels /\ "send" \in Open /\ owner' = owner
        BY <2>1 DEF Labels, Open, database
      <4>. QED  BY <4>1, <2>1, <1>1, OwnersStay DEF TypeOK
    <3>2. object' \in [Requests -> Record \cup {NULL}]
      BY <2>1, <1>1, <1>4 DEF TypeOK
    <3>3. ListTypes'
      BY <2>1, <1>1, <1>3 DEF TypeOK, ListTypes, lists
    <3>. QED  BY <3>1, <3>2, <3>3, <2>1, <1>1, <1>3, <1>7 DEF TypeOK, database
  <2>3. RequestsOK'
    <3>. SUFFICES ASSUME NEW q \in Requests
                  PROVE (StageOK(q) /\ LockedOK(q) /\ ExportOK(q))'
      BY DEF RequestsOK
    <3>1. StageOK(q) /\ LockedOK(q) /\ ExportOK(q)
      BY <1>1 DEF RequestsOK
    <3>2. CASE q = r
      <4>1. /\ pc'[r] = "send" /\ holds[r] = r
            /\ object'[r] = Patched(r, rows[p]) /\ object'[r] \in Record
        BY <2>1, <1>1, <1>4, <3>1, <3>2, <1>3 DEF TypeOK, LockedOK
      <4>. QED  BY <3>1, <3>2, <4>1, <2>1, <1>2, <1>3, <1>4
                DEF StageOK, LockedOK, ExportOK, Saving, ProjectOf, Patched, database
    <3>3. CASE q # r
      <4>1. /\ pc'[q] = pc[q] /\ object'[q] = object[q]
            /\ \A x \in Requests : object[x] \in Record => object'[x] \in Record
        BY <3>3, <2>1, <1>1, <1>4 DEF TypeOK
      <4>2. StageOK(q)'
        BY <4>1, <3>1, <2>1, <1>3 DEF StageOK, ProjectOf, database
      <4>3. LockedOK(q)' /\ ExportOK(q)'
        BY <4>1, <3>1, <2>1, <1>3
           DEF LockedOK, ExportOK, ProjectOf, Patched, Saving, database
      <4>. QED  BY <4>2, <4>3
    <3>. QED  BY <3>2, <3>3
  <2>. QED  BY <2>2, <2>3, <1>5, <1>6 DEF Inv
<1>9. CASE Refuse(r)
  <2>1. Release(r) /\ UNCHANGED object
    BY <1>9 DEF Refuse
  <2>2. TypeOK'
    <3>1. ListTypes'
      BY <2>1, <1>1, <1>3, ReleaseLeaves DEF TypeOK, ListTypes, lists
    <3>. QED  BY <3>1, <2>1, <1>1, <1>3, <1>7, ReleaseLeaves, OwnersEnd DEF TypeOK
  <2>3. RequestsOK'
    <3>. SUFFICES ASSUME NEW q \in Requests
                  PROVE (StageOK(q) /\ LockedOK(q) /\ ExportOK(q))'
      BY DEF RequestsOK
    <3>1. StageOK(q) /\ LockedOK(q) /\ ExportOK(q)
      BY <1>1 DEF RequestsOK
    <3>2. CASE q = r
      <4>1. pc'[r] = "done" /\ export'[r] = NULL
        BY <1>1, <2>1, ReleaseLeaves
      <4>. QED  BY <3>2, <4>1 DEF StageOK, LockedOK, ExportOK
    <3>3. CASE q # r
      <4>1. /\ pc'[q] = pc[q] /\ written'[q] = written[q] /\ export'[q] = export[q]
            /\ ProjectOf(q) \in Projects
            /\ (owner[ProjectOf(q)] = q => owner'[ProjectOf(q)] = q)
        BY <3>3, <2>1, <1>1, ReleaseLeaves, RequestParts
      <4>2. seen'[q] = seen[q]
        BY <3>3, <2>1, <1>1, ReleaseLeaves
      <4>3. StageOK(q)'
        BY <4>1, <4>2, <3>1, <2>1, <1>3 DEF StageOK, ProjectOf
      <4>. QED  BY <4>1, <4>3, <3>1, <2>1, <1>3
                DEF LockedOK, ExportOK, ProjectOf, Patched
    <3>. QED  BY <3>2, <3>3
  <2>. QED  BY <2>2, <2>3, <1>5, <1>6 DEF Inv
<1>. QED  BY <1>8, <1>9

\* The statement is sent, and waits for the row.
LEMMA SendInv ==
  ASSUME Inv, NEW r \in Requests, Send(r) \/ Update(r)
  PROVE  Inv'
<1>. USE NULLs DEF Holding, Saving, Updated, Exporting, Reading
<1>1. TypeOK /\ ShapeOK /\ RequestsOK /\ ReadOK /\ Committed
  BY DEF Inv
<1>2. PICK p \in Projects : p = ProjectOf(r)
  BY <1>1, RequestParts
<1>3. /\ UNCHANGED <<request, memory, cache, rows, view, export, exported,
                     versions, lists, seen, failures>>
      /\ \/ /\ pc[r] = "send" /\ pc' = [pc EXCEPT ![r] = "update"]
            /\ written' = [written EXCEPT ![r] = object[holds[r]]]
            /\ UNCHANGED owner
         \/ /\ pc[r] = "update"
            /\ \/ pc' = [pc EXCEPT ![r] = "rebuild"]
               \/ pc' = [pc EXCEPT ![r] = "types"]
            /\ owner[p] \in {NULL, r}
            /\ owner' = [owner EXCEPT ![p] = r]
            /\ UNCHANGED written
  BY <1>2 DEF Send, Update, Goto
<1>4. StageOK(r) /\ LockedOK(r) /\ ExportOK(r)
  BY <1>1 DEF RequestsOK
<1>5. pc[r] = "send" => object[holds[r]] \in Record
  BY <1>4 DEF StageOK
<1>0. ListTypes'
  BY <1>1, <1>3 DEF TypeOK, ListTypes, lists
<1>6. TypeOK'
  <2>1. /\ written' \in [Requests -> Record \cup {NULL}]
        /\ owner' \in [Projects -> Requests \cup {NULL}]
        /\ \A q \in Projects : owner'[q] \in {owner[q], r}
    BY <1>1, <1>3, <1>5 DEF TypeOK
  <2>2. /\ pc' \in [Requests -> Labels]
        /\ \A q \in Projects : owner'[q] # NULL => pc'[owner'[q]] \in Open
    <3>1. PICK l \in {"update", "rebuild", "types"} : pc' = [pc EXCEPT ![r] = l]
      BY <1>3
    <3>2. l \in Labels /\ l \in Open
      BY DEF Labels, Open
    <3>. QED  BY <3>1, <3>2, <2>1, <1>1, OwnersStay
  <2>. QED  BY <1>0, <2>1, <2>2, <1>1, <1>3 DEF TypeOK, memory
<1>7. ShapeOK' /\ ReadOK' /\ Committed'
  BY <1>1, <1>3 DEF ShapeOK, ReadOK, Committed, CacheCommitted, ExportCommitted,
                     FromCommits, memory, LoadRecord
<1>8. RequestsOK'
  <2>. SUFFICES ASSUME NEW q \in Requests
                PROVE (StageOK(q) /\ LockedOK(q) /\ ExportOK(q))'
    BY DEF RequestsOK
  <2>1. StageOK(q) /\ LockedOK(q) /\ ExportOK(q)
    BY <1>1 DEF RequestsOK
  <2>2. CASE q = r
    <3>1. export'[r] = NULL
      BY <1>3, <1>4 DEF ExportOK
    <3>2. \/ /\ pc[r] = "send" /\ pc'[r] = "update" /\ written'[r] = object[holds[r]]
             /\ owner' = owner
          \/ /\ pc[r] = "update" /\ pc'[r] \in {"rebuild", "types"}
             /\ written' = written /\ owner'[p] = r
      BY <1>1, <1>3 DEF TypeOK
    <3>3. StageOK(q)'
      BY <3>2, <2>2, <1>2, <1>3, <1>4, <1>5 DEF StageOK, ProjectOf, memory
    <3>4. LockedOK(q)'
      BY <3>2, <2>2, <1>2, <1>3, <1>4 DEF LockedOK, ProjectOf, Patched, memory
    <3>. QED  BY <3>1, <3>3, <3>4, <2>2 DEF ExportOK
  <2>3. CASE q # r
    <3>1. /\ pc'[q] = pc[q] /\ written'[q] = written[q]
          /\ ProjectOf(q) \in Projects
          /\ (owner[ProjectOf(q)] = q => owner'[ProjectOf(q)] = q)
      BY <2>3, <1>1, <1>3, RequestParts DEF TypeOK
    <3>. QED  BY <3>1, <2>1, <1>3
              DEF StageOK, LockedOK, ExportOK, ProjectOf, Patched, Saving, memory
  <2>. QED  BY <2>2, <2>3
<1>. QED  BY <1>6, <1>7, <1>8 DEF Inv

\* The view is locked, and attributes are read: those the transaction has
\* written, or for a folder those that are committed.
LEMMA ViewInv ==
  ASSUME Inv, NEW r \in Requests, Rebuild(r) \/ Crawl(r)
  PROVE  Inv'
<1>. USE NULLs DEF Holding, Saving, Updated, Exporting, Reading
<1>1. TypeOK /\ ShapeOK /\ RequestsOK /\ ReadOK /\ Committed
  BY DEF Inv
<1>2. PICK p \in Projects : p = ProjectOf(r)
  BY <1>1, RequestParts
<1>3. PICK v \in Record :
        /\ view' = [view EXCEPT ![p] = r]
        /\ export' = [export EXCEPT ![r] = v.attrib]
        /\ UNCHANGED <<request, memory, cache, rows, owner, written, exported,
                       versions, lists, seen, failures>>
        /\ \/ /\ pc[r] = "rebuild" /\ v = written[r]
              /\ pc' = [pc EXCEPT ![r] = "types"]
           \/ /\ pc[r] = "new" /\ request[r].kind = "folder" /\ v \in versions[p]
              /\ pc' = [pc EXCEPT ![r] = "export"]
  <2>1. CASE Rebuild(r)
    <3>1. written[r] \in Record
      BY <2>1, <1>1 DEF Rebuild, RequestsOK, StageOK, Saving
    <3>. QED  BY <2>1, <3>1, <1>2 DEF Rebuild, Goto
  <2>2. CASE Crawl(r)
    <3>1. rows[p] \in Record /\ rows[p] \in versions[p]
      BY <1>1 DEF TypeOK, ReadOK
    <3>. QED  BY <2>2, <3>1, <1>2 DEF Crawl, Goto, Is
  <2>. QED  BY <2>1, <2>2
<1>4. v.attrib \in Values /\ v.attrib # NULL
  BY Attributes
<1>0. ListTypes'
  BY <1>1, <1>3 DEF TypeOK, ListTypes, lists
<1>5. TypeOK'
  <2>1. /\ pc' \in [Requests -> Labels]
        /\ \A q \in Projects : owner'[q] # NULL => pc'[owner'[q]] \in Open
    <3>1. PICK l \in {"types", "export"} :
            pc' = [pc EXCEPT ![r] = l] /\ (l = "export" => pc[r] = "new")
      BY <1>3
    <3>2. l \in Labels /\ (l \in Open \/ (pc[r] \notin Open /\ owner' = owner))
      BY <3>1, <1>3 DEF Labels, Open
    <3>3. owner' = owner /\ owner \in [Projects -> Requests \cup {NULL}]
      BY <1>1, <1>3 DEF TypeOK
    <3>. QED  BY <3>1, <3>2, <3>3, <1>1, OwnersStay
  <2>2. /\ export' \in [Requests -> Values \cup {NULL}]
        /\ view' \in [Projects -> Requests \cup {NULL}]
    BY <1>1, <1>3, <1>4 DEF TypeOK
  <2>3. \A q \in Projects : view'[q] # NULL => export'[view'[q]] # NULL
    BY <1>1, <1>3, <1>4 DEF TypeOK
  <2>. QED  BY <1>0, <2>1, <2>2, <2>3, <1>1, <1>3 DEF TypeOK, memory
<1>6. ShapeOK' /\ ReadOK' /\ Committed'
  BY <1>1, <1>3 DEF ShapeOK, ReadOK, Committed, CacheCommitted, ExportCommitted,
                     FromCommits, memory, LoadRecord
<1>7. RequestsOK'
  <2>. SUFFICES ASSUME NEW q \in Requests
                PROVE (StageOK(q) /\ LockedOK(q) /\ ExportOK(q))'
    BY DEF RequestsOK
  <2>1. StageOK(q) /\ LockedOK(q) /\ ExportOK(q)
    BY <1>1 DEF RequestsOK
  <2>2. CASE q = r
    <3>1. ExportOK(q)'
      BY <2>2, <1>1, <1>2, <1>3 DEF ExportOK, TypeOK, ProjectOf
    <3>2. StageOK(q)' /\ LockedOK(q)'
      BY <2>1, <2>2, <1>1, <1>3, <1>4
         DEF StageOK, LockedOK, Saving, ProjectOf, Patched, TypeOK, memory
    <3>. QED  BY <3>1, <3>2
  <2>3. CASE q # r
    <3>1. pc'[q] = pc[q] /\ export'[q] = export[q]
      BY <2>3, <1>1, <1>3 DEF TypeOK
    <3>. QED  BY <3>1, <2>1, <1>3
              DEF StageOK, LockedOK, ExportOK, ProjectOf, Patched, Saving, memory
  <2>. QED  BY <2>2, <2>3
<1>. QED  BY <1>5, <1>6, <1>7 DEF Inv

\* The cache is cleared, by a transaction or because the entry has expired.
LEMMA CacheInv ==
  ASSUME Inv, \/ \E r \in Requests : Invalidate(r)
              \/ \E p \in Projects : Expire(p)
              \/ UNCHANGED vars
  PROVE  Inv'
<1>. USE NULLs DEF Holding, Saving, Updated, Exporting, Reading
<1>1. TypeOK /\ ShapeOK /\ RequestsOK /\ ReadOK /\ Committed
  BY DEF Inv
<1>2. /\ UNCHANGED <<request, memory, database, lists, seen, failures>>
      /\ cache' \in [Projects -> Record \cup {NULL}]
      /\ \A p \in Projects : cache'[p] # NULL => cache'[p] = cache[p]
      /\ pc' \in [Requests -> Labels]
      /\ \A q \in Requests :
           pc'[q] = pc[q] \/ (pc[q] = "commit" /\ pc'[q] = "list")
  <2>1. ASSUME NEW r \in Requests, Invalidate(r) PROVE <1>2!:
    <3>1. /\ pc \in [Requests -> Labels] /\ "list" \in Labels
          /\ cache \in [Projects -> Record \cup {NULL}]
      BY <1>1 DEF TypeOK, Labels
    <3>. QED  BY <2>1, <3>1 DEF Invalidate, Goto
  <2>2. ASSUME NEW p \in Projects, Expire(p) PROVE <1>2!:
    BY <2>2, <1>1 DEF Expire, TypeOK
  <2>3. CASE UNCHANGED vars
    BY <2>3, <1>1 DEF vars, TypeOK
  <2>. QED  BY <2>1, <2>2, <2>3
<1>0. ListTypes'
  BY <1>1, <1>2 DEF TypeOK, ListTypes, lists
<1>3. TypeOK'
  <2>1. \A q \in Projects : owner'[q] # NULL =>
          pc'[owner'[q]] \in Open
    <3>1. "list" \in Open
      BY DEF Open
    <3>. QED  BY <3>1, <1>1, <1>2 DEF TypeOK, database
  <2>. QED  BY <1>0, <2>1, <1>1, <1>2 DEF TypeOK, memory, database
<1>4. ShapeOK' /\ ReadOK' /\ Committed'
  BY <1>1, <1>2 DEF ShapeOK, ReadOK, Committed, CacheCommitted, ExportCommitted,
                     FromCommits, memory, database, LoadRecord
<1>5. RequestsOK'
  <2>. SUFFICES ASSUME NEW q \in Requests
                PROVE (StageOK(q) /\ LockedOK(q) /\ ExportOK(q))'
    BY DEF RequestsOK
  <2>1. StageOK(q) /\ LockedOK(q) /\ ExportOK(q)
    BY <1>1 DEF RequestsOK
  <2>. QED  BY <2>1, <1>2
            DEF StageOK, LockedOK, ExportOK, ProjectOf, Patched, Saving, memory, database
<1>. QED  BY <1>3, <1>4, <1>5 DEF Inv

\* A table is written from the entity as it is now: that of a locked record has
\* not changed since the row was written.
LEMMA SaveTableInv ==
  ASSUME Inv, NEW r \in Requests, SaveTable(r)
  PROVE  Inv'
<1>. USE NULLs DEF Holding, Saving, Updated, Exporting, Reading
<1>1. TypeOK /\ ShapeOK /\ RequestsOK /\ ReadOK /\ Committed
  BY DEF Inv
<1>2. StageOK(r) /\ LockedOK(r) /\ ExportOK(r)
  BY <1>1 DEF RequestsOK
<1>3. PICK w \in Record, o \in Record, table \in Tables,
            next \in {"statuses", "commit"} :
        /\ w = written[r] /\ o = object[holds[r]] /\ pc[r] = table
        /\ written' = [written EXCEPT ![r] = [w EXCEPT ![table] = o[table]]]
        /\ pc' = [pc EXCEPT ![r] = next]
        /\ UNCHANGED <<request, memory, cache, rows, owner, view, export, exported,
                       versions, lists, seen, failures>>
  BY <1>1, <1>2 DEF SaveTable, Goto, StageOK, Saving, Tables
<1>4. PICK v \in Record : /\ v = [w EXCEPT ![table] = o[table]]
                          /\ v.attrib = w.attrib
                          /\ w = o => v = w
  <2>. DEFINE u == [w EXCEPT ![table] = o[table]]
  <2>1. u \in Record /\ u.attrib = w.attrib
    BY DEF Record, Fields, Tables
  <2>2. ASSUME w = o PROVE u = w
    <3>1. u \in [Fields -> Values] /\ w \in [Fields -> Values]
      BY <2>1 DEF Record
    <3>2. \A f \in Fields : u[f] = w[f]
      BY <2>2, <3>1
    <3>. QED  BY <3>1, <3>2
  <2>. QED  BY <2>1, <2>2
<1>0. ListTypes'
  BY <1>1, <1>3 DEF TypeOK, ListTypes, lists
<1>5. TypeOK'
  <2>1. /\ pc' \in [Requests -> Labels]
        /\ \A q \in Projects : owner'[q] # NULL => pc'[owner'[q]] \in Open
    <3>1. next \in Labels /\ next \in Open
      BY DEF Labels, Open
    <3>2. owner' = owner /\ owner \in [Projects -> Requests \cup {NULL}]
      BY <1>1, <1>3 DEF TypeOK
    <3>. QED  BY <3>1, <3>2, <1>1, <1>3, OwnersStay
  <2>2. /\ written' \in [Requests -> Record \cup {NULL}]
    BY <1>1, <1>3, <1>4 DEF TypeOK
  <2>. QED  BY <1>0, <2>1, <2>2, <1>1, <1>3 DEF TypeOK, memory
<1>6. ShapeOK' /\ ReadOK' /\ Committed'
  BY <1>1, <1>3 DEF ShapeOK, ReadOK, Committed, CacheCommitted, ExportCommitted,
                    FromCommits, memory, LoadRecord
<1>7. RequestsOK'
  <2>. SUFFICES ASSUME NEW q \in Requests
                PROVE (StageOK(q) /\ LockedOK(q) /\ ExportOK(q))'
    BY DEF RequestsOK
  <2>1. StageOK(q) /\ LockedOK(q) /\ ExportOK(q)
    BY <1>1 DEF RequestsOK
  <2>2. CASE q = r
    <3>1. pc'[r] = next /\ written'[r] = v /\ pc[r] \in Exporting
          /\ pc'[r] \in Exporting
      BY <1>1, <1>3, <1>4 DEF TypeOK, Saving, Tables
    <3>2. StageOK(q)'
      BY <3>1, <2>2, <1>2, <1>3 DEF StageOK, ProjectOf, memory, Saving
    <3>3. LockedOK(q)'
      <4>1. pc[r] \in Tables
        BY <1>3
      <4>2. request[r].kind = "locked" => w = o
        BY <4>1, <1>2, <1>3 DEF LockedOK, Tables
      <4>. QED  BY <4>1, <4>2, <3>1, <2>2, <1>2, <1>3, <1>4
                DEF LockedOK, ProjectOf, Patched, memory, Tables
    <3>4. ExportOK(q)'
      BY <3>1, <2>2, <1>2, <1>3, <1>4 DEF ExportOK, ProjectOf, Saving
    <3>. QED  BY <3>2, <3>3, <3>4
  <2>3. CASE q # r
    <3>1. pc'[q] = pc[q] /\ written'[q] = written[q]
      BY <2>3, <1>1, <1>3 DEF TypeOK
    <3>. QED  BY <3>1, <2>1, <1>3
              DEF StageOK, LockedOK, ExportOK, ProjectOf, Patched, Saving, memory
  <2>. QED  BY <2>2, <2>3
<1>. QED  BY <1>5, <1>6, <1>7 DEF Inv

\* The list is read, and stored.
LEMMA ListInv ==
  ASSUME Inv, NEW r \in Requests, BuildList(r) \/ StoreList(r)
  PROVE  Inv'
<1>. USE NULLs DEF Holding, Saving, Updated, Exporting, Reading
<1>1. TypeOK /\ ShapeOK /\ RequestsOK /\ ReadOK /\ Committed
  BY DEF Inv
<1>2. StageOK(r) /\ LockedOK(r) /\ ExportOK(r)
  BY <1>1 DEF RequestsOK
<1>3. /\ UNCHANGED <<request, memory, cache, database, failures>>
      /\ raced' \in BOOLEAN
  <2>1. raced \in BOOLEAN
    BY <1>1 DEF TypeOK, ListTypes
  <2>2. CASE BuildList(r)
    <3>1. (raced /\ Listing # {}) \in BOOLEAN
      OBVIOUS
    <3>. QED  BY <2>2, <3>1 DEF BuildList
  <2>3. CASE StoreList(r)
    BY <2>1, <2>3 DEF StoreList
  <2>. QED  BY <2>2, <2>3
<1>4. \/ /\ pc[r] = "list" /\ pc' = [pc EXCEPT ![r] = "store list"]
         /\ list' = list
         /\ \E l \in [Projects -> Values] : seen' = [seen EXCEPT ![r] = l]
      \/ /\ pc[r] = "store list" /\ pc' = [pc EXCEPT ![r] = "end"]
         /\ list' \in [Projects -> Values]
         /\ seen' = seen
  <2>1. CASE BuildList(r)
    <3>1. pc[r] = "list" /\ written[r] \in Record
      BY <2>1, <1>2 DEF BuildList, StageOK, Saving
    <3>2. \A v \in Record : v.data \in Values
      BY DEF Record, Fields
    <3>3. [p \in Projects |-> IF p = ProjectOf(r) THEN written[r].data
                              ELSE rows[p].data] \in [Projects -> Values]
      BY <3>1, <3>2, <1>1 DEF TypeOK
    <3>. QED  BY <2>1, <3>1, <3>3 DEF BuildList, Goto
  <2>2. CASE StoreList(r)
    BY <2>2, <1>2 DEF StoreList, StageOK, Goto
  <2>. QED  BY <2>1, <2>2
<1>5. TypeOK'
  <2>1. /\ pc' \in [Requests -> Labels]
        /\ \A q \in Projects : owner'[q] # NULL => pc'[owner'[q]] \in Open
    <3>1. PICK l \in {"store list", "end"} : pc' = [pc EXCEPT ![r] = l]
      BY <1>4
    <3>2. l \in Labels /\ l \in Open
      BY DEF Labels, Open
    <3>3. owner' = owner /\ owner \in [Projects -> Requests \cup {NULL}]
      BY <1>1, <1>3 DEF TypeOK, database
    <3>. QED  BY <3>1, <3>2, <3>3, <1>1, OwnersStay
  <2>2. ListTypes'
    <3>1. /\ list \in [Projects -> Values]
          /\ seen \in [Requests -> [Projects -> Values] \cup {NULL}]
      BY <1>1 DEF TypeOK, ListTypes
    <3>2. /\ list' \in [Projects -> Values]
          /\ seen' \in [Requests -> [Projects -> Values] \cup {NULL}]
      BY <3>1, <1>4
    <3>. QED  BY <3>2, <1>3 DEF ListTypes
  <2>. QED  BY <2>1, <2>2, <1>1, <1>3 DEF TypeOK, memory, database
<1>6. ShapeOK' /\ ReadOK' /\ Committed'
  BY <1>1, <1>3 DEF ShapeOK, ReadOK, Committed, CacheCommitted, ExportCommitted,
                    FromCommits, memory, database, LoadRecord
<1>7. RequestsOK'
  <2>. SUFFICES ASSUME NEW q \in Requests
                PROVE (StageOK(q) /\ LockedOK(q) /\ ExportOK(q))'
    BY DEF RequestsOK
  <2>1. StageOK(q) /\ LockedOK(q) /\ ExportOK(q)
    BY <1>1 DEF RequestsOK
  <2>2. LockedOK(q)' /\ ExportOK(q)'
    <3>1. pc'[q] = pc[q] \/ (pc[q] \in {"list", "store list"}
                             /\ pc'[q] \in {"store list", "end"})
      BY <1>1, <1>4 DEF TypeOK
    <3>. QED  BY <3>1, <2>1, <1>3
              DEF LockedOK, ExportOK, ProjectOf, Patched, Saving, memory, database
  <2>3. StageOK(q)'
    <3>1. CASE q = r
      <4>1. /\ pc[r] \in {"list", "store list"} /\ pc'[r] \in {"store list", "end"}
            /\ pc'[r] = "store list" => seen'[r] \in [Projects -> Values]
        BY <1>1, <1>4 DEF TypeOK, ListTypes
      <4>. QED  BY <3>1, <4>1, <2>1, <1>3 DEF StageOK, ProjectOf, memory, database
    <3>2. CASE q # r
      <4>1. pc'[q] = pc[q] /\ seen'[q] = seen[q]
        BY <3>2, <1>1, <1>4 DEF TypeOK, ListTypes
      <4>. QED  BY <4>1, <2>1, <1>3 DEF StageOK, ProjectOf, Saving, memory, database
    <3>. QED  BY <3>1, <3>2
  <2>. QED  BY <2>2, <2>3
<1>. QED  BY <1>5, <1>6, <1>7 DEF Inv

\* A transaction ends; what it has written and exported is committed, or not.
LEMMA EndInv ==
  ASSUME Inv, NEW r \in Requests, Commit(r) \/ Rollback(r) \/ Export(r)
  PROVE  Inv'
<1>. USE NULLs DEF Holding, Saving, Updated, Exporting, Reading
<1>1. TypeOK /\ ShapeOK /\ RequestsOK /\ ReadOK /\ Committed
  BY DEF Inv
<1>2. PICK p \in Projects : p = ProjectOf(r)
  BY <1>1, RequestParts
<1>3. StageOK(r) /\ LockedOK(r) /\ ExportOK(r)
  BY <1>1 DEF RequestsOK
<1>4. /\ Release(r) /\ failures' \in 0..MaxFailures
      /\ raced' \in BOOLEAN
      /\ UNCHANGED <<request, memory, cache, list>>
  <2>1. raced \in BOOLEAN /\ failures \in 0..MaxFailures
    BY <1>1 DEF TypeOK, ListTypes
  <2>2. CASE Commit(r)
    <3>1. (raced \/ Listing # {r}) \in BOOLEAN
      BY <2>1
    <3>. QED  BY <2>1, <2>2, <3>1 DEF Commit
  <2>3. CASE Rollback(r)
    <3>1. (raced \/ r \in Listing) \in BOOLEAN
      BY <2>1
    <3>2. failures' \in 0..MaxFailures
      <4>1. failures' = failures + 1 /\ failures < MaxFailures
        BY <2>3 DEF Rollback
      <4>. QED  BY <4>1, <2>1, ProjectAssumption DEF ProjectAssumption
    <3>. QED  BY <2>3, <3>1, <3>2 DEF Rollback
  <2>4. CASE Export(r)
    BY <2>1, <2>4 DEF Export, lists
  <2>. QED  BY <2>2, <2>3, <2>4
<1>5. /\ versions' \in [Projects -> SUBSET Record]
      /\ \A q \in Projects : versions[q] \subseteq versions'[q]
      /\ rows' \in [Projects -> Record]
      /\ \A q \in Projects : rows'[q] \in versions'[q]
      /\ \A q \in Projects : q # p => rows'[q] = rows[q]
      /\ rows' # rows => pc[r] = "end"
      /\ exported' \in [Projects -> Values]
      /\ \A q \in Projects : \E v \in versions'[q] : exported'[q] = v.attrib
  <2>1. CASE Commit(r)
    <3>1. written[r] \in Record /\ pc[r] = "end"
      BY <2>1, <1>3 DEF Commit, StageOK, Saving
    <3>2. /\ rows' = [rows EXCEPT ![p] = written[r]]
          /\ versions' = [versions EXCEPT ![p] = @ \cup {written[r]}]
          /\ exported' = IF export[r] = NULL THEN exported
                         ELSE [exported EXCEPT ![p] = export[r]]
      BY <2>1, <1>2 DEF Commit
    <3>3. export[r] # NULL => export[r] = written[r].attrib
      BY <3>1, <1>3 DEF ExportOK
    <3>4. rows' \in [Projects -> Record] /\ versions' \in [Projects -> SUBSET Record]
      BY <3>1, <3>2, <1>1 DEF TypeOK, ShapeOK
    <3>6. \A q \in Projects : rows'[q] \in versions'[q] /\ versions[q] \subseteq versions'[q]
      BY <3>1, <3>2, <1>1 DEF TypeOK, ShapeOK, ReadOK
    <3>7. written[r] \in versions'[p] /\ written[r].attrib \in Values
      BY <3>1, <3>2, <1>1, Attributes DEF ShapeOK
    <3>8. exported' \in [Projects -> Values]
      BY <3>2, <3>3, <3>7, <1>1 DEF TypeOK
    <3>9. ASSUME NEW q \in Projects
          PROVE  \E v \in versions'[q] : exported'[q] = v.attrib
      <4>1. CASE q = p /\ export[r] # NULL
        BY <4>1, <3>2, <3>3, <3>7, <1>1 DEF TypeOK
      <4>2. CASE ~ (q = p /\ export[r] # NULL)
        <5>1. exported'[q] = exported[q]
          BY <4>2, <3>2, <1>1 DEF TypeOK
        <5>. QED  BY <5>1, <3>6, <1>1 DEF Committed, ExportCommitted
      <4>. QED  BY <4>1, <4>2
    <3>10. \A q \in Projects : q # p => rows'[q] = rows[q]
      BY <3>2, <1>1 DEF TypeOK
    <3>. QED  BY <3>1, <3>4, <3>6, <3>8, <3>9, <3>10
  <2>2. CASE Rollback(r)
    <3>1. UNCHANGED <<rows, exported, versions>>
      BY <2>2 DEF Rollback
    <3>. QED  BY <3>1, <1>1 DEF TypeOK, ShapeOK, ReadOK, Committed, ExportCommitted
  <2>3. CASE Export(r)
    <3>1. UNCHANGED <<rows, versions>> /\ pc[r] = "export"
          /\ exported' = [exported EXCEPT ![p] = export[r]]
      BY <2>3, <1>2 DEF Export
    <3>2. \E v \in versions[p] : export[r] = v.attrib
      <4>1. export[r] # NULL
        BY <3>1, <1>3 DEF StageOK
      <4>. QED  BY <4>1, <3>1, <1>2, <1>3 DEF ExportOK
    <3>3. exported' \in [Projects -> Values]
      BY <3>1, <3>2, <1>1, Attributes DEF TypeOK, ShapeOK
    <3>4. \A q \in Projects : \E v \in versions[q] : exported'[q] = v.attrib
      BY <3>1, <3>2, <1>1 DEF Committed, ExportCommitted, TypeOK
    <3>. QED  BY <3>1, <3>3, <3>4, <1>1 DEF TypeOK, ShapeOK, ReadOK
  <2>. QED  BY <2>1, <2>2, <2>3
<1>6. ShapeOK' /\ ReadOK'
  BY <1>1, <1>4, <1>5 DEF ShapeOK, ReadOK, FromCommits, memory, LoadRecord
<1>7. Committed'
  BY <1>1, <1>4, <1>5 DEF Committed, CacheCommitted, ExportCommitted
<1>8. TypeOK'
  <2>1. /\ \A q \in Projects : owner'[q] # NULL => pc'[owner'[q]] \in Open
        /\ \A q \in Projects : view'[q] # NULL => export'[view'[q]] # NULL
    BY <1>1, <1>4, OwnersEnd
  <2>2. ListTypes'
    BY <1>1, <1>4, ReleaseLeaves DEF TypeOK, ListTypes
  <2>. QED  BY <2>1, <2>2, <1>1, <1>4, <1>5, ReleaseLeaves DEF TypeOK, memory
<1>9. RequestsOK'
  <2>. SUFFICES ASSUME NEW q \in Requests
                PROVE (StageOK(q) /\ LockedOK(q) /\ ExportOK(q))'
    BY DEF RequestsOK
  <2>1. StageOK(q) /\ LockedOK(q) /\ ExportOK(q)
    BY <1>1 DEF RequestsOK
  <2>2. CASE q = r
    <3>1. pc'[r] = "done" /\ export'[r] = NULL
      BY <1>1, <1>4, ReleaseLeaves
    <3>. QED  BY <2>2, <3>1 DEF StageOK, LockedOK, ExportOK
  <2>3. CASE q # r
    <3>1. /\ pc'[q] = pc[q] /\ written'[q] = written[q] /\ export'[q] = export[q]
          /\ ProjectOf(q) \in Projects
          /\ (owner[ProjectOf(q)] = q => owner'[ProjectOf(q)] = q)
      BY <2>3, <1>1, <1>4, ReleaseLeaves, RequestParts
    <3>2. StageOK(q)'
      <4>1. seen'[q] = seen[q]
        BY <2>3, <1>1, <1>4, ReleaseLeaves
      <4>. QED  BY <4>1, <3>1, <2>1, <1>4 DEF StageOK, ProjectOf, memory
    <3>3. LockedOK(q)'
      <4>1. owner[ProjectOf(q)] = q => rows'[ProjectOf(q)] = rows[ProjectOf(q)]
        <5>1. pc[r] = "end" => owner[p] = r
          BY <1>2, <1>3 DEF StageOK
        <5>. QED  BY <5>1, <3>1, <1>5, <2>3, <1>1 DEF TypeOK
      <4>. QED  BY <4>1, <3>1, <2>1, <1>4
                DEF LockedOK, ProjectOf, Patched, Saving, memory
    <3>4. ExportOK(q)'
      BY <3>1, <2>1, <1>4, <1>5 DEF ExportOK, ProjectOf
    <3>. QED  BY <3>2, <3>3, <3>4
  <2>. QED  BY <2>2, <2>3
<1>. QED  BY <1>6, <1>7, <1>8, <1>9 DEF Inv
-----------------------------------------------------------------------------
(* Theorems *)

\* Every step keeps the inductive invariant.
LEMMA NextInv == Inv /\ [Next]_vars => Inv'
<1>. SUFFICES ASSUME Inv, [Next]_vars PROVE Inv'
  OBVIOUS
<1>1. ASSUME NEW r \in Requests, Begin(r) PROVE Inv'
  BY <1>1, LoadInv, LoadLockedInv, ViewInv DEF Begin
<1>2. ASSUME NEW r \in Requests, Proceed(r) \/ Rollback(r) PROVE Inv'
  BY <1>2, LoadedInv, LockedInv, SendInv, ViewInv, SaveTableInv, CacheInv, ListInv,
     EndInv DEF Proceed
<1>3. ASSUME NEW p \in Projects, LoadStep(p) \/ Expire(p) PROVE Inv'
  BY <1>3, LoadStepInv, CacheInv
<1>. QED  BY <1>1, <1>2, <1>3, CacheInv DEF Next

\* A step that commits nothing, and touches no save that has read the list, leaves
\* what is said of the list.
LEMMA ListStays ==
  ASSUME ListOK, NEW r \in Requests,
         \A q \in Requests : q # r =>
           pc'[q] = pc[q] /\ written'[q] = written[q] /\ seen'[q] = seen[q],
         r \notin Listing, pc'[r] \notin {"store list", "end"},
         UNCHANGED <<request, rows, lists>>
  PROVE  ListOK'
<1>1. Listing' = Listing
  BY DEF Listing
<1>2. UNCHANGED <<request, rows, list>> /\ (raced' <=> raced)
  BY DEF lists
<1>3. ListCurrent'
  BY <1>1, <1>2 DEF ListOK, ListCurrent
<1>4. ASSUME NEW q \in Requests, AloneOK(q) PROVE AloneOK(q)'
  <2>1. CASE Listing = {q}
    <3>1. /\ pc'[q] = pc[q] /\ written'[q] = written[q] /\ seen'[q] = seen[q]
          /\ list' = list
      BY <2>1, <1>2
    <3>2. ListAfter(q)' = ListAfter(q)
      BY <3>1, <1>2 DEF ListAfter, ProjectOf
    <3>. QED  BY <3>1, <3>2, <1>4 DEF AloneOK, Listing
  <2>2. CASE Listing # {q}
    BY <2>2, <1>1 DEF AloneOK
  <2>. QED  BY <2>1, <2>2
<1>5. ~ raced' => \A q \in Requests : AloneOK(q)'
  BY <1>2, <1>4 DEF ListOK
<1>. QED  BY <1>3, <1>5 DEF ListOK

\* A save that reads the list alone reads what it is about to commit; when it has
\* stored it and commits, the list is what is committed.
LEMMA ListNext == Inv /\ ListOK /\ [Next]_vars => ListOK'
<1>. SUFFICES ASSUME Inv, ListOK, [Next]_vars PROVE ListOK'
  OBVIOUS
<1>1. /\ TypeOK /\ pc \in [Requests -> Labels]
      /\ written \in [Requests -> Record \cup {NULL}]
      /\ seen \in [Requests -> [Projects -> Values] \cup {NULL}]
      /\ rows \in [Projects -> Record] /\ list \in [Projects -> Values]
  BY DEF Inv, TypeOK, ListTypes
<1>2. ASSUME NEW r \in Requests, Begin(r) PROVE ListOK'
  <2>1. PICK l \in {"loading", "done", "locked", "export"} :
          pc' = [pc EXCEPT ![r] = l] /\ pc[r] = "new"
    BY <1>2 DEF Begin, Load, LoadLocked, Crawl, Is, Goto
  <2>2. UNCHANGED <<request, rows, lists, written, seen>>
    BY <1>2 DEF Begin, Load, LoadLocked, Crawl, database
  <2>. QED  BY <2>1, <2>2, <1>1, ListStays DEF Listing
<1>3. ASSUME NEW r \in Requests,
             \/ Answer(r) \/ Patch(r) \/ StoreLocked(r)
             \/ Send(r) \/ Update(r) \/ Rebuild(r) \/ SaveTable(r) \/ Invalidate(r)
      PROVE  ListOK'
  <2>1. PICK l \in {"done", "send", "update", "rebuild", "types", "statuses",
                    "commit", "list"} :
          /\ pc' = [pc EXCEPT ![r] = l]
          /\ pc[r] \notin {"store list", "end"}
    BY <1>3 DEF Answer, Patch, Loaded, StoreLocked, Send, Update, Rebuild, SaveTable,
                Invalidate, Is, Goto, Tables
  <2>2. UNCHANGED <<request, rows, lists, seen>>
    BY <1>3 DEF Answer, Patch, StoreLocked, Send, Update, Rebuild, SaveTable,
                Invalidate, database
  <2>3. written' = written \/ \E v : written' = [written EXCEPT ![r] = v]
    BY <1>3 DEF Answer, Patch, StoreLocked, Send, Update, Rebuild, SaveTable,
                Invalidate, database
  <2>. QED  BY <2>1, <2>2, <2>3, <1>1, ListStays DEF Listing
<1>4. ASSUME NEW r \in Requests, Refuse(r) \/ Export(r) PROVE ListOK'
  <2>1. Release(r) /\ r \notin Listing /\ UNCHANGED <<request, rows, lists>>
    BY <1>4 DEF Refuse, Export, Is, Listing
  <2>2. /\ pc'[r] = "done"
        /\ \A q \in Requests : q # r =>
             pc'[q] = pc[q] /\ written'[q] = written[q] /\ seen'[q] = seen[q]
    BY <2>1, <1>1, ReleaseLeaves
  <2>. QED  BY <2>1, <2>2, ListStays
<1>5. ASSUME NEW r \in Requests, Rollback(r) PROVE ListOK'
  <2>1. Release(r) /\ UNCHANGED <<request, rows, list>>
    BY <1>5 DEF Rollback
  <2>2. CASE raced'
    BY <2>2 DEF ListOK, ListCurrent
  <2>3. CASE ~ raced'
    <3>1. r \notin Listing /\ raced' = raced
      <4>1. ~ raced /\ r \notin Listing
        BY <2>3, <1>5 DEF Rollback
      <4>2. raced \in BOOLEAN
        BY <1>1 DEF TypeOK, ListTypes
      <4>. QED  BY <4>1, <4>2, <1>5 DEF Rollback
    <3>2. /\ pc'[r] = "done"
          /\ \A q \in Requests : q # r =>
               pc'[q] = pc[q] /\ written'[q] = written[q] /\ seen'[q] = seen[q]
      BY <2>1, <1>1, ReleaseLeaves
    <3>. QED  BY <3>1, <3>2, <2>1, ListStays DEF lists
  <2>. QED  BY <2>2, <2>3
<1>6. ASSUME NEW r \in Requests, BuildList(r) PROVE ListOK'
  <2>1. /\ pc[r] = "list" /\ pc' = [pc EXCEPT ![r] = "store list"]
        /\ seen' = [seen EXCEPT ![r] = ListAfter(r)]
        /\ raced' = (raced /\ Listing # {})
        /\ UNCHANGED <<request, rows, written, list>>
    BY <1>6 DEF BuildList, Goto, ListAfter, database
  <2>2. r \notin Listing /\ Listing' = Listing \cup {r}
    BY <2>1, <1>1 DEF Listing
  <2>3. ListCurrent'
    BY <2>2 DEF ListCurrent
  <2>4. ASSUME NEW q \in Requests, Listing' = {q}, ~ raced' PROVE AloneOK(q)'
    <3>1. q = r
      BY <2>2, <2>4
    <3>2. pc'[r] = "store list" /\ seen'[r] = ListAfter(r)
      BY <2>1, <1>1
    <3>3. ListAfter(r)' = ListAfter(r)
      BY <2>1 DEF ListAfter, ProjectOf
    <3>. QED  BY <3>1, <3>2, <3>3 DEF AloneOK
  <2>5. \A q \in Requests : ~ raced' => AloneOK(q)'
    BY <2>4 DEF AloneOK
  <2>. QED  BY <2>3, <2>5 DEF ListOK
<1>7. ASSUME NEW r \in Requests, StoreList(r) PROVE ListOK'
  <2>1. /\ pc[r] = "store list" /\ pc' = [pc EXCEPT ![r] = "end"]
        /\ list' = seen[r] /\ raced' = raced
        /\ UNCHANGED <<request, rows, written, seen>>
    BY <1>7 DEF StoreList, Goto, database
  <2>2. r \in Listing /\ Listing' = Listing
    BY <2>1, <1>1 DEF Listing
  <2>3. ListCurrent'
    BY <2>2 DEF ListCurrent
  <2>4. ASSUME NEW q \in Requests, Listing' = {q}, ~ raced' PROVE AloneOK(q)'
    <3>1. q = r /\ Listing = {r}
      BY <2>2, <2>4
    <3>2. ~ raced
      BY <2>1, <2>4
    <3>3. seen[r] = ListAfter(r)
      BY <3>1, <3>2, <2>1 DEF ListOK, AloneOK
    <3>4. ListAfter(r)' = ListAfter(r) /\ pc'[r] = "end"
      BY <2>1, <1>1 DEF ListAfter, ProjectOf
    <3>. QED  BY <3>1, <3>3, <3>4, <2>1 DEF AloneOK
  <2>5. \A q \in Requests : ~ raced' => AloneOK(q)'
    BY <2>4 DEF AloneOK
  <2>. QED  BY <2>3, <2>5 DEF ListOK
<1>8. ASSUME NEW r \in Requests, Commit(r) PROVE ListOK'
  <2>1. /\ Release(r) /\ pc[r] = "end"
        /\ rows' = [rows EXCEPT ![ProjectOf(r)] = written[r]]
        /\ raced' = (raced \/ Listing # {r})
        /\ list' = list
    BY <1>8 DEF Commit
  <2>2. CASE raced'
    BY <2>2 DEF ListOK, ListCurrent
  <2>3. CASE ~ raced'
    <3>1. ~ raced /\ Listing = {r}
      BY <2>1, <2>3
    <3>2. list = ListAfter(r)
      BY <3>1, <2>1 DEF ListOK, AloneOK
    <3>3. \A p \in Projects :
            rows'[p].data = IF p = ProjectOf(r) THEN written[r].data ELSE rows[p].data
      BY <2>1, <1>1
    <3>4. ListCurrent'
      BY <3>2, <3>3, <2>1 DEF ListCurrent, ListAfter
    <3>5. Listing' = {}
      <4>1. pc'[r] = "done" /\ \A q \in Requests : q # r => pc'[q] = pc[q]
        BY <2>1, <1>1, ReleaseLeaves
      <4>. QED  BY <4>1, <3>1 DEF Listing
    <3>. QED  BY <3>4, <3>5 DEF ListOK, AloneOK
  <2>. QED  BY <2>2, <2>3
<1>9. ASSUME \/ \E p \in Projects : LoadStep(p) \/ Expire(p)
             \/ UNCHANGED vars
      PROVE  ListOK'
  <2>1. UNCHANGED <<request, pc, rows, lists, written, seen>>
    BY <1>9 DEF LoadStep, LookUp, SelectRow, SelectTable, Store, Expire, vars, database
  <2>2. Listing' = Listing /\ (raced' <=> raced) /\ list' = list
    BY <2>1 DEF Listing, lists
  <2>3. \A q \in Requests : ListAfter(q)' = ListAfter(q)
    BY <2>1 DEF ListAfter, ProjectOf
  <2>. QED  BY <2>1, <2>2, <2>3 DEF ListOK, ListCurrent, AloneOK
<1>. QED  BY <1>2, <1>3, <1>4, <1>5, <1>6, <1>7, <1>8, <1>9 DEF Next, Proceed

\* Always.
LEMMA InvAlways == Spec => []Inv
BY InitInv, NextInv, PTL DEF Spec

\* The types, and that each lock has a transaction that is open: whatever is
\* loaded, saved and rolled back at the same time.
THEOREM TypeCorrect == Spec => []TypeOK
BY InvAlways, PTL DEF Inv

\* What each statement of _load has put into the cache was committed, and so were
\* the attributes exported to the folders; and the list of the projects, which
\* build_project_list writes to Redis in transactions that are open, is what is
\* committed once they have ended, unless they overlapped or were rolled back.
THEOREM CopiesAreOfCommits == Spec => []CopiesOfCommits
<1>1. Init => ListOK
  <2>1. Init => list = [p \in Projects |-> rows[p].data]
    BY DEF Init, Fields
  <2>2. Init => \A r \in Requests : pc[r] = "new"
    BY DEF Init
  <2>. QED  BY <2>1, <2>2 DEF ListOK, ListCurrent, AloneOK
<1>2. Spec => []ListOK
  BY <1>1, ListNext, InvAlways, PTL DEF Spec
<1>3. Inv /\ ListOK => CopiesOfCommits
  BY DEF Inv, ListOK, Committed, CopiesOfCommits
<1>. QED  BY <1>2, <1>3, InvAlways, PTL

\* One commit of a locked record changes its own field only.
LEMMA LockedCommit ==
  Inv /\ [Next]_vars =>
    \A r \in Requests :
      Is(r, {"locked"}, "end") /\ rows' # rows /\ pc'[r] = "done" =>
        rows' = [rows EXCEPT ![ProjectOf(r)] = Patched(r, @)]
<1>. SUFFICES ASSUME Inv, [Next]_vars, NEW r \in Requests,
                     Is(r, {"locked"}, "end"), rows' # rows, pc'[r] = "done"
              PROVE  rows' = [rows EXCEPT ![ProjectOf(r)] = Patched(r, @)]
  OBVIOUS
<1>1. PICK q \in Requests : Commit(q)
  <2>1. ASSUME NEW x \in Requests, Begin(x) PROVE rows' = rows
    BY <2>1 DEF Begin, Load, LoadLocked, Crawl, database
  <2>2. ASSUME NEW x \in Requests, Proceed(x) \/ Rollback(x)
        PROVE  rows' = rows \/ Commit(x)
    BY <2>2 DEF Proceed, Rollback, Answer, Patch, StoreLocked, Refuse, Send, Update,
                Rebuild, SaveTable, Invalidate, BuildList, StoreList, Export, database
  <2>3. ASSUME NEW x \in Projects, LoadStep(x) \/ Expire(x) PROVE rows' = rows
    BY <2>3 DEF LoadStep, LookUp, SelectRow, SelectTable, Store,
                Expire, database
  <2>4. UNCHANGED vars => rows' = rows
    BY DEF vars, database
  <2>. QED  BY <2>1, <2>2, <2>3, <2>4 DEF Next
<1>2. q = r
  <2>1. Release(q) /\ TypeOK
    BY <1>1 DEF Commit, Inv
  <2>2. pc[r] = "end"
    BY DEF Is
  <2>. QED  BY <2>1, <2>2, ReleaseLeaves
<1>3. rows' = [rows EXCEPT ![ProjectOf(r)] = written[r]]
  BY <1>1, <1>2 DEF Commit
<1>4. written[r] = Patched(r, rows[ProjectOf(r)])
  BY DEF Inv, RequestsOK, LockedOK, Is, Saving
<1>. QED  BY <1>3, <1>4

\* A request that locks the record (FOR UPDATE NOWAIT) undoes no update: it changes
\* its own field and nothing else.
THEOREM LockedUpdates == Spec => LockedKeepsTheRest
<1>1. Inv /\ [Next]_vars =>
        [\A r \in Requests :
           Is(r, {"locked"}, "end") /\ rows' # rows /\ pc'[r] = "done" =>
             rows' = [rows EXCEPT ![ProjectOf(r)] = Patched(r, @)]]_vars
  BY LockedCommit
<1>. QED  BY <1>1, InvAlways, PTL DEF Spec, LockedKeepsTheRest
=============================================================================
