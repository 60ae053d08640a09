-------------------------- MODULE InstallerProofs --------------------------
(***************************************************************************)
(* That no installation is forgotten, that what is reported as finished is *)
(* in place, and that a needed restart is announced, for any items,        *)
(* places, requesters and bounds.                                          *)
(*                                                                         *)
(* An event that is not finished has somebody who will still set its       *)
(* status: a request that has it to put on the queue, the queue, or a call *)
(* of process_event that has not come to its end.  While the worker starts *)
(* there may be nobody: the rows are what it starts from.  A call that has *)
(* moved the files of its item knows them in place until another item uses *)
(* the same directory.                                                     *)
(***************************************************************************)
EXTENDS Installer, ListProofs

Asking == Requesters \cup {Maintenance}

MayHave == Statuses \cup {NULL}

Types ==
  /\ rows \in Seq(Items)
  /\ id \in [Items -> Nat]
  /\ status \in [Items -> MayHave]
  /\ retries \in [Items -> Int]
  /\ request \in [Asking -> [at : Requested, item : Items \cup {NULL}, id : Nat]]
  /\ queue \in Seq(JobRecord)
  /\ process \in [Processes -> [at : Waiting \cup Busy, item : Items \cup {NULL},
                                id : Nat]]
  /\ read \in Int
  /\ timers \in Nat
  /\ server \in {"down", "starting", "up"}
  /\ asked \in 0..MaxRequests
  /\ faults \in 0..MaxFaults

Rows == ToSet(rows)

\* An item has a status when it has a row, and then an id; what is not uploaded
\* has the id 1 for good.
RowsOK ==
  \A i \in Items : /\ status[i] # NULL => i \in Rows
                   /\ i \in Rows => id[i] # 0
                   /\ i \notin Uploads => id[i] <= 1

\* A request is about something that is not uploaded, or has its row; maintenance
\* asks for addons only.
RequestOK(r) ==
  /\ request[r].item = NULL <=> request[r].at = "idle"
  /\ request[r].at # "idle" =>
       /\ server = "up"
       /\ request[r].id # 0
       /\ request[r].item \notin Uploads => request[r].id = 1
       /\ r = Maintenance => request[r].item \in Urls
  /\ request[r].at \in {"found", "missing"} => request[r].item \notin Uploads
  /\ request[r].at \in {"found", "posted"} => request[r].item \in Rows

RequestsOK == \A r \in Asking : RequestOK(r)

JobOK(job) == job.item \in Rows /\ (job.item \notin Uploads => job.id = 1)

JobsOK == \A job \in ToSet(queue) : JobOK(job)

\* A call is about an item that has a row.
CallOK(p) ==
  /\ process[p].item = NULL <=> process[p].at \in Waiting
  /\ process[p].at \in Busy =>
       /\ process[p].item \in Rows
       /\ process[p].id # 0
       /\ process[p].item \notin Uploads => process[p].id = 1

\* The call without the queue is about an addon with a URL, while the server is up.
DirectOK ==
  /\ process["direct"].at \notin {"loading", "raised", "caught"}
  /\ process["direct"].at \in Busy => process["direct"].item \in Urls /\ server = "up"

CallsOK == (\A p \in Processes : CallOK(p)) /\ DirectOK

HistoryOK == deserted \subseteq Items /\ patched \subseteq Items /\ crossed \subseteq Places

Inv == Types /\ RowsOK /\ RequestsOK /\ JobsOK /\ CallsOK /\ HistoryOK
-----------------------------------------------------------------------------
(* What the steps do *)

LEMMA GotoStep ==
  ASSUME Types, NEW p \in Processes, NEW at \in Waiting \cup Busy, Goto(p, at)
  PROVE  /\ process' \in [Processes -> [at : Waiting \cup Busy,
                                        item : Items \cup {NULL}, id : Nat]]
         /\ process'[p].at = at
         /\ process'[p].item = process[p].item /\ process'[p].id = process[p].id
         /\ \A q \in Processes : q # p => process'[q] = process[q]
<1>1. process \in [Processes -> [at : Waiting \cup Busy, item : Items \cup {NULL},
                                 id : Nat]]
  BY DEF Types
<1>2. process' = [process EXCEPT ![p].at = at]
  BY DEF Goto
<1>. HIDE DEF Types, Waiting, Busy, Items, Processes
<1>. QED  BY <1>1, <1>2

\* A call begins to be about a job, or ends.
LEMMA SetStep ==
  ASSUME Types, NEW p \in Processes,
         NEW w \in [at : Waiting \cup Busy, item : Items \cup {NULL}, id : Nat],
         process' = [process EXCEPT ![p] = w]
  PROVE  /\ process' \in [Processes -> [at : Waiting \cup Busy,
                                        item : Items \cup {NULL}, id : Nat]]
         /\ process'[p] = w
         /\ \A q \in Processes : q # p => process'[q] = process[q]
<1>1. process \in [Processes -> [at : Waiting \cup Busy, item : Items \cup {NULL},
                                 id : Nat]]
  BY DEF Types
<1>. HIDE DEF Types, Waiting, Busy, Items, Processes
<1>. QED  BY <1>1

LEMMA RequestSet ==
  ASSUME Types, NEW r \in Asking,
         NEW w \in [at : Requested, item : Items \cup {NULL}, id : Nat],
         request' = [request EXCEPT ![r] = w]
  PROVE  /\ request' \in [Asking -> [at : Requested, item : Items \cup {NULL},
                                     id : Nat]]
         /\ request'[r] = w
         /\ \A s \in Asking : s # r => request'[s] = request[s]
<1>1. request \in [Asking -> [at : Requested, item : Items \cup {NULL}, id : Nat]]
  BY DEF Types
<1>. HIDE DEF Types, Requested, Items, Asking
<1>. QED  BY <1>1

LEMMA RequestGoto ==
  ASSUME Types, NEW r \in Asking, NEW at \in Requested,
         request' = [request EXCEPT ![r].at = at]
  PROVE  /\ request' \in [Asking -> [at : Requested, item : Items \cup {NULL},
                                     id : Nat]]
         /\ request'[r].at = at
         /\ request'[r].item = request[r].item /\ request'[r].id = request[r].id
         /\ \A s \in Asking : s # r => request'[s] = request[s]
<1>1. request \in [Asking -> [at : Requested, item : Items \cup {NULL}, id : Nat]]
  BY DEF Types
<1>. HIDE DEF Types, Requested, Items, Asking
<1>. QED  BY <1>1

LEMMA NobodyIs ==
  /\ Nobody \in [at : Waiting \cup Busy, item : Items \cup {NULL}, id : Nat]
  /\ Nobody \in [at : Requested, item : Items \cup {NULL}, id : Nat]
  /\ Nobody.at = "idle" /\ Nobody.item = NULL /\ Nobody.id = 0
BY DEF Nobody, Waiting, Busy, Requested

\* A row is added, unless it is there.
LEMMA InsertStep ==
  ASSUME Types, NEW i \in Items
  PROVE  Insert(i) \in Seq(Items) /\ ToSet(Insert(i)) = Rows \cup {i}
<1>1. rows \in Seq(Items)
  BY DEF Types
<1>2. Append(rows, i) \in Seq(Items) /\ ToSet(Append(rows, i)) = ToSet(rows) \cup {i}
  BY <1>1, QueueSets
<1>. QED  BY <1>1, <1>2 DEF Insert, Rows

\* What the worker starts with: what is on the queue, and the unfinished events.
LEMMA LoadedIs ==
  ASSUME Types, \A i \in Rows : Job(i) \in JobRecord
  PROVE  /\ Loaded \in Seq(JobRecord)
         /\ ToSet(Loaded) = ToSet(queue) \cup {Job(i) : i \in {j \in Rows : Unfinished(j)}}
<1>. DEFINE n == Len(rows)
            V == Seq(JobRecord)
            Pass(v, i) == IF Unfinished(rows[i]) THEN Append(v, Job(rows[i])) ELSE v
            step == [v \in V |-> [i \in 1..n |-> Pass(v, i)]]
            Jobs(m) == {Job(rows[k]) : k \in {j \in 1..m : Unfinished(rows[j])}}
<1>1. /\ n \in Nat /\ queue \in V /\ rows \in Seq(Items)
      /\ \A i \in 1..n : rows[i] \in Rows /\ Job(rows[i]) \in JobRecord
  <2>1. rows \in Seq(Items) /\ queue \in V
    BY DEF Types
  <2>2. \A i \in 1..n : rows[i] \in Rows
    BY <2>1 DEF Rows, ToSet
  <2>. QED  BY <2>1, <2>2
<1>2. ASSUME NEW v \in V, NEW i \in 1..n
      PROVE  /\ Pass(v, i) \in V
             /\ ToSet(Pass(v, i)) =
                  ToSet(v) \cup (IF Unfinished(rows[i]) THEN {Job(rows[i])} ELSE {})
  BY <1>1, QueueSets
<1>3. step \in Steps(n, V)
  <2>. HIDE DEF Pass, V, n
  <2>. QED  BY <1>2 DEF Steps
<1>4. PICK loop : IsLoop(loop, n, V, queue, step)
  <2>1. n \in Nat /\ queue \in V
    BY <1>1
  <2>. HIDE DEF V, step, n
  <2>. QED  BY <2>1, <1>3, LoopExists
<1>5. ASSUME NEW i \in 1..n PROVE loop[i] = Pass(loop[i - 1], i)
  <2>1. loop[i - 1] \in V
    <3>1. i - 1 \in 0..n
      BY <1>1
    <3>. HIDE DEF V, n
    <3>. QED  BY <1>4, <3>1 DEF IsLoop
  <2>. HIDE DEF Pass, V, n
  <2>. QED  BY <1>4, <2>1 DEF IsLoop
<1>. DEFINE Loop(f) ==
       f = [i \in 0..n |->
              IF i = 0 THEN queue
              ELSE IF Unfinished(rows[i]) THEN Append(f[i - 1], Job(rows[i]))
                                          ELSE f[i - 1]]
<1>6. Loop(loop)
  <2>. DEFINE body(i) == IF i = 0 THEN queue ELSE Pass(loop[i - 1], i)
  <2>1. loop = [i \in 0..n |-> loop[i]]
    <3>. HIDE DEF V, n
    <3>. QED  BY <1>4 DEF IsLoop
  <2>2. ASSUME NEW i \in 0..n PROVE loop[i] = body(i)
    <3>1. i = 0 \/ i \in 1..n
      BY <1>1
    <3>2. CASE i = 0
      <4>. HIDE DEF V, n, Pass
      <4>. QED  BY <1>4, <3>2 DEF IsLoop
    <3>3. CASE i \in 1..n
      <4>1. i # 0
        BY <1>1, <3>3
      <4>. HIDE DEF V, n, Pass
      <4>. QED  BY <1>5, <3>3, <4>1
    <3>. QED  BY <3>1, <3>2, <3>3
  <2>3. loop = [i \in 0..n |-> body(i)]
    <3>. HIDE DEF body, n
    <3>. QED  BY <2>1, <2>2
  <2>. HIDE DEF n
  <2>. QED  BY <2>3
<1>7. PICK f : f = (CHOOSE g : Loop(g))
  OBVIOUS
<1>8. Loop(f)
  <2>. HIDE DEF Loop
  <2>. QED  BY <1>6, <1>7
<1>. DEFINE T == {i \in 0..n : f[i] \in V /\ ToSet(f[i]) = ToSet(queue) \cup Jobs(i)}
<1>9. 0..n \subseteq T
  <2>1. 0 \in T
    <3>1. f[0] = queue /\ Jobs(0) = {}
      BY <1>1, <1>8
    <3>. QED  BY <3>1, <1>1
  <2>2. ASSUME NEW i \in 1..n, i - 1 \in T PROVE i \in T
    <3>1. f[i] = Pass(f[i - 1], i)
      <4>1. i \in 0..n /\ i # 0
        BY <1>1
      <4>. HIDE DEF n
      <4>. QED  BY <1>8, <4>1
    <3>2. f[i - 1] \in V /\ ToSet(f[i - 1]) = ToSet(queue) \cup Jobs(i - 1)
      BY <2>2
    <3>3. 1..i = 1..(i - 1) \cup {i}
      BY <1>1
    <3>4. Jobs(i) = Jobs(i - 1) \cup
            (IF Unfinished(rows[i]) THEN {Job(rows[i])} ELSE {})
      BY <3>3
    <3>. HIDE DEF Jobs, Pass, V
    <3>. QED  BY <3>1, <3>2, <3>4, <1>2
  <2>3. \A i \in 1..n : i - 1 \in T => i \in T
    BY <2>2
  <2>. HIDE DEF T
  <2>. QED  BY <1>1, <2>1, <2>3, EachPass
<1>10. f[n] \in V /\ ToSet(f[n]) = ToSet(queue) \cup Jobs(n)
  BY <1>1, <1>9
<1>11. Loaded = f[n]
  BY <1>7 DEF Loaded
<1>12. Jobs(n) = {Job(i) : i \in {j \in Rows : Unfinished(j)}}
  <2>1. Rows = {rows[k] : k \in 1..n}
    BY <1>1 DEF Rows, ToSet
  <2>. HIDE DEF Rows, n
  <2>. QED  BY <2>1
<1>. QED  BY <1>10, <1>11, <1>12

\* The status of what a job is about is set, when its row has still its id.
LEMMA StatusStep ==
  ASSUME Types, RowsOK, NEW job, job.item \in Rows, NEW s \in MayHave,
         SetStatus(job, s)
  PROVE  /\ status' \in [Items -> MayHave]
         /\ \A i \in Items : i # job.item => status'[i] = status[i]
         /\ IF id[job.item] = job.id
            THEN status'[job.item] = s /\ patched' = patched \ {job.item}
            ELSE UNCHANGED <<status, patched>>
         /\ patched' \subseteq patched
<1>1. status \in [Items -> MayHave] /\ job.item \in Items
  BY DEF Types, Rows, ToSet
<1>. HIDE DEF MayHave, Items
<1>2. CASE Gone(job)
  BY <1>1, <1>2 DEF SetStatus, Gone
<1>3. CASE ~ Gone(job)
  BY <1>1, <1>3 DEF SetStatus, Set, Gone
<1>. QED  BY <1>2, <1>3

LEMMA RowItems ==
  ASSUME Types
  PROVE  Rows \subseteq Items /\ NULL \notin Items /\ Maintenance \notin Requesters
         /\ Uploads \cap (Urls \cup Packages) = {} /\ Urls \cap Packages = {}
BY InstallerAssumption DEF Types, Rows, ToSet, InstallerAssumption

\* What a step leaves alone stays right.
LEMMA Kept ==
  ASSUME Inv, Types', RowsOK', Rows \subseteq Rows',
         \A r \in Asking :
           (request'[r] = request[r] /\ server' = server) \/ RequestOK(r)',
         \A job \in ToSet(queue)' : job \in ToSet(queue) \/ JobOK(job)',
         \A p \in Processes : process'[p] = process[p] \/ CallOK(p)',
         (process'["direct"] = process["direct"] /\ server' = server) \/ DirectOK',
         HistoryOK'
  PROVE  Inv'
<1>1. RequestsOK'
  <2>1. ASSUME NEW r \in Asking, request'[r] = request[r], server' = server
        PROVE  RequestOK(r)'
    <3>1. RequestOK(r)
      BY DEF Inv, RequestsOK
    <3>. QED  BY <3>1, <2>1 DEF RequestOK
  <2>. QED  BY <2>1 DEF RequestsOK
<1>2. JobsOK'
  BY DEF Inv, JobsOK, JobOK
<1>3. CallsOK'
  <2>1. ASSUME NEW p \in Processes, process'[p] = process[p]
        PROVE  CallOK(p)'
    <3>1. CallOK(p)
      BY DEF Inv, CallsOK
    <3>. QED  BY <3>1, <2>1 DEF CallOK
  <2>2. DirectOK'
    BY DEF Inv, CallsOK, DirectOK
  <2>. QED  BY <2>1, <2>2 DEF CallsOK
<1>. QED  BY <1>1, <1>2, <1>3 DEF Inv
-----------------------------------------------------------------------------
(* The requests *)

LEMMA UploadKeeps ==
  ASSUME Inv, NEW r \in Requesters, NEW i \in Uploads, Upload(r, i)
  PROVE  Inv'
<1>1. Types /\ RowsOK /\ HistoryOK /\ i \in Items /\ r \in Asking /\ r # Maintenance
  BY InstallerAssumption DEF Inv, Items, Asking, InstallerAssumption
<1>2. id[i] + 1 \in Nat \ {0} /\ rows' \in Seq(Items) /\ Rows' = Rows \cup {i}
  BY <1>1, InsertStep DEF Upload, Types, Rows
<1>3. PICK w : w = Asks("posted", i, id[i] + 1)
  OBVIOUS
<1>4. /\ w \in [at : Requested, item : Items \cup {NULL}, id : Nat]
      /\ w.at = "posted" /\ w.item = i /\ w.id # 0
  BY <1>1, <1>2, <1>3 DEF Asks, Requested
<1>5. /\ request' \in [Asking -> [at : Requested, item : Items \cup {NULL}, id : Nat]]
      /\ request'[r] = w /\ \A s \in Asking : s # r => request'[s] = request[s]
  BY <1>1, <1>3, <1>4, RequestSet DEF Upload
<1>6. /\ id' \in [Items -> Nat] /\ status' \in [Items -> MayHave]
      /\ id'[i] # 0 /\ \A j \in Items : j # i => id'[j] = id[j] /\ status'[j] = status[j]
  BY <1>1, <1>2 DEF Upload, Set, Types, MayHave, Statuses
<1>7. /\ UNCHANGED <<retries, queue, process, read, timers, needed, server, faults, crossed>>
      /\ deserted' \subseteq deserted /\ patched' \subseteq patched
  BY DEF Upload, Set, memory
<1>8. asked' \in 0..MaxRequests /\ server = "up"
  BY <1>1, InstallerAssumption DEF Upload, CanAsk, Types, InstallerAssumption
<1>9. Types'
  BY <1>1, <1>2, <1>5, <1>6, <1>7, <1>8 DEF Types
<1>10. RowsOK'
  BY <1>1, <1>2, <1>6 DEF RowsOK
<1>11. RequestOK(r)'
  BY <1>1, <1>2, <1>4, <1>5, <1>7, <1>8, RowItems DEF RequestOK
<1>. QED  BY <1>1, <1>2, <1>5, <1>7, <1>9, <1>10, <1>11, Kept DEF HistoryOK

LEMMA LookKeeps ==
  ASSUME Inv, NEW r \in Asking, NEW i \in Urls \cup Packages, Look(r, i),
         r = Maintenance => i \in Urls
  PROVE  Inv'
<1>1. Types /\ RowsOK /\ HistoryOK /\ i \in Items /\ i \notin Uploads
  BY InstallerAssumption DEF Inv, Items, InstallerAssumption
<1>2. PICK w : w = Asks(IF i \in ToSet(rows) THEN "found" ELSE "missing", i, 1)
  OBVIOUS
<1>3. /\ w \in [at : Requested, item : Items \cup {NULL}, id : Nat]
      /\ w.at = (IF i \in Rows THEN "found" ELSE "missing") /\ w.item = i /\ w.id = 1
  BY <1>1, <1>2 DEF Asks, Requested, Rows
<1>4. /\ request' \in [Asking -> [at : Requested, item : Items \cup {NULL}, id : Nat]]
      /\ request'[r] = w /\ \A s \in Asking : s # r => request'[s] = request[s]
  BY <1>1, <1>2, <1>3, RequestSet DEF Look
<1>5. UNCHANGED <<rows, id, status, retries, queue, process, read, timers, needed, server,
                  faults, deserted, patched, crossed>>
  BY DEF Look, events, memory, history
<1>6. asked' \in 0..MaxRequests /\ server = "up"
  BY <1>1, InstallerAssumption DEF Look, CanAsk, Types, InstallerAssumption
<1>7. Types' /\ RowsOK' /\ Rows' = Rows
  BY <1>1, <1>4, <1>5, <1>6 DEF Types, RowsOK, Rows
<1>8. RequestOK(r)'
  BY <1>1, <1>3, <1>4, <1>5, <1>6, <1>7, RowItems DEF RequestOK
<1>. QED  BY <1>1, <1>4, <1>5, <1>7, <1>8, Kept DEF HistoryOK

LEMMA ReuseKeeps ==
  ASSUME Inv, NEW r \in Asking, Reuse(r)
  PROVE  Inv'
<1>1. Types /\ RowsOK /\ HistoryOK /\ RequestOK(r)
  BY DEF Inv, RequestsOK
<1>2. PICK i : i = request[r].item
  OBVIOUS
<1>3. /\ i \in Rows /\ i \in Items /\ i \notin Uploads /\ request[r].id = 1 /\ server = "up"
      /\ r = Maintenance => i \in Urls
  BY <1>1, <1>2, RowItems DEF Reuse, RequestOK
<1>4. /\ request' \in [Asking -> [at : Requested, item : Items \cup {NULL}, id : Nat]]
      /\ request'[r].at = "posted" /\ request'[r].item = i /\ request'[r].id = 1
      /\ \A s \in Asking : s # r => request'[s] = request[s]
  BY <1>1, <1>2, <1>3, RequestGoto DEF Reuse, Requested
<1>5. /\ status' = [status EXCEPT ![i] = "pending"]
      /\ retries' = IF i \in Packages THEN [retries EXCEPT ![i] = 0] ELSE retries
      /\ deserted' = deserted \ {i} /\ patched' = patched \ {i}
      /\ UNCHANGED <<rows, id, queue, process, read, timers, needed, server, asked, faults,
                     crossed>>
  BY <1>2 DEF Reuse, Set, memory
<1>6. status' \in [Items -> MayHave] /\ retries' \in [Items -> Int]
      /\ \A j \in Items : j # i => status'[j] = status[j]
  BY <1>1, <1>3, <1>5 DEF Types, MayHave, Statuses
<1>7. Types' /\ Rows' = Rows
  BY <1>1, <1>4, <1>5, <1>6 DEF Types, Rows
<1>8. RowsOK'
  BY <1>1, <1>3, <1>5, <1>6, <1>7 DEF RowsOK
<1>9. RequestOK(r)'
  BY <1>3, <1>4, <1>5, <1>7, RowItems, <1>1 DEF RequestOK
<1>. QED  BY <1>1, <1>4, <1>5, <1>7, <1>8, <1>9, Kept DEF HistoryOK

LEMMA DispatchKeeps ==
  ASSUME Inv, NEW r \in Asking, Dispatch(r)
  PROVE  Inv'
<1>1. Types /\ RowsOK /\ HistoryOK /\ RequestOK(r)
  BY DEF Inv, RequestsOK
<1>2. PICK i : i = request[r].item
  OBVIOUS
<1>3. /\ request[r].at = "missing" /\ request[r].id = 1 /\ server = "up"
      /\ i \in Items /\ i \notin Uploads /\ (r = Maintenance => i \in Urls)
  <2>1. request[r].item \in Items \cup {NULL}
    BY <1>1 DEF Types
  <2>. QED  BY <2>1, <1>1, <1>2, RowItems DEF Dispatch, RequestOK
<1>4. /\ UNCHANGED <<retries, queue, process, read, timers, needed, server, asked, faults,
                     deserted, crossed>>
      /\ patched' \subseteq patched
  BY DEF Dispatch, Set, memory
<1>5. CASE i \in ToSet(rows)
  <2>1. request' = [request EXCEPT ![r] = Nobody] /\ UNCHANGED <<rows, id, status>>
    BY <1>2, <1>5 DEF Dispatch
  <2>2. /\ request' \in [Asking -> [at : Requested, item : Items \cup {NULL}, id : Nat]]
        /\ request'[r] = Nobody /\ \A s \in Asking : s # r => request'[s] = request[s]
    BY <2>1, <1>1, NobodyIs, RequestSet
  <2>3. Types' /\ RowsOK' /\ Rows' = Rows
    BY <2>1, <2>2, <1>1, <1>4 DEF Types, RowsOK, Rows
  <2>4. RequestOK(r)'
    BY <2>2, NobodyIs DEF RequestOK
  <2>. QED  BY <2>1, <2>2, <2>3, <2>4, <1>1, <1>4, Kept DEF HistoryOK
<1>6. CASE i \notin ToSet(rows)
  <2>1. /\ rows' = Insert(i) /\ id' = [id EXCEPT ![i] = 1]
        /\ status' = [status EXCEPT ![i] = "pending"]
        /\ request' = [request EXCEPT ![r].at = "posted"]
    BY <1>2, <1>6 DEF Dispatch, Set
  <2>2. rows' \in Seq(Items) /\ Rows' = Rows \cup {i}
    BY <2>1, <1>1, <1>3, InsertStep DEF Rows
  <2>3. /\ request' \in [Asking -> [at : Requested, item : Items \cup {NULL}, id : Nat]]
        /\ request'[r].at = "posted" /\ request'[r].item = i /\ request'[r].id = 1
        /\ \A s \in Asking : s # r => request'[s] = request[s]
    BY <2>1, <1>1, <1>2, <1>3, RequestGoto DEF Requested
  <2>4. /\ id' \in [Items -> Nat] /\ status' \in [Items -> MayHave]
        /\ id'[i] = 1 /\ \A j \in Items : j # i => id'[j] = id[j] /\ status'[j] = status[j]
    BY <2>1, <1>1, <1>3 DEF Types, MayHave, Statuses
  <2>5. Types'
    BY <2>2, <2>3, <2>4, <1>1, <1>4 DEF Types
  <2>6. RowsOK'
    BY <2>2, <2>4, <1>1 DEF RowsOK
  <2>7. RequestOK(r)'
    BY <2>2, <2>3, <1>1, <1>3, <1>4, RowItems DEF RequestOK
  <2>. QED  BY <2>2, <2>3, <2>5, <2>6, <2>7, <1>1, <1>4, Kept DEF HistoryOK
<1>. QED  BY <1>5, <1>6

LEMMA EnqueueKeeps ==
  ASSUME Inv, NEW r \in Asking, Enqueue(r)
  PROVE  Inv'
<1>1. Types /\ RowsOK /\ HistoryOK /\ RequestOK(r)
  BY DEF Inv, RequestsOK
<1>2. PICK job : job = [item |-> request[r].item, id |-> request[r].id]
  OBVIOUS
<1>3. /\ request[r].at = "posted" /\ queue' = Append(queue, job)
      /\ request' = [request EXCEPT ![r] = Nobody]
      /\ UNCHANGED <<rows, id, status, retries, process, read, timers, needed, server, asked,
                     faults, deserted, patched, crossed>>
  BY <1>2 DEF Enqueue, events, history
<1>4. job \in JobRecord /\ JobOK(job)
  <2>1. request[r].item \in Rows /\ request[r].id \in Nat \ {0}
        /\ (request[r].item \notin Uploads => request[r].id = 1)
    BY <1>1, <1>3 DEF RequestOK, Types
  <2>. QED  BY <2>1, <1>1, <1>2, RowItems DEF JobRecord, JobOK
<1>5. queue' \in Seq(JobRecord) /\ ToSet(queue') = ToSet(queue) \cup {job}
  <2>1. queue \in Seq(JobRecord)
    BY <1>1 DEF Types
  <2>. QED  BY <2>1, <1>3, <1>4, QueueSets
<1>6. /\ request' \in [Asking -> [at : Requested, item : Items \cup {NULL}, id : Nat]]
      /\ request'[r] = Nobody /\ \A s \in Asking : s # r => request'[s] = request[s]
  BY <1>1, <1>3, NobodyIs, RequestSet
<1>7. Types' /\ RowsOK' /\ Rows' = Rows
  BY <1>1, <1>3, <1>5, <1>6 DEF Types, RowsOK, Rows
<1>8. RequestOK(r)' /\ JobOK(job)'
  BY <1>4, <1>6, <1>7, NobodyIs DEF RequestOK, JobOK
<1>. QED  BY <1>1, <1>3, <1>5, <1>6, <1>7, <1>8, Kept DEF HistoryOK

\* A request that raises is over, and what it was about is known as deserted.
LEMMA UnpublishedKeeps ==
  ASSUME Inv, NEW r \in Asking, Unpublished(r)
  PROVE  Inv'
<1>1. Types /\ RowsOK /\ HistoryOK /\ RequestOK(r)
  BY DEF Inv, RequestsOK
<1>2. /\ request[r].at = "posted" /\ request' = [request EXCEPT ![r] = Nobody]
      /\ deserted' \subseteq deserted \cup {request[r].item} /\ faults' \in 0..MaxFaults
      /\ UNCHANGED <<rows, id, status, retries, queue, process, read, timers, needed, server,
                     asked, patched, crossed>>
  BY <1>1, InstallerAssumption
  DEF Unpublished, Fault, events, memory, Types, InstallerAssumption
<1>3. /\ request' \in [Asking -> [at : Requested, item : Items \cup {NULL}, id : Nat]]
      /\ request'[r] = Nobody /\ \A s \in Asking : s # r => request'[s] = request[s]
  BY <1>1, <1>2, NobodyIs, RequestSet
<1>4. Types' /\ RowsOK' /\ Rows' = Rows
  BY <1>1, <1>2, <1>3 DEF Types, RowsOK, Rows
<1>5. RequestOK(r)'
  BY <1>3, NobodyIs DEF RequestOK
<1>6. HistoryOK'
  <2>1. request[r].item \in Items
    BY <1>1, <1>2, RowItems DEF RequestOK
  <2>. QED  BY <2>1, <1>1, <1>2 DEF HistoryOK
<1>. QED  BY <1>2, <1>3, <1>4, <1>5, <1>6, Kept

\* A PATCH changes the status and the retries of an event that has a row.
LEMMA PatchKeeps ==
  ASSUME Inv, NEW i \in Items, NEW s \in PatchStatuses \cup {NULL},
         NEW n \in PatchRetries \cup {NULL}, Patch(i, s, n)
  PROVE  Inv'
<1>1. Types /\ RowsOK /\ HistoryOK /\ i \in Rows
  BY DEF Inv, Patch, Rows
<1>2. /\ status' \in [Items -> MayHave] /\ \A j \in Items : j # i => status'[j] = status[j]
      /\ patched' \subseteq patched \cup {i}
  BY <1>1, InstallerAssumption DEF Patch, Types, MayHave, InstallerAssumption
<1>3. retries' \in [Items -> Int]
  BY <1>1, InstallerAssumption DEF Patch, Types, InstallerAssumption
<1>4. /\ asked' \in 0..MaxRequests
      /\ UNCHANGED <<rows, id, request, queue, process, read, timers, needed, server, faults,
                     deserted, crossed>>
  BY <1>1, InstallerAssumption DEF Patch, memory, Types, InstallerAssumption
<1>5. Types' /\ Rows' = Rows
  BY <1>1, <1>2, <1>3, <1>4 DEF Types, Rows
<1>6. RowsOK' /\ HistoryOK'
  BY <1>1, <1>2, <1>4, <1>5 DEF RowsOK, HistoryOK
<1>. QED  BY <1>4, <1>5, <1>6, Kept
-----------------------------------------------------------------------------
(* The calls *)

\* A call of process_event begins, or the job is dropped.
LEMMA CallStep ==
  ASSUME Inv, NEW p \in Processes, NEW job \in JobRecord, JobOK(job), Call(p, job)
  PROVE  /\ process' \in [Processes -> [at : Waiting \cup Busy,
                                        item : Items \cup {NULL}, id : Nat]]
         /\ \A q \in Processes : q # p => process'[q] = process[q]
         /\ IF Drops(job) THEN process' = process
            ELSE /\ process'[p].at = "called" /\ process'[p].item = job.item
                 /\ process'[p].id = job.id
<1>1. Types
  BY DEF Inv
<1>2. CASE Drops(job)
  BY <1>1, <1>2 DEF Call, Types
<1>3. CASE ~ Drops(job)
  <2>1. PICK w : w = Asks("called", job.item, job.id)
    OBVIOUS
  <2>2. /\ w \in [at : Waiting \cup Busy, item : Items \cup {NULL}, id : Nat]
        /\ w.at = "called" /\ w.item = job.item /\ w.id = job.id
    BY <2>1 DEF Asks, Waiting, Busy, JobRecord
  <2>3. process' = [process EXCEPT ![p] = w]
    BY <2>1, <1>3 DEF Call
  <2>4. /\ process' \in [Processes -> [at : Waiting \cup Busy,
                                       item : Items \cup {NULL}, id : Nat]]
        /\ process'[p] = w
        /\ \A q \in Processes : q # p => process'[q] = process[q]
    BY <2>2, <2>3, <1>1, SetStep
  <2>. QED  BY <2>2, <2>4, <1>3
<1>. QED  BY <1>2, <1>3

LEMMA HeadIs ==
  ASSUME Inv, queue # << >>
  PROVE  /\ Head(queue) \in JobRecord /\ JobOK(Head(queue))
         /\ Tail(queue) \in Seq(JobRecord)
         /\ ToSet(queue) = ToSet(Tail(queue)) \cup {Head(queue)}
<1>1. queue \in Seq(JobRecord)
  BY DEF Inv, Types
<1>2. Head(queue) \in JobRecord
  BY <1>1
<1>3. Tail(queue) \in Seq(JobRecord) /\ ToSet(queue) = ToSet(Tail(queue)) \cup {Head(queue)}
  BY <1>1, <1>2, QueueSets
<1>. QED  BY <1>2, <1>3 DEF Inv, JobsOK

LEMMA GetKeeps ==
  ASSUME Inv, Get
  PROVE  Inv'
<1>1. Types /\ RowsOK /\ HistoryOK /\ "queued" \in Processes
  BY DEF Inv, Processes
<1>2. PICK job : job = Head(queue)
  OBVIOUS
<1>3. /\ queue # << >> /\ Call("queued", job) /\ queue' = Tail(queue)
      /\ UNCHANGED <<rows, id, status, retries, request, read, timers, needed, server, asked,
                     faults, deserted, patched, crossed>>
  BY <1>2 DEF Get, events
<1>4. /\ job \in JobRecord /\ JobOK(job) /\ queue' \in Seq(JobRecord)
      /\ ToSet(queue') \subseteq ToSet(queue)
  BY <1>2, <1>3, HeadIs
<1>5. /\ process' \in [Processes -> [at : Waiting \cup Busy,
                                     item : Items \cup {NULL}, id : Nat]]
      /\ \A q \in Processes : q # "queued" => process'[q] = process[q]
      /\ IF Drops(job) THEN process' = process
         ELSE /\ process'["queued"].at = "called" /\ process'["queued"].item = job.item
              /\ process'["queued"].id = job.id
  BY <1>1, <1>3, <1>4, CallStep
<1>6. Types' /\ RowsOK' /\ Rows' = Rows
  BY <1>1, <1>3, <1>4, <1>5 DEF Types, RowsOK, Rows
<1>7. process'["queued"] = process["queued"] \/ CallOK("queued")'
  <2>1. NULL \notin Rows
    BY <1>1, RowItems
  <2>. QED  BY <2>1, <1>4, <1>5, <1>6 DEF CallOK, JobOK, JobRecord, Waiting, Busy
<1>8. process'["direct"] = process["direct"]
  BY <1>5 DEF Processes
<1>. QED  BY <1>1, <1>3, <1>4, <1>5, <1>6, <1>7, <1>8, Kept DEF HistoryOK

LEMMA CallDirectKeeps ==
  ASSUME Inv, CallDirect
  PROVE  Inv'
<1>1. /\ Types /\ RowsOK /\ HistoryOK /\ RequestOK(Maintenance)
      /\ "direct" \in Processes /\ Maintenance \in Asking
  BY DEF Inv, Processes, Asking, RequestsOK
<1>2. PICK job : job = [item |-> request[Maintenance].item, id |-> request[Maintenance].id]
  OBVIOUS
<1>3. /\ request[Maintenance].at = "posted" /\ Call("direct", job)
      /\ request' = [request EXCEPT ![Maintenance] = Nobody]
      /\ UNCHANGED <<rows, id, status, retries, queue, read, timers, needed, server, asked,
                     faults, deserted, patched, crossed>>
  BY <1>2 DEF CallDirect, events, history
<1>4. /\ job \in JobRecord /\ JobOK(job) /\ job.item \in Urls /\ server = "up"
  <2>1. /\ request[Maintenance].item \in Rows /\ request[Maintenance].id \in Nat \ {0}
        /\ request[Maintenance].item \in Urls /\ server = "up"
        /\ (request[Maintenance].item \notin Uploads => request[Maintenance].id = 1)
    BY <1>1, <1>3 DEF RequestOK, Types
  <2>. QED  BY <2>1, <1>1, <1>2, RowItems DEF JobRecord, JobOK
<1>5. /\ process' \in [Processes -> [at : Waiting \cup Busy,
                                     item : Items \cup {NULL}, id : Nat]]
      /\ \A q \in Processes : q # "direct" => process'[q] = process[q]
      /\ IF Drops(job) THEN process' = process
         ELSE /\ process'["direct"].at = "called" /\ process'["direct"].item = job.item
              /\ process'["direct"].id = job.id
  BY <1>1, <1>3, <1>4, CallStep
<1>6. /\ request' \in [Asking -> [at : Requested, item : Items \cup {NULL}, id : Nat]]
      /\ request'[Maintenance] = Nobody
      /\ \A s \in Asking : s # Maintenance => request'[s] = request[s]
  BY <1>1, <1>3, NobodyIs, RequestSet
<1>7. Types' /\ RowsOK' /\ Rows' = Rows
  BY <1>1, <1>3, <1>5, <1>6 DEF Types, RowsOK, Rows
<1>8. process'["direct"] = process["direct"] \/ (CallOK("direct")' /\ DirectOK')
  <2>1. NULL \notin Rows
    BY <1>1, RowItems
  <2>2. CASE ~ Drops(job)
    <3>1. /\ process'["direct"].at = "called" /\ process'["direct"].item = job.item
          /\ process'["direct"].id = job.id
      BY <2>2, <1>5
    <3>2. CallOK("direct")'
      BY <2>1, <3>1, <1>4, <1>7 DEF CallOK, JobOK, JobRecord, Waiting, Busy
    <3>3. DirectOK'
      BY <3>1, <1>3, <1>4 DEF DirectOK
    <3>. QED  BY <3>2, <3>3
  <2>3. CASE Drops(job)
    <3>1. process' = process
      BY <2>3, <1>5
    <3>. QED  BY <3>1
  <2>. QED  BY <2>2, <2>3
<1>9. RequestOK(Maintenance)'
  BY <1>6, NobodyIs DEF RequestOK
<1>. QED  BY <1>1, <1>3, <1>5, <1>6, <1>7, <1>8, <1>9, Kept DEF HistoryOK

\* A call that goes on with its item stays right.
LEMMA GoesOn ==
  ASSUME Inv, NEW p \in Processes, process[p].at \in Busy,
         NEW at \in Busy, p = "queued" \/ at \notin {"raised", "caught"}, Goto(p, at),
         Types', RowsOK', HistoryOK',
         UNCHANGED <<rows, request, queue, server>>
  PROVE  Inv'
<1>1. Types /\ CallOK(p) /\ DirectOK /\ at \in Waiting \cup Busy
  BY DEF Inv, CallsOK
<1>2. /\ process'[p].at = at
      /\ process'[p].item = process[p].item /\ process'[p].id = process[p].id
      /\ \A q \in Processes : q # p => process'[q] = process[q]
  BY <1>1, GotoStep
<1>3. Rows' = Rows
  BY DEF Rows
<1>4. CallOK(p)'
  BY <1>1, <1>2, <1>3 DEF CallOK, Busy, Waiting
<1>5. process'["direct"] = process["direct"] \/ DirectOK'
  BY <1>1, <1>2 DEF DirectOK, Busy, Processes
<1>. QED  BY <1>2, <1>3, <1>4, <1>5, Kept

\* A call that ends is about nothing.
LEMMA Leaves ==
  ASSUME Inv, NEW p \in Processes, process' = Leave(p),
         RowsOK', HistoryOK',
         UNCHANGED <<rows, id, request, server, asked>>,
         status' \in [Items -> MayHave], retries' \in [Items -> Int],
         read' \in Int, timers' \in Nat, faults' \in 0..MaxFaults,
         queue' \in Seq(JobRecord),
         \A job \in ToSet(queue') : job \in ToSet(queue) \/ JobOK(job)
  PROVE  Inv'
<1>1. Types
  BY DEF Inv
<1>2. /\ process' \in [Processes -> [at : Waiting \cup Busy,
                                     item : Items \cup {NULL}, id : Nat]]
      /\ process'[p] = Nobody
      /\ \A q \in Processes : q # p => process'[q] = process[q]
  BY <1>1, NobodyIs, SetStep DEF Leave
<1>3. Types' /\ Rows' = Rows
  BY <1>1, <1>2 DEF Types, Rows
<1>4. CallOK(p)'
  BY <1>2, NobodyIs DEF CallOK, Waiting, Busy
<1>5. process'["direct"] = process["direct"] \/ DirectOK'
  BY <1>2, NobodyIs DEF DirectOK, Busy, Processes
<1>6. \A job : JobOK(job)' = JobOK(job)
  BY <1>3 DEF JobOK
<1>. QED  BY <1>2, <1>3, <1>4, <1>5, <1>6, Kept

LEMMA OtherIs ==
  /\ Other("queued") = "direct" /\ Other("direct") = "queued"
  /\ Processes = {"queued", "direct"}
<1>1. \A p \in Processes : \E q \in Processes : q # p
  BY DEF Processes
<1>. QED  BY <1>1 DEF Other, Processes

LEMMA BeginKeeps ==
  ASSUME Inv, NEW p \in Processes, Begin(p)
  PROVE  Inv'
<1>1. Types /\ RowsOK /\ HistoryOK /\ CallsOK /\ process[p].at = "called"
  BY DEF Inv, Begin, At
<1>2. process[p].item \in Rows
  BY <1>1 DEF CallsOK, CallOK, Busy
<1>3. status' \in [Items -> MayHave]
      /\ \A i \in Items : i # process[p].item => status'[i] = status[i]
  BY <1>1, <1>2, StatusStep DEF Begin, MayHave, Statuses
<1>4. /\ Goto(p, "working")
      /\ UNCHANGED <<rows, id, retries, request, queue, read, timers, needed, server, asked,
                     faults, deserted>>
  BY DEF Begin
<1>5. Types'
  <2>1. process' \in [Processes -> [at : Waiting \cup Busy, item : Items \cup {NULL},
                                    id : Nat]]
    BY <1>1, <1>4, GotoStep DEF Busy
  <2>. QED  BY <2>1, <1>1, <1>3, <1>4 DEF Types
<1>6. RowsOK'
  BY <1>1, <1>2, <1>3, <1>4 DEF RowsOK, Rows
<1>7. HistoryOK'
  <2>1. PlacesOf(p) \subseteq Places
    BY <1>1, <1>2, RowItems, InstallerAssumption DEF PlacesOf, InstallerAssumption
  <2>2. patched' \subseteq patched
    BY <1>1, <1>2, StatusStep DEF Begin, MayHave, Statuses
  <2>. QED  BY <2>1, <2>2, <1>1, <1>4 DEF Begin, HistoryOK
<1>. QED  BY <1>1, <1>4, <1>5, <1>6, <1>7, GoesOn DEF Busy

LEMMA WorkKeeps ==
  ASSUME Inv, NEW p \in Processes, RemoveOld(p) \/ Move(p) \/ FailUpload(p)
  PROVE  Inv'
<1>1. Types /\ RowsOK /\ HistoryOK /\ CallsOK /\ process[p].at \in {"working", "removed"}
  BY DEF Inv, RemoveOld, Move, FailUpload, At
<1>2. process[p].item \in Rows
  BY <1>1 DEF CallsOK, CallOK, Busy
<1>3. /\ status' \in [Items -> MayHave]
      /\ \A i \in Items : i # process[p].item => status'[i] = status[i]
      /\ patched' \subseteq patched
  <2>1. CASE RemoveOld(p) \/ Move(p)
    BY <2>1, <1>1 DEF RemoveOld, Move, events, history, Types
  <2>2. CASE FailUpload(p)
    BY <2>2, <1>1, <1>2, StatusStep DEF FailUpload, MayHave, Statuses
  <2>. QED  BY <2>1, <2>2
<1>4. /\ Goto(p, "removed") \/ Goto(p, "moved")
      /\ UNCHANGED <<rows, id, retries, request, queue, read, timers, needed, server, asked,
                     faults, deserted, crossed>>
  BY DEF RemoveOld, Move, FailUpload, events, history
<1>5. Types'
  <2>1. process' \in [Processes -> [at : Waiting \cup Busy, item : Items \cup {NULL},
                                    id : Nat]]
    BY <1>1, <1>4, GotoStep DEF Busy
  <2>. QED  BY <2>1, <1>1, <1>3, <1>4 DEF Types
<1>6. RowsOK' /\ HistoryOK'
  BY <1>1, <1>2, <1>3, <1>4 DEF RowsOK, Rows, HistoryOK
<1>. QED  BY <1>1, <1>4, <1>5, <1>6, GoesOn DEF Busy

LEMMA FinishKeeps ==
  ASSUME Inv, NEW p \in Processes, Finish(p)
  PROVE  Inv'
<1>1. Types /\ RowsOK /\ HistoryOK /\ CallsOK /\ process[p].at = "moved"
  BY DEF Inv, Finish, At
<1>2. process[p].item \in Rows
  BY <1>1 DEF CallsOK, CallOK, Busy
<1>3. /\ status' \in [Items -> MayHave]
      /\ \A i \in Items : i # process[p].item => status'[i] = status[i]
      /\ patched' \subseteq patched
  BY <1>1, <1>2, StatusStep DEF Finish, MayHave, Statuses
<1>4. UNCHANGED <<rows, id, retries, request, queue, read, server, asked, faults, deserted,
                  crossed>>
  BY DEF Finish
<1>5. RowsOK' /\ HistoryOK'
  BY <1>1, <1>2, <1>3, <1>4 DEF RowsOK, Rows, HistoryOK
<1>6. CASE p = "queued"
  <2>1. process' = Leave(p) /\ timers' = timers + 1
    BY <1>6 DEF Finish, Timers
  <2>2. /\ retries' \in [Items -> Int] /\ read' \in Int /\ timers' \in Nat
        /\ faults' \in 0..MaxFaults /\ queue' \in Seq(JobRecord)
    BY <2>1, <1>1, <1>4 DEF Types
  <2>. QED  BY <2>1, <2>2, <1>3, <1>4, <1>5, Leaves
<1>7. CASE p # "queued"
  <2>1. Goto(p, "finished") /\ UNCHANGED timers
    BY <1>7 DEF Finish
  <2>2. process' \in [Processes -> [at : Waiting \cup Busy, item : Items \cup {NULL},
                                    id : Nat]]
    BY <2>1, <1>1, GotoStep DEF Busy
  <2>3. Types'
    BY <2>1, <2>2, <1>1, <1>3, <1>4 DEF Types
  <2>. QED  BY <2>1, <2>3, <1>1, <1>4, <1>5, GoesOn DEF Busy
<1>. QED  BY <1>6, <1>7

\* The exception of a call is for run() to handle; without the queue the call ends.
LEMMA RaiseKeeps ==
  ASSUME Inv, NEW p \in Processes, process[p].at \in Busy, Raise(p), RowsOK',
         UNCHANGED <<rows, id, retries, request, queue, read, timers, server, asked,
                     crossed>>,
         status' \in [Items -> MayHave], faults' \in 0..MaxFaults,
         patched' \subseteq patched
  PROVE  Inv'
<1>1. /\ Types /\ HistoryOK /\ CallsOK /\ process[p].item \in Items
  BY RowItems DEF Inv, CallsOK, CallOK
<1>2. CASE p = "queued"
  <2>1. Goto(p, "raised") /\ UNCHANGED deserted
    BY <1>2 DEF Raise
  <2>2. process' \in [Processes -> [at : Waiting \cup Busy, item : Items \cup {NULL},
                                    id : Nat]]
    BY <2>1, <1>1, GotoStep DEF Busy
  <2>3. Types' /\ HistoryOK'
    BY <2>1, <2>2, <1>1 DEF Types, HistoryOK
  <2>. QED  BY <2>1, <2>3, <1>2, GoesOn DEF Busy
<1>3. CASE p # "queued"
  <2>1. process' = Leave(p) /\ deserted' = deserted \cup {process[p].item}
    BY <1>3 DEF Raise
  <2>2. HistoryOK'
    BY <2>1, <1>1 DEF HistoryOK
  <2>. QED  BY <2>1, <2>2, <1>1, Leaves DEF Types
<1>. QED  BY <1>2, <1>3

LEMMA FaultStep ==
  ASSUME Types, Fault
  PROVE  faults' \in 0..MaxFaults
BY InstallerAssumption DEF Types, Fault, InstallerAssumption

LEMMA FailUrlKeeps ==
  ASSUME Inv, NEW p \in Processes, FailUrl(p)
  PROVE  Inv'
<1>1. /\ Types /\ RowsOK /\ process[p].at \in Busy /\ Raise(p)
      /\ UNCHANGED <<rows, id, status, retries, request, queue, read, timers, server, asked,
                     faults, patched, crossed>>
  BY DEF Inv, FailUrl, Fail, events, Busy
<1>2. RowsOK'
  BY <1>1 DEF RowsOK, Rows
<1>. QED  BY <1>1, <1>2, RaiseKeeps DEF Types

LEMMA FailUpdateKeeps ==
  ASSUME Inv, NEW p \in Processes, FailUpdate(p)
  PROVE  Inv'
<1>1. /\ Types /\ RowsOK /\ CallOK(p) /\ process[p].at \in Busy /\ Raise(p)
      /\ UNCHANGED <<rows, id, retries, request, queue, read, timers, server, asked,
                     crossed>>
  BY DEF Inv, CallsOK, FailUpdate, Busy
<1>2. process[p].item \in Rows
  BY <1>1 DEF CallOK
<1>3. /\ status' \in [Items -> MayHave] /\ patched' \subseteq patched
      /\ \A i \in Items : i # process[p].item => status'[i] = status[i]
  <2>1. CASE UNCHANGED <<status, patched>>
    BY <2>1, <1>1 DEF Types
  <2>2. CASE SetStatus(process[p], "finished")
    BY <2>2, <1>1, <1>2, StatusStep DEF MayHave, Statuses
  <2>. QED  BY <2>1, <2>2 DEF FailUpdate
<1>4. RowsOK'
  BY <1>1, <1>2, <1>3 DEF RowsOK, Rows
<1>5. faults' \in 0..MaxFaults
  BY <1>1, FaultStep DEF FailUpdate
<1>. QED  BY <1>1, <1>3, <1>4, <1>5, RaiseKeeps

LEMMA CatchKeeps ==
  ASSUME Inv, Catch
  PROVE  Inv'
<1>1. /\ Types /\ RowsOK /\ HistoryOK /\ CallOK("queued") /\ "queued" \in Processes
      /\ process["queued"].at = "raised"
  BY DEF Inv, CallsOK, Catch, At, Processes
<1>2. process["queued"].item \in Items
  BY <1>1, RowItems DEF CallOK, Busy
<1>3. /\ read' = retries[process["queued"].item] /\ Goto("queued", "caught")
      /\ UNCHANGED <<rows, id, status, retries, request, queue, timers, server, asked,
                     faults, deserted, patched, crossed>>
  BY DEF Catch, events, history
<1>4. process' \in [Processes -> [at : Waiting \cup Busy, item : Items \cup {NULL},
                                  id : Nat]]
  BY <1>1, <1>3, GotoStep DEF Busy
<1>5. Types' /\ RowsOK' /\ HistoryOK'
  BY <1>1, <1>2, <1>3, <1>4 DEF Types, RowsOK, Rows, HistoryOK
<1>. QED  BY <1>1, <1>3, <1>5, GoesOn DEF Busy

\* The event is set to failed, if its row is there.
LEMMA SetFailedStep ==
  ASSUME Inv, SetFailed, process["queued"].at \in Busy, UNCHANGED <<rows, id>>
  PROVE  /\ status' \in [Items -> MayHave] /\ retries' \in [Items -> Int] /\ RowsOK'
         /\ patched' \subseteq patched
         /\ \A i \in Items : i # process["queued"].item => status'[i] = status[i]
         /\ id[process["queued"].item] = process["queued"].id =>
              status'[process["queued"].item] = "failed"
         /\ id[process["queued"].item] # process["queued"].id => status' = status
<1>1. Types /\ RowsOK /\ CallOK("queued") /\ "queued" \in Processes
  BY DEF Inv, CallsOK, Processes
<1>2. PICK job : job = process["queued"]
  OBVIOUS
<1>3. job.item \in Rows /\ job.item \in Items
  BY <1>1, <1>2, RowItems DEF CallOK
<1>4. SetStatus(job, "failed") /\ "failed" \in MayHave
  BY <1>2 DEF SetFailed, MayHave, Statuses
<1>5. /\ status' \in [Items -> MayHave] /\ patched' \subseteq patched
      /\ \A i \in Items : i # job.item => status'[i] = status[i]
      /\ IF id[job.item] = job.id THEN status'[job.item] = "failed" ELSE status' = status
  BY <1>1, <1>3, <1>4, StatusStep
<1>6. retries' \in [Items -> Int]
  <2>1. read + 1 \in Int /\ retries \in [Items -> Int]
    BY <1>1 DEF Types
  <2>. QED  BY <2>1, <1>2, <1>3 DEF SetFailed, Retried
<1>7. RowsOK'
  BY <1>1, <1>3, <1>5 DEF RowsOK, Rows
<1>. QED  BY <1>2, <1>5, <1>6, <1>7

LEMMA RetryKeeps ==
  ASSUME Inv, Retry
  PROVE  Inv'
<1>1. /\ Types /\ HistoryOK /\ CallOK("queued") /\ process["queued"].at \in Busy
      /\ "queued" \in Processes
  BY DEF Inv, CallsOK, Retry, At, Processes, Busy
<1>2. PICK job : job = [item |-> process["queued"].item, id |-> process["queued"].id]
  OBVIOUS
<1>3. job \in JobRecord /\ JobOK(job)
  <2>1. /\ process["queued"].item \in Rows /\ process["queued"].item \in Items
        /\ process["queued"].id \in Nat \ {0}
        /\ (process["queued"].item \notin Uploads => process["queued"].id = 1)
    BY <1>1, RowItems DEF CallOK, Types
  <2>. QED  BY <2>1, <1>2 DEF JobRecord, JobOK
<1>4. /\ SetFailed /\ queue' = Append(queue, job) /\ process' = Leave("queued")
      /\ read' = 0
      /\ UNCHANGED <<rows, id, request, timers, server, asked, faults, deserted, crossed>>
  BY <1>2 DEF Retry
<1>5. queue' \in Seq(JobRecord) /\ ToSet(queue') = ToSet(queue) \cup {job}
  <2>1. queue \in Seq(JobRecord)
    BY <1>1 DEF Types
  <2>. QED  BY <2>1, <1>3, <1>4, QueueSets
<1>6. /\ status' \in [Items -> MayHave] /\ retries' \in [Items -> Int] /\ RowsOK'
      /\ patched' \subseteq patched
  BY <1>1, <1>4, SetFailedStep
<1>7. HistoryOK'
  BY <1>1, <1>4, <1>6 DEF HistoryOK
<1>8. read' \in Int /\ timers' \in Nat /\ faults' \in 0..MaxFaults
  BY <1>1, <1>4 DEF Types
<1>9. \A other \in ToSet(queue') : other \in ToSet(queue) \/ JobOK(other)
  BY <1>3, <1>5
<1>. QED  BY <1>1, <1>4, <1>5, <1>6, <1>7, <1>8, <1>9, Leaves

LEMMA LoadKeeps ==
  ASSUME Inv, Load
  PROVE  Inv'
<1>1. Types /\ RowsOK /\ HistoryOK /\ "queued" \in Processes
  BY DEF Inv, Processes
<1>2. /\ queue' = Loaded /\ process' = Leave("queued") /\ deserted' = {}
      /\ patched' \subseteq patched
      /\ UNCHANGED <<rows, id, status, retries, request, read, timers, needed, server, asked,
                     faults, crossed>>
  BY DEF Load, events
<1>3. ASSUME NEW i \in Rows PROVE Job(i) \in JobRecord /\ JobOK(Job(i))
  <2>1. i \in Items
    BY <1>1, RowItems
  <2>2. id[i] \in Nat \ {0} /\ (i \notin Uploads => id[i] = 1)
    BY <2>1, <1>1 DEF Types, RowsOK
  <2>. QED  BY <2>1, <2>2 DEF Job, JobRecord, JobOK
<1>4. /\ queue' \in Seq(JobRecord)
      /\ ToSet(queue') = ToSet(queue) \cup {Job(i) : i \in {j \in Rows : Unfinished(j)}}
  BY <1>1, <1>2, <1>3, LoadedIs
<1>5. \A job \in ToSet(queue') : job \in ToSet(queue) \/ JobOK(job)
  BY <1>3, <1>4
<1>6. RowsOK' /\ HistoryOK'
  BY <1>1, <1>2 DEF RowsOK, Rows, HistoryOK
<1>. QED  BY <1>1, <1>2, <1>4, <1>5, <1>6, Leaves DEF Types

\* The worker starts again.
LEMMA RunAgainKeeps ==
  ASSUME Inv, RunAgain, RowsOK', status' \in [Items -> MayHave],
         retries' \in [Items -> Int], patched' \subseteq patched, faults' \in 0..MaxFaults
  PROVE  Inv'
<1>1. Types /\ HistoryOK /\ "queued" \in Processes
  BY DEF Inv, Processes
<1>2. PICK w : w = [Nobody EXCEPT !.at = "loading"]
  OBVIOUS
<1>3. /\ w \in [at : Waiting \cup Busy, item : Items \cup {NULL}, id : Nat]
      /\ w.at = "loading" /\ w.item = NULL
  BY <1>2 DEF Nobody, Waiting
<1>4. /\ process' = [process EXCEPT !["queued"] = w] /\ read' = 0
      /\ UNCHANGED <<rows, id, request, queue, timers, server, asked, deserted, crossed>>
  BY <1>2 DEF RunAgain
<1>5. /\ process' \in [Processes -> [at : Waiting \cup Busy,
                                     item : Items \cup {NULL}, id : Nat]]
      /\ process'["queued"] = w
      /\ \A q \in Processes : q # "queued" => process'[q] = process[q]
  BY <1>1, <1>3, <1>4, SetStep
<1>6. Types' /\ Rows' = Rows /\ HistoryOK'
  BY <1>1, <1>4, <1>5 DEF Types, Rows, HistoryOK
<1>7. CallOK("queued")' /\ process'["direct"] = process["direct"]
  BY <1>3, <1>5, OtherIs DEF CallOK, Waiting, Busy
<1>8. \A p \in Processes : p = "queued" \/ p = "direct"
  BY DEF Processes
<1>. QED  BY <1>4, <1>5, <1>6, <1>7, <1>8, Kept

LEMMA NoRowKeeps ==
  ASSUME Inv, NoRow
  PROVE  Inv'
<1>1. Types /\ RunAgain /\ UNCHANGED <<rows, id, status, retries, patched, faults>>
  BY DEF Inv, NoRow, RunAgain
<1>2. RowsOK'
  BY <1>1 DEF Inv, RowsOK, Rows
<1>. QED  BY <1>1, <1>2, RunAgainKeeps DEF Types

LEMMA WorkerFailsKeeps ==
  ASSUME Inv, WorkerFails
  PROVE  Inv'
<1>1. /\ Types /\ RunAgain /\ UNCHANGED <<rows, id>>
      /\ process["queued"].at \in Busy
  BY DEF Inv, WorkerFails, RunAgain, Busy
<1>2. faults' \in 0..MaxFaults
  BY <1>1, FaultStep DEF WorkerFails
<1>3. CASE UNCHANGED <<status, retries, patched>>
  <2>1. RowsOK'
    BY <1>1, <1>3 DEF Inv, RowsOK, Rows
  <2>. QED  BY <2>1, <1>1, <1>2, <1>3, RunAgainKeeps DEF Types
<1>4. CASE SetFailed
  BY <1>1, <1>2, <1>4, SetFailedStep, RunAgainKeeps
<1>. QED  BY <1>3, <1>4 DEF WorkerFails

\* The server stops or starts.
LEMMA ServerKeeps ==
  ASSUME Inv, Crash \/ Start \/ Open
  PROVE  Inv'
<1>1. Types /\ RowsOK /\ RequestsOK /\ CallsOK /\ HistoryOK
  BY DEF Inv
<1>2. /\ UNCHANGED <<rows, id, status, retries, asked, deserted, patched, crossed>>
      /\ server' \in {"down", "starting", "up"} /\ faults' \in 0..MaxFaults
  BY <1>1, FaultStep DEF Crash, Start, Open, events, history, Types
<1>3. RowsOK' /\ HistoryOK' /\ Rows' = Rows
  BY <1>1, <1>2 DEF RowsOK, Rows, HistoryOK
<1>4. CASE Crash
  <2>1. PICK w : w = [Nobody EXCEPT !.at = "off"]
    OBVIOUS
  <2>2. /\ w \in [at : Waiting \cup Busy, item : Items \cup {NULL}, id : Nat]
        /\ w.at = "off" /\ w.item = NULL
    BY <2>1 DEF Nobody, Waiting
  <2>3. process' = [p \in Processes |-> w]
    BY <2>1, <1>4 DEF Crash, Off
  <2>4. request' = [r \in Asking |-> Nobody]
    BY <1>1, <1>4 DEF Crash, Types
  <2>5. queue' = << >> /\ ToSet(queue') = {} /\ timers' = 0 /\ read' = 0
    BY <1>4 DEF Crash, ToSet
  <2>6. Types'
    BY <2>2, <2>3, <2>4, <2>5, <1>1, <1>2, NobodyIs DEF Types
  <2>7. RequestsOK'
    BY <2>4, NobodyIs DEF RequestsOK, RequestOK
  <2>8. CallsOK'
    BY <2>2, <2>3 DEF CallsOK, CallOK, DirectOK, Waiting, Busy, Processes
  <2>. QED  BY <2>5, <2>6, <2>7, <2>8, <1>3 DEF Inv, JobsOK
<1>5. CASE Start
  <2>1. PICK w : w = [Nobody EXCEPT !.at = "loading"]
    OBVIOUS
  <2>2. /\ w \in [at : Waiting \cup Busy, item : Items \cup {NULL}, id : Nat]
        /\ w.at = "loading" /\ w.item = NULL
    BY <2>1 DEF Nobody, Waiting
  <2>3. process' = [queued |-> w, direct |-> Nobody]
    BY <2>1, <1>5 DEF Start
  <2>4. /\ process' \in [Processes -> [at : Waiting \cup Busy,
                                       item : Items \cup {NULL}, id : Nat]]
        /\ process'["queued"] = w /\ process'["direct"] = Nobody
    BY <2>2, <2>3, NobodyIs DEF Processes
  <2>5. UNCHANGED <<request, queue, read, timers>> /\ server # "up"
    BY <1>5 DEF Start
  <2>6. Types' /\ JobsOK'
    BY <2>4, <2>5, <1>1, <1>2, <1>3 DEF Types, JobsOK, JobOK, Inv
  <2>7. RequestsOK'
    BY <2>5, <1>1 DEF RequestsOK, RequestOK, Types, Requested
  <2>8. CallsOK'
    BY <2>2, <2>4, NobodyIs DEF CallsOK, CallOK, DirectOK, Waiting, Busy, Processes
  <2>. QED  BY <2>6, <2>7, <2>8, <1>3 DEF Inv
<1>6. CASE Open
  <2>1. UNCHANGED <<request, queue, process, read, timers>> /\ server' = "up"
    BY <1>6 DEF Open, memory
  <2>2. Types' /\ JobsOK'
    BY <2>1, <1>1, <1>2, <1>3 DEF Types, JobsOK, JobOK, Inv
  <2>3. RequestsOK'
    BY <2>1, <1>1, <1>3 DEF RequestsOK, RequestOK
  <2>4. CallsOK'
    BY <2>1, <1>1, <1>3 DEF CallsOK, CallOK, DirectOK
  <2>. QED  BY <2>2, <2>3, <2>4, <1>3 DEF Inv
<1>. QED  BY <1>4, <1>5, <1>6

LEMMA Initially ==
  ASSUME Init
  PROVE  Inv
<1>1. PICK w : w = [Nobody EXCEPT !.at = "off"]
  OBVIOUS
<1>2. /\ w \in [at : Waiting \cup Busy, item : Items \cup {NULL}, id : Nat]
      /\ w.at = "off" /\ w.item = NULL
  BY <1>1 DEF Nobody, Waiting
<1>3. process = [p \in Processes |-> w]
  BY <1>1 DEF Init, Off
<1>4. Rows = {} /\ ToSet(queue) = {}
  BY DEF Init, Rows, ToSet
<1>5. Types
  <2>1. request = [r \in Asking |-> Nobody]
    BY DEF Init, Asking
  <2>2. MaxRequests \in Nat /\ MaxFaults \in Nat
    BY InstallerAssumption DEF InstallerAssumption
  <2>3. 0 \in 0..MaxRequests /\ 0 \in 0..MaxFaults
    BY <2>2
  <2>4. process \in [Processes -> [at : Waiting \cup Busy, item : Items \cup {NULL},
                                   id : Nat]]
    BY <1>2, <1>3
  <2>5. request \in [Asking -> [at : Requested, item : Items \cup {NULL}, id : Nat]]
    BY <2>1, NobodyIs
  <2>. QED  BY <2>3, <2>4, <2>5 DEF Init, Types, MayHave, Statuses
<1>6. RowsOK /\ HistoryOK
  BY <1>4 DEF Init, RowsOK, HistoryOK
<1>7. RequestsOK
  BY NobodyIs DEF Init, RequestsOK, RequestOK, Asking
<1>8. CallsOK
  BY <1>2, <1>3 DEF CallsOK, CallOK, DirectOK, Waiting, Busy, Processes
<1>. QED  BY <1>4, <1>5, <1>6, <1>7, <1>8 DEF Inv, JobsOK

LEMMA Inductive ==
  ASSUME Inv, [Next]_vars
  PROVE  Inv'
<1>1. CASE UNCHANGED vars
  <2>1. UNCHANGED <<rows, id, status, retries, request, queue, process, read, timers, server,
                    asked, faults, deserted, patched, crossed>>
    BY <1>1 DEF vars, events, memory, history
  <2>2. Types' /\ RowsOK' /\ Rows' = Rows /\ HistoryOK'
    BY <2>1 DEF Inv, Types, RowsOK, Rows, HistoryOK
  <2>. QED  BY <2>1, <2>2, Kept
<1>2. ASSUME NEW r \in Asking, RequestStep(r)
      PROVE  Inv'
  BY <1>2, ReuseKeeps, DispatchKeeps, UnpublishedKeeps, EnqueueKeeps DEF RequestStep
<1>3. ASSUME NEW p \in Processes, ProcessStep(p)
      PROVE  Inv'
  BY <1>3, BeginKeeps, WorkKeeps, FinishKeeps, FailUrlKeeps, FailUpdateKeeps
  DEF ProcessStep
<1>4. CASE WorkerStep
  BY <1>3, <1>4, LoadKeeps, GetKeeps, CatchKeeps, NoRowKeeps, RetryKeeps, OtherIs
  DEF WorkerStep
<1>5. CASE Announce
  <2>1. /\ process' = Leave("direct")
        /\ UNCHANGED <<rows, id, status, retries, request, queue, read, timers, server, asked,
                       faults, deserted, patched, crossed>>
    BY <1>5 DEF Announce, events, history
  <2>2. RowsOK' /\ HistoryOK' /\ Types
    BY <2>1 DEF Inv, RowsOK, Rows, HistoryOK
  <2>. QED  BY <2>1, <2>2, OtherIs, Leaves DEF Types
<1>6. CASE DirectStep
  BY <1>3, <1>5, <1>6, CallDirectKeeps, OtherIs DEF DirectStep
<1>7. CASE HandleNeedRestart
  <2>1. /\ timers' = timers - 1 /\ timers > 0
        /\ UNCHANGED <<rows, id, status, retries, request, queue, process, read, server,
                       asked, faults, deserted, patched, crossed>>
    BY <1>7 DEF HandleNeedRestart, events, history
  <2>2. Types' /\ RowsOK' /\ Rows' = Rows /\ HistoryOK'
    BY <2>1 DEF Inv, Types, RowsOK, Rows, HistoryOK
  <2>. QED  BY <2>1, <2>2, Kept
<1>8. ASSUME NEW r \in Requesters, NEW i \in Urls \cup Packages, Look(r, i)
      PROVE  Inv'
  BY <1>8, LookKeeps, InstallerAssumption DEF Asking, InstallerAssumption
<1>9. ASSUME NEW i \in Urls, Look(Maintenance, i)
      PROVE  Inv'
  BY <1>9, LookKeeps DEF Asking
<1>. QED  BY <1>1, <1>2, <1>4, <1>6, <1>7, <1>8, <1>9, UploadKeeps, PatchKeeps,
             WorkerFailsKeeps, ServerKeeps DEF Next, Asking
-----------------------------------------------------------------------------
(* Who has an event *)

Pending(i) == status[i] \notin {NULL, "finished", "failed"}

Queued(i) == Job(i) \in ToSet(queue)

\* The call p will yet set the status of the item.
Carries(p, i) ==
  /\ process[p].item = i /\ process[p].at \in Busy \ {"finished"}
  /\ process[p].id = id[i]

Posted(r, i) ==
  request[r].at = "posted" /\ request[r].item = i /\ request[r].id = id[i]

Held(i) ==
  \/ Queued(i)
  \/ \E p \in Processes : Carries(p, i)
  \/ \E r \in Asking : Posted(r, i)

Running == server # "down" /\ process["queued"].at # "loading"

\* Its request or its call has raised, or its status was set by hand.
Excused(i) == i \in deserted \cup patched

HandsOK == Running => \A i \in Items : Pending(i) => Held(i) \/ Excused(i)

\* The event is as it was, and whoever had it has it or has passed it on.
Persists(i) ==
  /\ status'[i] = status[i]
  /\ Excused(i) => Excused(i)'
  /\ Queued(i) => Held(i)'
  /\ \A p \in Processes : Carries(p, i) => Held(i)'
  /\ \A r \in Asking : Posted(r, i) => Held(i)'

LEMMA HandsKept ==
  ASSUME HandsOK, Running' => Running,
         \A i \in Items : Persists(i) \/ Held(i)' \/ ~ Pending(i)' \/ Excused(i)'
  PROVE  HandsOK'
<1>1. ASSUME Running', NEW i \in Items, Pending(i)'
      PROVE  Held(i)' \/ Excused(i)'
  <2>1. CASE Persists(i)
    <3>1. Pending(i)
      BY <1>1, <2>1 DEF Persists, Pending
    <3>2. Held(i) \/ Excused(i)
      BY <1>1, <3>1 DEF HandsOK
    <3>. QED  BY <2>1, <3>2 DEF Persists, Held
  <2>. QED  BY <1>1, <2>1
<1>. QED  BY <1>1 DEF HandsOK

\* Whoever has an event keeps it while it is left alone.
LEMMA HolderStays ==
  ASSUME NEW i \in Items, id'[i] = id[i]
  PROVE  /\ Queued(i) /\ ToSet(queue) \subseteq ToSet(queue') => Held(i)'
         /\ \A p \in Processes : Carries(p, i) /\ process'[p] = process[p] => Held(i)'
         /\ \A r \in Asking : Posted(r, i) /\ request'[r] = request[r] => Held(i)'
<1>1. Queued(i) /\ ToSet(queue) \subseteq ToSet(queue') => Queued(i)'
  BY DEF Queued, Job
<1>2. ASSUME NEW p \in Processes, Carries(p, i), process'[p] = process[p]
      PROVE  Carries(p, i)'
  BY <1>2 DEF Carries
<1>3. ASSUME NEW r \in Asking, Posted(r, i), request'[r] = request[r]
      PROVE  Posted(r, i)'
  BY <1>3 DEF Posted
<1>. QED  BY <1>1, <1>2, <1>3 DEF Held

\* A request puts its event in order, and has it until it is on the queue.
LEMMA RequestHands ==
  ASSUME Inv, HandsOK, NEW r \in Asking, NEW i \in Items,
         UNCHANGED <<process, queue, server>>,
         \A s \in Asking : s # r => request'[s] = request[s],
         request[r].at # "posted",
         \A j \in Items : j # i => status'[j] = status[j] /\ id'[j] = id[j]
                                   /\ (Excused(j) => Excused(j)'),
         \/ status'[i] = status[i] /\ id'[i] = id[i] /\ UNCHANGED <<deserted, patched>>
         \/ Posted(r, i)'
  PROVE  HandsOK'
<1>1. Running' = Running
  BY DEF Running
<1>2. ASSUME NEW j \in Items, status'[j] = status[j], id'[j] = id[j],
             Excused(j) => Excused(j)'
      PROVE  Persists(j)
  <2>1. \A p \in Processes : process'[p] = process[p]
    OBVIOUS
  <2>2. \A s \in Asking : Posted(s, j) => request'[s] = request[s]
    BY DEF Posted
  <2>. QED  BY <1>2, <2>1, <2>2, HolderStays DEF Persists
<1>3. Posted(r, i)' => Held(i)'
  BY DEF Held
<1>4. UNCHANGED <<deserted, patched>> => (Excused(i) => Excused(i)')
  BY DEF Excused
<1>. QED  BY <1>1, <1>2, <1>3, <1>4, HandsKept

LEMMA AskHands ==
  ASSUME Inv, HandsOK, NEW r \in Asking, NEW i \in Items,
         Upload(r, i) \/ Look(r, i)
  PROVE  HandsOK'
<1>1. Types /\ request[r] = Nobody
  BY DEF Inv, Upload, Look, CanAsk
<1>2. UNCHANGED <<process, queue, server>> /\ request[r].at # "posted"
  BY <1>1, NobodyIs DEF Upload, Look, memory
<1>3. CASE Upload(r, i)
  <2>1. PICK w : w = Asks("posted", i, id[i] + 1)
    OBVIOUS
  <2>2. /\ w.at = "posted" /\ w.item = i /\ w.id = id[i] + 1
        /\ request' = [request EXCEPT ![r] = w]
        /\ id' = [id EXCEPT ![i] = @ + 1] /\ status' = [status EXCEPT ![i] = "pending"]
        /\ deserted' = deserted \ {i} /\ patched' = patched \ {i}
    BY <2>1, <1>3 DEF Upload, Set, Asks
  <2>3. /\ request'[r] = w /\ id'[i] = id[i] + 1
        /\ \A s \in Asking : s # r => request'[s] = request[s]
        /\ \A j \in Items : j # i => status'[j] = status[j] /\ id'[j] = id[j]
                                     /\ (Excused(j) => Excused(j)')
    BY <2>2, <1>1 DEF Types, Excused
  <2>4. Posted(r, i)'
    BY <2>2, <2>3 DEF Posted
  <2>. QED  BY <2>3, <2>4, <1>2, RequestHands
<1>4. CASE Look(r, i)
  <2>1. /\ UNCHANGED <<id, status, deserted, patched>>
        /\ \A s \in Asking : s # r => request'[s] = request[s]
    BY <1>1, <1>4 DEF Look, events, history, Types
  <2>2. \A j : Excused(j) => Excused(j)'
    BY <2>1 DEF Excused
  <2>. QED  BY <2>1, <2>2, <1>2, RequestHands
<1>. QED  BY <1>3, <1>4

LEMMA RequestStepHands ==
  ASSUME Inv, HandsOK, NEW r \in Asking, RequestStep(r)
  PROVE  HandsOK'
<1>1. Types /\ RowsOK /\ RequestOK(r)
  BY DEF Inv, RequestsOK
<1>2. PICK i : i = request[r].item
  OBVIOUS
<1>3. request[r].at # "idle" /\ i \in Items
  <2>1. request[r].at # "idle"
    BY DEF RequestStep, Reuse, Dispatch, Unpublished, Enqueue
  <2>. QED  BY <2>1, <1>1, <1>2 DEF RequestOK, Types
<1>4. CASE Reuse(r)
  <2>1. /\ request[r].at = "found"
        /\ status' = [status EXCEPT ![i] = "pending"]
        /\ request' = [request EXCEPT ![r].at = "posted"]
        /\ deserted' = deserted \ {i} /\ patched' = patched \ {i}
        /\ UNCHANGED <<id, process, queue, server>>
    BY <1>2, <1>4 DEF Reuse, Set, memory
  <2>2. /\ request'[r].at = "posted" /\ request'[r].item = i
        /\ request'[r].id = request[r].id
        /\ \A s \in Asking : s # r => request'[s] = request[s]
    BY <2>1, <1>1, <1>2, RequestGoto DEF Requested
  <2>3. id[i] = request[r].id
    <3>1. request[r].id = 1 /\ i \in Rows /\ i \notin Uploads
      BY <2>1, <1>1, <1>2 DEF RequestOK
    <3>2. id[i] \in Nat /\ id[i] # 0 /\ id[i] <= 1
      BY <3>1, <1>1, <1>3 DEF RowsOK, Types
    <3>. QED  BY <3>1, <3>2
  <2>4. Posted(r, i)'
    BY <2>1, <2>2, <2>3 DEF Posted
  <2>5. \A j \in Items : j # i => status'[j] = status[j] /\ (Excused(j) => Excused(j)')
    BY <2>1, <1>1 DEF Types, Excused
  <2>. QED  BY <2>1, <2>2, <2>4, <2>5, <1>3, RequestHands
<1>5. CASE Dispatch(r)
  <2>1. /\ request[r].at = "missing" /\ request[r].id = 1
        /\ UNCHANGED <<process, queue, server, deserted>>
    BY <1>1, <1>5 DEF Dispatch, memory, RequestOK
  <2>2. \A s \in Asking : s # r => request'[s] = request[s]
    BY <1>1, <1>5 DEF Dispatch, Types
  <2>3. CASE i \in ToSet(rows)
    <3>1. UNCHANGED <<id, status, patched>>
      BY <2>3, <1>2, <1>5 DEF Dispatch
    <3>2. \A j : Excused(j) => Excused(j)'
      BY <2>1, <3>1 DEF Excused
    <3>. QED  BY <2>1, <2>2, <3>1, <3>2, <1>3, RequestHands
  <2>4. CASE i \notin ToSet(rows)
    <3>1. /\ id' = [id EXCEPT ![i] = 1] /\ status' = [status EXCEPT ![i] = "pending"]
          /\ request' = [request EXCEPT ![r].at = "posted"] /\ patched' = patched \ {i}
      BY <2>4, <1>2, <1>5 DEF Dispatch, Set
    <3>2. /\ request'[r].at = "posted" /\ request'[r].item = i
          /\ request'[r].id = request[r].id
      BY <3>1, <1>1, <1>2, RequestGoto DEF Requested
    <3>3. /\ id'[i] = 1
          /\ \A j \in Items : j # i => status'[j] = status[j] /\ id'[j] = id[j]
                                       /\ (Excused(j) => Excused(j)')
      BY <2>1, <3>1, <1>1, <1>3 DEF Types, Excused
    <3>4. Posted(r, i)'
      BY <2>1, <3>2, <3>3 DEF Posted
    <3>. QED  BY <2>1, <2>2, <3>3, <3>4, <1>3, RequestHands
  <2>. QED  BY <2>3, <2>4
<1>6. CASE Enqueue(r)
  <2>1. PICK job : job = [item |-> request[r].item, id |-> request[r].id]
    OBVIOUS
  <2>2. /\ queue' = Append(queue, job)
        /\ request' = [request EXCEPT ![r] = Nobody]
        /\ UNCHANGED <<id, status, process, server, deserted, patched>>
    BY <2>1, <1>6 DEF Enqueue, events, history
  <2>3. job \in JobRecord /\ \A s \in Asking : s # r => request'[s] = request[s]
    <3>1. request[r].id # 0
      BY <1>1, <1>3 DEF RequestOK
    <3>. QED  BY <2>1, <2>2, <3>1, <1>1, <1>2, <1>3 DEF JobRecord, Types
  <2>4. ToSet(queue') = ToSet(queue) \cup {job}
    <3>1. queue \in Seq(JobRecord)
      BY <1>1 DEF Types
    <3>. QED  BY <2>2, <2>3, <3>1, QueueSets
  <2>5. ASSUME NEW j \in Items PROVE Persists(j)
    <3>1. Posted(r, j) => Held(j)'
      <4>1. Posted(r, j) => job = Job(j)
        BY <2>1 DEF Posted, Job
      <4>2. Job(j)' = Job(j)
        BY <2>2 DEF Job
      <4>. QED  BY <2>4, <4>1, <4>2 DEF Held, Queued
    <3>. QED  BY <2>2, <2>3, <2>4, <3>1, HolderStays DEF Persists, Excused
  <2>6. Running' = Running
    BY <2>2 DEF Running
  <2>. QED  BY <2>5, <2>6, HandsKept
<1>7. CASE Unpublished(r)
  <2>1. /\ request' = [request EXCEPT ![r] = Nobody]
        /\ deserted' = IF request[r].id = id[i] THEN deserted \cup {i} ELSE deserted
        /\ UNCHANGED <<id, status, queue, process, server, patched>>
    BY <1>2, <1>7 DEF Unpublished, events, memory
  <2>2. \A s \in Asking : s # r => request'[s] = request[s]
    BY <2>1, <1>1 DEF Types
  <2>3. ASSUME NEW j \in Items PROVE Persists(j) \/ Excused(j)'
    <3>1. Posted(r, j) => Excused(j)'
      BY <2>1, <1>2 DEF Posted, Excused
    <3>2. Excused(j) => Excused(j)'
      BY <2>1 DEF Excused
    <3>. QED  BY <2>1, <2>2, <3>1, <3>2, HolderStays DEF Persists
  <2>4. Running' = Running
    BY <2>1 DEF Running
  <2>. QED  BY <2>3, <2>4, HandsKept
<1>. QED  BY <1>4, <1>5, <1>6, <1>7 DEF RequestStep

\* A PATCH takes nothing from anybody, and what it sets is known as set by hand.
LEMMA PatchHands ==
  ASSUME Inv, HandsOK, NEW i \in Items, NEW s \in PatchStatuses \cup {NULL},
         NEW n \in PatchRetries \cup {NULL}, Patch(i, s, n)
  PROVE  HandsOK'
<1>1. UNCHANGED <<id, request, queue, process, server, deserted>>
  BY DEF Patch, memory
<1>2. \/ UNCHANGED <<status, patched>>
      \/ i \in patched' /\ patched \subseteq patched'
         /\ \A j \in Items : j # i => status'[j] = status[j]
  BY DEF Patch, Inv, Types
<1>3. Running' = Running
  BY <1>1 DEF Running
<1>4. ASSUME NEW j \in Items, status'[j] = status[j] PROVE Persists(j)
  <2>1. Excused(j) => Excused(j)'
    BY <1>1, <1>2 DEF Excused
  <2>. QED  BY <2>1, <1>1, <1>4, HolderStays DEF Persists
<1>5. i \in patched' => Excused(i)'
  BY DEF Excused
<1>6. \A j \in Items : Persists(j) \/ Excused(j)'
  BY <1>2, <1>4, <1>5
<1>. QED  BY <1>3, <1>6, HandsKept

\* A step of a call takes nothing from the others, and what it was about is still
\* somebody's, or in order.
LEMMA CallHands ==
  ASSUME Inv, HandsOK, NEW p \in Processes, NEW i \in Items,
         process[p].at \in Busy, process[p].item = i,
         UNCHANGED <<id, request, server>>,
         ToSet(queue) \subseteq ToSet(queue'),
         \A q \in Processes : q # p => process'[q] = process[q],
         \A j \in Items : j # i => status'[j] = status[j] /\ (Excused(j) => Excused(j)'),
         \/ status'[i] = status[i] /\ ~ Carries(p, i) /\ (Excused(i) => Excused(i)')
         \/ Held(i)'
         \/ ~ Pending(i)'
         \/ Excused(i)'
  PROVE  HandsOK'
<1>1. Running' => Running
  BY OtherIs DEF Running, Busy
<1>2. ASSUME NEW j \in Items, status'[j] = status[j], ~ Carries(p, j),
             Excused(j) => Excused(j)'
      PROVE  Persists(j)
  <2>1. \A q \in Processes : Carries(q, j) => process'[q] = process[q]
    BY <1>2
  <2>. QED  BY <1>2, <2>1, HolderStays DEF Persists
<1>3. \A j \in Items : j # i => ~ Carries(p, j)
  BY DEF Carries
<1>. QED  BY <1>1, <1>2, <1>3, HandsKept

\* What a call has written, if it has written anything, is about its own event.
OwnOnly(p) ==
  \A i \in Items : process[p].item # i \/ process[p].id # id[i] =>
                    status'[i] = status[i] /\ (Excused(i) => Excused(i)')

LEMMA SetOnlyOwn ==
  ASSUME Inv, NEW p \in Processes, process[p].at \in Busy, deserted \subseteq deserted',
         \/ UNCHANGED <<status, patched>>
         \/ \E s \in MayHave : SetStatus(process[p], s)
  PROVE  OwnOnly(p)
<1>1. PICK i : i = process[p].item
  OBVIOUS
<1>2. process[p].item \in Rows
  BY DEF Inv, CallsOK, CallOK
<1>3. \/ UNCHANGED <<status, patched>>
      \/ /\ \A j \in Items : j # i => status'[j] = status[j]
         /\ patched' = patched \ {i} /\ id[i] = process[p].id
  <2>1. ASSUME NEW s \in MayHave, SetStatus(process[p], s)
        PROVE  /\ \A j \in Items : j # i => status'[j] = status[j]
               /\ IF id[i] = process[p].id
                  THEN status'[i] = s /\ patched' = patched \ {i}
                  ELSE UNCHANGED <<status, patched>>
    BY <1>1, <1>2, <2>1, StatusStep DEF Inv
  <2>. QED  BY <2>1
<1>4. \A j : j # i \/ patched' = patched => (Excused(j) => Excused(j)')
  BY <1>3 DEF Excused
<1>. QED  BY <1>1, <1>3, <1>4 DEF OwnOnly

\* A call that goes on has what it had.
LEMMA GoesOnHands ==
  ASSUME Inv, HandsOK, NEW p \in Processes, process[p].at \in Busy,
         NEW at \in Busy \ {"finished"}, Goto(p, at),
         UNCHANGED <<id, request, server, queue>>, OwnOnly(p)
  PROVE  HandsOK'
<1>1. PICK i : i = process[p].item
  OBVIOUS
<1>2. i \in Items
  BY <1>1, RowItems DEF Inv, CallsOK, CallOK
<1>3. /\ process'[p].at = at
      /\ process'[p].item = process[p].item /\ process'[p].id = process[p].id
      /\ \A q \in Processes : q # p => process'[q] = process[q]
  BY GotoStep DEF Inv
<1>4. id[i] = process[p].id => Held(i)'
  BY <1>1, <1>3 DEF Carries, Held
<1>5. id[i] # process[p].id => ~ Carries(p, i)
  BY DEF Carries
<1>. QED  BY <1>1, <1>2, <1>3, <1>4, <1>5, CallHands DEF OwnOnly

\* An exception is for run() to handle, or the call has deserted its event.
LEMMA RaiseHands ==
  ASSUME Inv, HandsOK, NEW p \in Processes, process[p].at \in Busy, Raise(p),
         UNCHANGED <<id, request, server, queue>>, OwnOnly(p)
  PROVE  HandsOK'
<1>1. CASE p = "queued"
  BY <1>1, GoesOnHands DEF Raise, Busy
<1>2. CASE p # "queued"
  <2>1. PICK i : i = process[p].item
    OBVIOUS
  <2>2. process' = Leave(p) /\ deserted' = deserted \cup {i} /\ i \in Items
    BY <2>1, <1>2, RowItems DEF Raise, Inv, CallsOK, CallOK
  <2>3. \A q \in Processes : q # p => process'[q] = process[q]
    BY <2>2 DEF Inv, Types, Leave
  <2>4. Excused(i)'
    BY <2>2 DEF Excused
  <2>. QED  BY <2>1, <2>2, <2>3, <2>4, CallHands DEF OwnOnly
<1>. QED  BY <1>1, <1>2

LEMMA ProcessStepHands ==
  ASSUME Inv, HandsOK, NEW p \in Processes, ProcessStep(p)
  PROVE  HandsOK'
<1>1. Types /\ CallOK(p) /\ process[p].at \in Busy
  BY DEF Inv, CallsOK, ProcessStep, Begin, RemoveOld, Move, FailUpload, FailUrl, Fail,
         FailUpdate, Finish, At, Busy
<1>2. CASE Begin(p) \/ FailUpload(p)
  <2>1. \E s \in MayHave : SetStatus(process[p], s)
    BY <1>2 DEF Begin, FailUpload, MayHave, Statuses
  <2>2. /\ Goto(p, "working") \/ Goto(p, "moved")
        /\ UNCHANGED <<id, request, server, queue, deserted>>
    BY <1>2 DEF Begin, FailUpload
  <2>. QED  BY <2>1, <2>2, <1>1, SetOnlyOwn, GoesOnHands DEF Busy
<1>3. CASE RemoveOld(p) \/ Move(p)
  <2>1. /\ Goto(p, "removed") \/ Goto(p, "moved")
        /\ UNCHANGED <<id, status, request, server, queue, deserted, patched>>
    BY <1>3 DEF RemoveOld, Move, events, history
  <2>. QED  BY <2>1, <1>1, SetOnlyOwn, GoesOnHands DEF Busy
<1>4. CASE FailUrl(p) \/ FailUpdate(p)
  <2>1. Raise(p) /\ UNCHANGED <<id, request, server, queue>>
    BY <1>4 DEF FailUrl, Fail, FailUpdate, events
  <2>2. deserted \subseteq deserted'
    BY <2>1 DEF Raise
  <2>3. \/ UNCHANGED <<status, patched>>
        \/ \E s \in MayHave : SetStatus(process[p], s)
    BY <1>4 DEF FailUrl, FailUpdate, events, MayHave, Statuses
  <2>. QED  BY <2>1, <2>2, <2>3, <1>1, SetOnlyOwn, RaiseHands
<1>5. CASE Finish(p)
  <2>1. PICK i : i = process[p].item
    OBVIOUS
  <2>2. i \in Rows /\ i \in Items
    BY <2>1, <1>1, RowItems DEF CallOK
  <2>3. /\ SetStatus(process[p], "finished") /\ "finished" \in MayHave
        /\ process' = Leave(p) \/ Goto(p, "finished")
        /\ UNCHANGED <<id, request, server, queue, deserted>>
    BY <1>5 DEF Finish, MayHave, Statuses
  <2>4. OwnOnly(p)
    BY <2>3, <1>1, SetOnlyOwn
  <2>5. id[i] = process[p].id => status'[i] = "finished"
    BY <2>1, <2>2, <2>3, <1>1, StatusStep DEF Inv
  <2>6. \A q \in Processes : q # p => process'[q] = process[q]
    BY <2>3, <1>1 DEF Types, Leave, Goto
  <2>7. id[i] # process[p].id => ~ Carries(p, i)
    BY DEF Carries
  <2>8. status'[i] = "finished" => ~ Pending(i)'
    BY DEF Pending
  <2>9. /\ \A j \in Items : j # i => status'[j] = status[j]
                                     /\ (Excused(j) => Excused(j)')
        /\ \/ status'[i] = status[i] /\ ~ Carries(p, i) /\ (Excused(i) => Excused(i)')
           \/ ~ Pending(i)'
    BY <2>1, <2>2, <2>4, <2>5, <2>7, <2>8 DEF OwnOnly
  <2>. QED  BY <2>1, <2>2, <2>3, <2>6, <2>9, <1>1, CallHands
<1>. QED  BY <1>2, <1>3, <1>4, <1>5 DEF ProcessStep

\* The worker handles the exception of an event.
LEMMA CatchHands ==
  ASSUME Inv, HandsOK, Catch
  PROVE  HandsOK'
<1>1. /\ "queued" \in Processes /\ process["queued"].at \in Busy
      /\ Goto("queued", "caught")
      /\ UNCHANGED <<id, status, request, server, queue, deserted, patched>>
  BY DEF Catch, At, Processes, Busy, events, history
<1>. QED  BY <1>1, SetOnlyOwn, GoesOnHands DEF Busy

\* What has failed is on the queue again.
LEMMA RetryHands ==
  ASSUME Inv, HandsOK, Retry
  PROVE  HandsOK'
<1>1. /\ Types /\ CallOK("queued") /\ "queued" \in Processes
      /\ process["queued"].at \in Busy
  BY DEF Inv, CallsOK, Processes, Retry, At, Busy
<1>2. PICK i : i = process["queued"].item
  OBVIOUS
<1>3. PICK job : job = [item |-> process["queued"].item, id |-> process["queued"].id]
  OBVIOUS
<1>4. i \in Items /\ job \in JobRecord
  <2>1. process["queued"].item \in Items /\ process["queued"].id \in Nat \ {0}
    BY <1>1, RowItems DEF CallOK, Types
  <2>. QED  BY <2>1, <1>2, <1>3 DEF JobRecord
<1>5. /\ SetStatus(process["queued"], "failed") /\ "failed" \in MayHave
      /\ queue' = Append(queue, job) /\ process' = Leave("queued")
      /\ UNCHANGED <<id, request, server, deserted>>
  BY <1>3 DEF Retry, SetFailed, MayHave, Statuses
<1>6. ToSet(queue') = ToSet(queue) \cup {job}
  <2>1. queue \in Seq(JobRecord)
    BY <1>1 DEF Types
  <2>. QED  BY <2>1, <1>4, <1>5, QueueSets
<1>7. OwnOnly("queued")
  BY <1>1, <1>5, SetOnlyOwn
<1>8. \A q \in Processes : q # "queued" => process'[q] = process[q]
  BY <1>1, <1>5 DEF Types, Leave
<1>9. id[i] = process["queued"].id => Held(i)'
  <2>1. id[i] = process["queued"].id => job = Job(i)'
    BY <1>2, <1>3, <1>5 DEF Job
  <2>. QED  BY <2>1, <1>6 DEF Held, Queued
<1>10. id[i] # process["queued"].id => ~ Carries("queued", i)
  BY DEF Carries
<1>11. /\ \A j \in Items : j # i => status'[j] = status[j]
                                   /\ (Excused(j) => Excused(j)')
       /\ \/ status'[i] = status[i] /\ ~ Carries("queued", i)
             /\ (Excused(i) => Excused(i)')
          \/ Held(i)'
  BY <1>2, <1>4, <1>7, <1>9, <1>10 DEF OwnOnly
<1>. QED  BY <1>1, <1>2, <1>4, <1>5, <1>6, <1>8, <1>11, CallHands

\* A call begins with what the queue, or maintenance, had: it is dropped only when
\* its row is another upload's, or has failed.
LEMMA DroppedIsDone ==
  ASSUME NEW i \in Items, NEW job, job = Job(i), Drops(job)
  PROVE  ~ Pending(i)
BY DEF Drops, Gone, TooManyRetries, Pending, Job

LEMMA CalledCarries ==
  ASSUME NEW p \in Processes, NEW i \in Items, NEW job, job = Job(i), UNCHANGED id,
         process'[p].at = "called" /\ process'[p].item = job.item
                                   /\ process'[p].id = job.id
  PROVE  Held(i)'
<1>1. Carries(p, i)'
  BY DEF Carries, Busy, Job
<1>. QED  BY <1>1 DEF Held

LEMMA GetHands ==
  ASSUME Inv, HandsOK, Get
  PROVE  HandsOK'
<1>1. Types /\ "queued" \in Processes
  BY DEF Inv, Processes
<1>2. PICK job : job = Head(queue)
  OBVIOUS
<1>3. /\ queue # << >> /\ Call("queued", job) /\ queue' = Tail(queue)
      /\ process["queued"].at = "idle"
      /\ UNCHANGED <<id, status, request, server, deserted, patched>>
  BY <1>2 DEF Get, events, At
<1>4. /\ job \in JobRecord /\ JobOK(job) /\ ToSet(queue) = ToSet(queue') \cup {job}
  BY <1>2, <1>3, HeadIs
<1>5. /\ \A q \in Processes : q # "queued" => process'[q] = process[q]
      /\ IF Drops(job) THEN process' = process
         ELSE /\ process'["queued"].at = "called" /\ process'["queued"].item = job.item
              /\ process'["queued"].id = job.id
  BY <1>1, <1>3, <1>4, CallStep
<1>6. Running' => Running
  BY <1>3 DEF Running
<1>7. ASSUME NEW i \in Items PROVE Persists(i) \/ Held(i)' \/ ~ Pending(i)'
  <2>1. CASE job = Job(i)
    <3>1. CASE Drops(job)
      <4>1. ~ Pending(i)
        BY <2>1, <3>1, DroppedIsDone
      <4>. QED  BY <4>1, <1>3 DEF Pending
    <3>2. CASE ~ Drops(job)
      BY <2>1, <3>2, <1>1, <1>3, <1>5, CalledCarries
    <3>. QED  BY <3>1, <3>2
  <2>2. CASE job # Job(i)
    <3>1. Queued(i) => Held(i)'
      <4>1. Job(i)' = Job(i)
        BY <1>3 DEF Job
      <4>. QED  BY <2>2, <4>1, <1>4 DEF Queued, Held
    <3>2. \A q \in Processes : Carries(q, i) => process'[q] = process[q]
      BY <1>3, <1>5 DEF Carries, Busy
    <3>3. Excused(i) => Excused(i)'
      BY <1>3 DEF Excused
    <3>. QED  BY <3>1, <3>2, <3>3, <1>3, HolderStays DEF Persists
  <2>. QED  BY <2>1, <2>2
<1>. QED  BY <1>6, <1>7, HandsKept

LEMMA CallDirectHands ==
  ASSUME Inv, HandsOK, CallDirect
  PROVE  HandsOK'
<1>1. /\ Types /\ RequestOK(Maintenance) /\ "direct" \in Processes /\ Maintenance \in Asking
  BY DEF Inv, Processes, Asking, RequestsOK
<1>2. PICK job : job = [item |-> request[Maintenance].item, id |-> request[Maintenance].id]
  OBVIOUS
<1>3. /\ request[Maintenance].at = "posted" /\ Call("direct", job)
      /\ request' = [request EXCEPT ![Maintenance] = Nobody]
      /\ process["direct"].at = "idle"
      /\ UNCHANGED <<id, status, queue, server, deserted, patched>>
  BY <1>2 DEF CallDirect, events, history, At
<1>4. job \in JobRecord /\ JobOK(job)
  <2>1. /\ request[Maintenance].item \in Rows /\ request[Maintenance].id \in Nat \ {0}
        /\ (request[Maintenance].item \notin Uploads => request[Maintenance].id = 1)
    BY <1>1, <1>3 DEF RequestOK, Types
  <2>. QED  BY <2>1, <1>1, <1>2, RowItems DEF JobRecord, JobOK
<1>5. /\ \A q \in Processes : q # "direct" => process'[q] = process[q]
      /\ IF Drops(job) THEN process' = process
         ELSE /\ process'["direct"].at = "called" /\ process'["direct"].item = job.item
              /\ process'["direct"].id = job.id
  BY <1>1, <1>3, <1>4, CallStep
<1>6. Running' => Running
  BY <1>3, <1>5, OtherIs DEF Running
<1>7. \A s \in Asking : s # Maintenance => request'[s] = request[s]
  BY <1>1, <1>3 DEF Types
<1>8. ASSUME NEW i \in Items PROVE Persists(i) \/ Held(i)' \/ ~ Pending(i)'
  <2>1. CASE job = Job(i)
    <3>1. CASE Drops(job)
      <4>1. ~ Pending(i)
        BY <2>1, <3>1, DroppedIsDone
      <4>. QED  BY <4>1, <1>3 DEF Pending
    <3>2. CASE ~ Drops(job)
      BY <2>1, <3>2, <1>1, <1>3, <1>5, CalledCarries
    <3>. QED  BY <3>1, <3>2
  <2>2. CASE job # Job(i)
    <3>1. \A s \in Asking : Posted(s, i) => request'[s] = request[s]
      BY <2>2, <1>2, <1>7 DEF Posted, Job
    <3>2. \A q \in Processes : Carries(q, i) => process'[q] = process[q]
      BY <1>3, <1>5 DEF Carries, Busy
    <3>3. Excused(i) => Excused(i)'
      BY <1>3 DEF Excused
    <3>. QED  BY <3>1, <3>2, <3>3, <1>3, HolderStays DEF Persists
  <2>. QED  BY <2>1, <2>2
<1>. QED  BY <1>6, <1>8, HandsKept

\* The worker begins with everything that is not finished on the queue.
LEMMA LoadHands ==
  ASSUME Inv, Load
  PROVE  HandsOK'
<1>1. Types /\ RowsOK
  BY DEF Inv
<1>2. queue' = Loaded /\ UNCHANGED <<rows, id, status>>
  BY DEF Load, events
<1>3. \A i \in Rows : Job(i) \in JobRecord
  BY <1>1, RowItems DEF Types, RowsOK, Job, JobRecord
<1>4. ToSet(queue') = ToSet(queue) \cup {Job(i) : i \in {j \in Rows : Unfinished(j)}}
  BY <1>1, <1>2, <1>3, LoadedIs
<1>5. ASSUME NEW i \in Items, Pending(i)' PROVE Held(i)'
  <2>1. i \in Rows /\ Unfinished(i)
    BY <1>1, <1>2, <1>5, InstallerAssumption
    DEF Pending, RowsOK, Unfinished, Rows, InstallerAssumption
  <2>2. Job(i)' = Job(i)
    BY <1>2 DEF Job
  <2>. QED  BY <2>1, <2>2, <1>4 DEF Held, Queued
<1>. QED  BY <1>5 DEF HandsOK

LEMMA InductiveHands ==
  ASSUME Inv, HandsOK, [Next]_vars
  PROVE  HandsOK'
<1>0. Types
  BY DEF Inv
<1>1. CASE \/ UNCHANGED vars
           \/ HandleNeedRestart
           \/ Open
  <2>1. /\ UNCHANGED <<id, status, request, queue, process, deserted, patched>>
        /\ server' = server \/ server = "starting"
    BY <1>1 DEF vars, events, memory, history, HandleNeedRestart, Open
  <2>2. Running' => Running
    BY <2>1 DEF Running
  <2>3. \A i \in Items : Persists(i)
    BY <2>1, HolderStays DEF Persists, Excused
  <2>. QED  BY <2>2, <2>3, HandsKept
<1>2. ASSUME NEW p \in Processes, ProcessStep(p) PROVE HandsOK'
  BY <1>2, ProcessStepHands
<1>3. CASE WorkerFails \/ NoRow \/ Crash \/ Start
  <2>1. "queued" \in Processes
    BY DEF Processes
  <2>2. ~ Running'
    <3>1. CASE WorkerFails \/ NoRow
      BY <3>1, <1>0, <2>1 DEF WorkerFails, NoRow, RunAgain, Running, Nobody, Types
    <3>2. CASE Crash
      BY <3>2 DEF Crash, Running
    <3>3. CASE Start
      BY <3>3 DEF Start, Running, Nobody
    <3>. QED  BY <1>3, <3>1, <3>2, <3>3
  <2>. QED  BY <2>2 DEF HandsOK
<1>4. CASE WorkerStep
  BY <1>2, <1>4, <1>3, LoadHands, GetHands, CatchHands, RetryHands, OtherIs DEF WorkerStep
<1>5. CASE Announce
  <2>1. /\ process["direct"].at = "finished" /\ process' = Leave("direct")
        /\ UNCHANGED <<id, status, request, queue, server, deserted, patched>>
    BY <1>5 DEF Announce, At, events, history
  <2>2. "direct" \in Processes /\ process["direct"].item \in Items
    BY <2>1, <1>0, RowItems DEF Inv, CallsOK, CallOK, Processes, Busy
  <2>3. \A q \in Processes : q # "direct" => process'[q] = process[q]
    BY <2>1, <1>0 DEF Types, Leave
  <2>4. ~ Carries("direct", process["direct"].item)
    BY <2>1 DEF Carries
  <2>5. \A j : Excused(j) => Excused(j)'
    BY <2>1 DEF Excused
  <2>. QED  BY <2>1, <2>2, <2>3, <2>4, <2>5, CallHands DEF Busy
<1>6. CASE DirectStep
  BY <1>2, <1>5, <1>6, CallDirectHands, OtherIs DEF DirectStep
<1>7. ASSUME NEW r \in Asking, NEW i \in Items, Upload(r, i) \/ Look(r, i)
      PROVE  HandsOK'
  BY <1>7, AskHands
<1>8. ASSUME NEW r \in Asking, RequestStep(r) PROVE HandsOK'
  BY <1>8, RequestStepHands
<1>9. Requesters \subseteq Asking /\ Maintenance \in Asking
      /\ Uploads \subseteq Items /\ Urls \cup Packages \subseteq Items
  BY DEF Asking, Items
<1>. QED  BY <1>1, <1>4, <1>6, <1>3, <1>7, <1>8, <1>9, PatchHands DEF Next, Asking

\* While the worker runs, an event that is not done with is in somebody's hand, unless
\* its request or its call without the queue has raised, or a PATCH has set its status.
THEOREM NothingForgotten == Spec => []NoneForgotten
<1>1. Init => HandsOK
  BY DEF Init, HandsOK, Running
<1>2. Inv /\ HandsOK => NoneForgotten
  <2>1. SUFFICES ASSUME Inv, HandsOK, server # "down", ~ At("queued", "loading"),
                        NEW i \in Items \ (deserted \cup patched),
                        status[i] \notin {NULL, "finished", "failed"}
                 PROVE  InHand(i)
    BY DEF NoneForgotten
  <2>2. Held(i)
    BY <2>1 DEF HandsOK, Running, Pending, Excused, At
  <2>3. ASSUME NEW p \in Processes, Carries(p, i) PROVE InHand(i)
    BY <2>3 DEF Carries, InHand, At
  <2>4. ASSUME NEW r \in Asking, Posted(r, i) PROVE InHand(i)
    <3>1. request[r] \in [at : Requested, item : Items \cup {NULL}, id : Nat]
          /\ DOMAIN request = Asking
      BY <2>1 DEF Inv, Types
    <3>2. request[r] = Asks("posted", i, id[i])
      BY <2>4, <3>1 DEF Posted, Asks
    <3>. QED  BY <3>1, <3>2 DEF InHand
  <2>. QED  BY <2>2, <2>3, <2>4 DEF Held, Queued, InHand
<1>. QED  BY <1>1, <1>2, Initially, Inductive, InductiveHands, PTL DEF Spec
-----------------------------------------------------------------------------
(* What is in place *)

Downloads == Urls \cup Packages

Begun(p) == process[p].at \in {"working", "removed", "moved"}

Spot(p) == PlaceOf[process[p].item]

\* A place where both calls are at work is known to be crossed.
CrossOK ==
  \A p \in Processes, q \in Processes :
    p # q /\ Begun(p) /\ Begun(q) /\ Spot(p) = Spot(q) => Spot(p) \in crossed

\* The status says, and not because of a PATCH, that the item is finished.
Shown(i) == status[i] = "finished" /\ i \notin patched

\* A call that has moved its download has put it in place; one that works on it
\* has seen to it that it is not shown as finished.
FilesOK(p) ==
  process[p].item \in Downloads /\ Spot(p) \notin crossed =>
    /\ process[p].at = "moved" => InPlace(process[p].item)
    /\ process[p].at \in {"working", "removed"} => ~ Shown(process[p].item)

FilesType == files \in [Places -> [by : Items \cup {NULL}, there : BOOLEAN]]

Placed == /\ FilesType
          /\ CrossOK
          /\ \A p \in Processes : FilesOK(p)
          /\ \A i \in Downloads : Shown(i) => InPlace(i) \/ PlaceOf[i] \in crossed

\* Nobody else works where a call does, or the place is crossed.
LEMMA NoOther ==
  ASSUME Placed, NEW p \in Processes, NEW q \in Processes, q # p,
         Begun(p), Begun(q), process[p].item = process[q].item
  PROVE  Spot(q) \in crossed
BY DEF Placed, CrossOK, Spot

LEMMA CrossKept ==
  ASSUME CrossOK, crossed \subseteq crossed',
         \A p \in Processes : Begun(p)' => Begun(p) /\ process'[p].item = process[p].item
  PROVE  CrossOK'
<1>1. \A p \in Processes : Begun(p)' => Spot(p)' = Spot(p)
  BY DEF Spot
<1>. QED  BY <1>1 DEF CrossOK

\* What is set to finished is the item of the job; any other status shows nothing.
LEMMA ShownIsOwn ==
  ASSUME Types, RowsOK, NEW job, job.item \in Rows, NEW s \in MayHave,
         SetStatus(job, s)
  PROVE  \A i \in Items : i # job.item \/ s # "finished" => (Shown(i)' => Shown(i))
<1>1. /\ \A i \in Items : i # job.item => status'[i] = status[i]
      /\ \/ status'[job.item] = s /\ patched' = patched \ {job.item}
         \/ UNCHANGED <<status, patched>>
  BY StatusStep
<1>. QED  BY <1>1 DEF Shown

\* A call has worked at the place of its item.
LEMMA PutStep ==
  ASSUME FilesType, NEW p \in Processes, NEW i \in Items, i = process[p].item,
         NEW there \in BOOLEAN, Put(p, there)
  PROVE  /\ FilesType'
         /\ \A j \in Items : j # i \/ there => (InPlace(j) => InPlace(j)')
         /\ there => InPlace(i)'
<1>1. PICK w : w = [by |-> i, there |-> there]
  OBVIOUS
<1>2. /\ w \in [by : Items \cup {NULL}, there : BOOLEAN]
      /\ w.by = i /\ (there => w.there)
  BY <1>1
<1>3. PlaceOf[i] \in Places /\ NULL \notin Items
  BY InstallerAssumption DEF InstallerAssumption
<1>4. files' = [files EXCEPT ![PlaceOf[i]] = w]
  BY <1>1 DEF Put
<1>5. /\ files' \in [Places -> [by : Items \cup {NULL}, there : BOOLEAN]]
      /\ files'[PlaceOf[i]] = w
      /\ \A d \in Places : d # PlaceOf[i] => files'[d] = files[d]
  <2>. DEFINE W == [by : Items \cup {NULL}, there : BOOLEAN]
  <2>1. files \in [Places -> W] /\ w \in W
    BY <1>2 DEF FilesType
  <2>. HIDE DEF W
  <2>2. /\ files' \in [Places -> W] /\ files'[PlaceOf[i]] = w
        /\ \A d \in Places : d # PlaceOf[i] => files'[d] = files[d]
    BY <2>1, <1>3, <1>4
  <2>. QED  BY <2>2 DEF W
<1>6. ASSUME NEW j \in Items, j # i \/ there, InPlace(j)
      PROVE  InPlace(j)'
  <2>1. PlaceOf[j] \in Places
    BY InstallerAssumption DEF InstallerAssumption
  <2>2. CASE PlaceOf[j] # PlaceOf[i]
    BY <2>1, <2>2, <1>5, <1>6 DEF InPlace
  <2>3. CASE PlaceOf[j] = PlaceOf[i]
    BY <2>3, <1>2, <1>3, <1>5, <1>6 DEF InPlace
  <2>. QED  BY <2>2, <2>3
<1>7. there => InPlace(i)'
  BY <1>2, <1>5 DEF InPlace
<1>. QED  BY <1>5, <1>6, <1>7 DEF FilesType

\* A step that finishes nothing, and leaves the files alone.
LEMMA FilesKept ==
  ASSUME Inv, Placed, UNCHANGED <<files, crossed>>,
         \A i \in Downloads : Shown(i)' => Shown(i),
         \A p \in Processes :
           \/ process'[p] = process[p]
           \/ ~ Begun(p)'
           \/ /\ Begun(p) /\ process'[p].item = process[p].item
              /\ process[p].item \notin Downloads
  PROVE  Placed'
<1>1. CrossOK'
  <2>1. \A p \in Processes : process'[p] = process[p] => Begun(p)' = Begun(p)
    BY DEF Begun
  <2>. QED  BY <2>1, CrossKept DEF Placed
<1>2. \A i : InPlace(i)' = InPlace(i)
  BY DEF InPlace
<1>3. ASSUME NEW p \in Processes PROVE FilesOK(p)'
  <2>1. FilesOK(p)
    BY DEF Placed
  <2>2. CASE process'[p] = process[p]
    <3>1. PICK i : i = process[p].item
      OBVIOUS
    <3>2. process'[p].item = i
      BY <2>2, <3>1
    <3>3. i \in Downloads => (Shown(i)' => Shown(i))
      OBVIOUS
    <3>. QED  BY <2>1, <2>2, <3>1, <3>2, <3>3, <1>2 DEF FilesOK, Spot
  <2>3. CASE ~ Begun(p)' \/ process'[p].item \notin Downloads
    BY <2>3 DEF FilesOK, Begun
  <2>. QED  BY <2>2, <2>3
<1>4. FilesType'
  BY DEF Placed, FilesType
<1>. QED  BY <1>1, <1>2, <1>3, <1>4 DEF Placed

\* What a call is at work on.
LEMMA CallItem ==
  ASSUME Inv, NEW p \in Processes, process[p].at \in Busy
  PROVE  process[p].item \in Rows /\ process[p].item \in Items
BY RowItems DEF Inv, CallsOK, CallOK

LEMMA DownloadItems == Downloads \subseteq Items /\ Downloads \cap Uploads = {}
BY InstallerAssumption DEF Downloads, Items, InstallerAssumption

\* A call that begins has set its download to in_progress.
LEMMA BeginFiles ==
  ASSUME Inv, Placed, NEW p \in Processes, Begin(p)
  PROVE  Placed'
<1>1. Types /\ RowsOK /\ CallOK(p) /\ process[p].at = "called" /\ process[p].at \in Busy
  BY DEF Inv, CallsOK, Begin, At, Busy
<1>2. PICK i : i = process[p].item
  OBVIOUS
<1>3. i \in Rows /\ i \in Items
  BY <1>1, <1>2, CallItem
<1>4. SetStatus(process[p], "in_progress") /\ "in_progress" \in MayHave
  BY DEF Begin, MayHave, Statuses
<1>5. i \in Downloads => ~ Shown(i)'
  <2>1. ASSUME i \in Downloads PROVE id[i] = process[p].id
    <3>1. i \notin Uploads
      BY <2>1, DownloadItems
    <3>2. id[i] \in Nat /\ id[i] # 0 /\ id[i] <= 1
      BY <3>1, <1>1, <1>3 DEF RowsOK, Types
    <3>3. process[p].id = 1
      BY <3>1, <1>1, <1>2 DEF CallOK
    <3>. QED  BY <3>2, <3>3
  <2>2. id[i] = process[p].id => status'[i] = "in_progress"
    BY <1>1, <1>2, <1>3, <1>4, StatusStep
  <2>. QED  BY <2>1, <2>2 DEF Shown
<1>6. \A j \in Downloads : Shown(j)' => Shown(j)
  BY <1>1, <1>2, <1>3, <1>4, ShownIsOwn, DownloadItems
<1>7. /\ process'[p].at = "working" /\ process'[p].item = i
      /\ \A q \in Processes : q # p => process'[q] = process[q]
  BY <1>1, <1>2, GotoStep DEF Begin, Busy
<1>8. crossed' = crossed \cup (PlacesOf(p) \cap PlacesOf(Other(p))) /\ UNCHANGED files
  BY DEF Begin
<1>9. CrossOK'
  <2>1. SUFFICES ASSUME NEW a \in Processes, NEW b \in Processes, a # b,
                        Begun(a)', Begun(b)', Spot(a)' = Spot(b)'
                 PROVE  Spot(a)' \in crossed'
    BY DEF CrossOK
  <2>2. \A q \in Processes : Spot(q)' = Spot(q) /\ process'[q].item = process[q].item
    BY <1>2, <1>7 DEF Spot
  <2>3. (a = p /\ b = Other(p)) \/ (b = p /\ a = Other(p))
        \/ (a # p /\ b # p)
    BY <2>1, OtherIs
  <2>4. ~ (a # p /\ b # p)
    BY <2>1, OtherIs
  <2>5. Other(p) \in Processes /\ Other(p) # p /\ Begun(Other(p))' /\ Spot(p) = Spot(Other(p))
        /\ Spot(a)' = Spot(p)
    BY <2>1, <2>2, <2>3, <2>4, OtherIs
  <2>6. process[Other(p)].item # NULL
    <3>1. process[Other(p)].at \in Busy
      BY <2>5, <1>7 DEF Begun, Busy
    <3>. QED  BY <3>1, <2>5, CallItem, InstallerAssumption DEF InstallerAssumption
  <2>7. Spot(p) \in PlacesOf(p) /\ Spot(Other(p)) \in PlacesOf(Other(p))
    BY <2>6, <1>2, <1>3, InstallerAssumption DEF PlacesOf, Spot, InstallerAssumption
  <2>. QED  BY <2>5, <2>7, <1>8
<1>10. \A j : InPlace(j)' = InPlace(j)
  BY <1>8 DEF InPlace
<1>11. ASSUME NEW q \in Processes PROVE FilesOK(q)'
  <2>1. CASE q = p
    <3>1. process'[q].item = i /\ process'[q].at = "working"
      BY <2>1, <1>7
    <3>. QED  BY <3>1, <1>5 DEF FilesOK
  <2>2. CASE q # p
    <3>1. PICK j : j = process[q].item
      OBVIOUS
    <3>2. process'[q].item = j /\ process'[q].at = process[q].at
      BY <2>2, <3>1, <1>7
    <3>3. j \in Downloads /\ PlaceOf[j] \notin crossed =>
            /\ process[q].at = "moved" => InPlace(j)
            /\ process[q].at \in {"working", "removed"} => ~ Shown(j)
      BY <3>1 DEF Placed, FilesOK, Spot
    <3>. QED  BY <3>2, <3>3, <1>6, <1>8, <1>10 DEF FilesOK, Spot
  <2>. QED  BY <2>1, <2>2
<1>12. FilesType'
  BY <1>8 DEF Placed, FilesType
<1>. QED  BY <1>6, <1>8, <1>9, <1>10, <1>11, <1>12 DEF Placed

\* Removing what is there, and putting it in place.
LEMMA PutFiles ==
  ASSUME Inv, Placed, NEW p \in Processes, RemoveOld(p) \/ Move(p)
  PROVE  Placed'
<1>1. /\ process[p].at \in {"working", "removed"} /\ process[p].at \in Busy /\ Begun(p)
      /\ UNCHANGED <<status, patched, crossed>>
  BY DEF RemoveOld, Move, At, Begun, Busy, events, history
<1>2. PICK i : i = process[p].item
  OBVIOUS
<1>3. i \in Items
  BY <1>1, <1>2, CallItem
<1>4. PICK at \in {"removed", "moved"} : Goto(p, at) /\ Put(p, at = "moved")
  BY DEF RemoveOld, Move
<1>5. /\ process'[p].at = at /\ process'[p].item = i
      /\ \A q \in Processes : q # p => process'[q] = process[q]
  BY <1>2, <1>4, GotoStep DEF Busy, Inv
<1>6. /\ FilesType'
      /\ \A j \in Items : j # i \/ at = "moved" => (InPlace(j) => InPlace(j)')
      /\ at = "moved" => InPlace(i)'
  <2>1. PICK there \in BOOLEAN : there <=> at = "moved"
    OBVIOUS
  <2>2. there = (at = "moved")
    BY <2>1
  <2>. QED  BY <2>1, <2>2, <1>2, <1>3, <1>4, PutStep DEF Placed
<1>7. CrossOK'
  BY <1>1, <1>2, <1>5, CrossKept DEF Placed, Begun
<1>8. \A j : Shown(j)' = Shown(j)
  BY <1>1 DEF Shown
<1>9. ASSUME NEW q \in Processes PROVE FilesOK(q)'
  <2>1. FilesOK(q)
    BY DEF Placed
  <2>2. CASE q = p
    <3>1. process'[q].item = i /\ process'[q].at = at
      BY <2>2, <1>5
    <3>2. i \in Downloads /\ PlaceOf[i] \notin crossed => ~ Shown(i)
      BY <2>1, <2>2, <1>1, <1>2 DEF FilesOK, Spot
    <3>. QED  BY <3>1, <3>2, <1>1, <1>4, <1>6, <1>8 DEF FilesOK, Spot
  <2>3. CASE q # p
    <3>1. PICK j : j = process[q].item
      OBVIOUS
    <3>2. process'[q].item = j /\ process'[q].at = process[q].at
      BY <2>3, <3>1, <1>5
    <3>3. j = i /\ process[q].at = "moved" => PlaceOf[j] \in crossed
      <4>1. process[q].at = "moved" => Begun(q)
        BY DEF Begun, Busy
      <4>. QED  BY <2>3, <3>1, <4>1, <1>1, <1>2, NoOther DEF Spot
    <3>4. j \in Downloads /\ PlaceOf[j] \notin crossed =>
            /\ process[q].at = "moved" => InPlace(j)
            /\ process[q].at \in {"working", "removed"} => ~ Shown(j)
      BY <2>1, <3>1 DEF FilesOK, Spot
    <3>5. j \in Downloads => j \in Items
      BY DownloadItems
    <3>. QED  BY <3>2, <3>3, <3>4, <3>5, <1>1, <1>6, <1>8 DEF FilesOK, Spot
  <2>. QED  BY <2>2, <2>3
<1>10. ASSUME NEW j \in Downloads, Shown(j)'
       PROVE  InPlace(j)' \/ PlaceOf[j] \in crossed'
  <2>1. j \in Items /\ Shown(j) /\ (InPlace(j) \/ PlaceOf[j] \in crossed)
    BY <1>8, <1>10, DownloadItems DEF Placed
  <2>2. j = i => PlaceOf[j] \in crossed
    BY <2>1, <1>1, <1>2 DEF Placed, FilesOK, Spot
  <2>. QED  BY <2>1, <2>2, <1>1, <1>6
<1>. QED  BY <1>6, <1>7, <1>9, <1>10 DEF Placed

\* A call that has moved its item sets it to finished, and is done with it.
LEMMA FinishedFiles ==
  ASSUME Inv, Placed, NEW p \in Processes, process[p].at = "moved",
         SetStatus(process[p], "finished"), UNCHANGED <<files, crossed>>,
         ~ Begun(p)',
         \A q \in Processes : q # p => process'[q] = process[q]
  PROVE  Placed'
<1>1. Types /\ RowsOK /\ process[p].at \in Busy /\ Begun(p)
  BY DEF Inv, Begun, Busy
<1>2. PICK i : i = process[p].item
  OBVIOUS
<1>3. i \in Rows /\ i \in Items
  BY <1>1, <1>2, CallItem
<1>4. \A j \in Items : j # i => (Shown(j)' => Shown(j))
  <2>1. "finished" \in MayHave
    BY DEF MayHave, Statuses
  <2>. QED  BY <2>1, <1>1, <1>2, <1>3, ShownIsOwn
<1>5. CrossOK'
  <2>1. \A q \in Processes : q # p => Begun(q)' = Begun(q)
    BY DEF Begun
  <2>. QED  BY <2>1, <1>1, CrossKept DEF Placed
<1>6. \A j : InPlace(j)' = InPlace(j)
  BY DEF InPlace
<1>7. ASSUME NEW q \in Processes PROVE FilesOK(q)'
  <2>1. CASE q = p
    BY <2>1 DEF FilesOK, Begun
  <2>2. CASE q # p
    <3>1. PICK j : j = process[q].item
      OBVIOUS
    <3>2. process'[q].item = j /\ process'[q].at = process[q].at
      BY <2>2, <3>1
    <3>3. j = i /\ process[q].at \in {"working", "removed"} => PlaceOf[j] \in crossed
      <4>1. process[q].at \in {"working", "removed"} => Begun(q)
        BY DEF Begun, Busy
      <4>. QED  BY <2>2, <3>1, <4>1, <1>1, <1>2, NoOther DEF Spot
    <3>4. j \in Downloads /\ PlaceOf[j] \notin crossed =>
            /\ process[q].at = "moved" => InPlace(j)
            /\ process[q].at \in {"working", "removed"} => ~ Shown(j)
      BY <3>1 DEF Placed, FilesOK, Spot
    <3>5. j \in Downloads => j \in Items
      BY DownloadItems
    <3>. QED  BY <3>2, <3>3, <3>4, <3>5, <1>4, <1>6 DEF FilesOK, Spot
  <2>. QED  BY <2>1, <2>2
<1>8. ASSUME NEW j \in Downloads, Shown(j)'
      PROVE  InPlace(j)' \/ PlaceOf[j] \in crossed'
  <2>1. CASE j = i
    <3>1. InPlace(i) \/ PlaceOf[i] \in crossed
      BY <2>1, <1>2, <1>8 DEF Placed, FilesOK, Spot
    <3>. QED  BY <2>1, <3>1, <1>6
  <2>2. CASE j # i
    BY <2>2, <1>4, <1>6, <1>8, DownloadItems DEF Placed
  <2>. QED  BY <2>1, <2>2
<1>9. FilesType'
  BY DEF Placed, FilesType
<1>. QED  BY <1>5, <1>7, <1>8, <1>9 DEF Placed

LEMMA FinishFiles ==
  ASSUME Inv, Placed, NEW p \in Processes, Finish(p)
  PROVE  Placed'
<1>1. /\ Types /\ process[p].at = "moved" /\ SetStatus(process[p], "finished")
      /\ UNCHANGED <<files, crossed>>
  BY DEF Inv, Finish, At
<1>2. /\ process'[p].at \in {"idle", "finished"}
      /\ \A q \in Processes : q # p => process'[q] = process[q]
  <2>1. CASE p = "queued"
    <3>1. process' = [process EXCEPT ![p] = Nobody]
      BY <2>1 DEF Finish, Leave
    <3>. QED  BY <3>1, <1>1, NobodyIs, SetStep
  <2>2. CASE p # "queued"
    <3>1. Goto(p, "finished")
      BY <2>2 DEF Finish
    <3>. QED  BY <3>1, <1>1, GotoStep DEF Busy
  <2>. QED  BY <2>1, <2>2
<1>3. ~ Begun(p)'
  BY <1>2 DEF Begun
<1>. QED  BY <1>1, <1>2, <1>3, FinishedFiles

\* An exception ends the work of a call.
LEMMA RaiseStep ==
  ASSUME Inv, NEW p \in Processes, Raise(p)
  PROVE  /\ process'[p].at \in {"idle", "raised"}
         /\ \A q \in Processes : q # p => process'[q] = process[q]
<1>1. CASE p = "queued"
  <2>1. Goto(p, "raised") /\ "raised" \in Waiting \cup Busy
    BY <1>1 DEF Raise, Busy
  <2>. QED  BY <2>1, GotoStep DEF Inv
<1>2. CASE p # "queued"
  <2>1. process' = [process EXCEPT ![p] = Nobody]
    BY <1>2 DEF Raise, Leave
  <2>2. process'[p] = Nobody /\ \A q \in Processes : q # p => process'[q] = process[q]
    BY <2>1, NobodyIs, SetStep DEF Inv
  <2>. QED  BY <2>2, NobodyIs
<1>. QED  BY <1>1, <1>2

LEMMA FailFiles ==
  ASSUME Inv, Placed, NEW p \in Processes, FailUrl(p) \/ FailUpdate(p)
  PROVE  Placed'
<1>1. Raise(p) /\ UNCHANGED <<files, crossed>>
  BY DEF FailUrl, Fail, FailUpdate
<1>2. ~ Begun(p)' /\ \A q \in Processes : q # p => process'[q] = process[q]
  BY <1>1, RaiseStep DEF Begun
<1>3. CASE At(p, "moved") /\ SetStatus(process[p], "finished")
  BY <1>1, <1>2, <1>3, FinishedFiles DEF At
<1>4. CASE UNCHANGED <<status, patched>>
  <2>1. \A i : Shown(i)' = Shown(i)
    BY <1>4 DEF Shown
  <2>. QED  BY <2>1, <1>1, <1>2, FilesKept
<1>. QED  BY <1>3, <1>4 DEF FailUrl, FailUpdate, events

LEMMA FailUploadFiles ==
  ASSUME Inv, Placed, NEW p \in Processes, FailUpload(p)
  PROVE  Placed'
<1>1. /\ Types /\ RowsOK /\ Begun(p) /\ process[p].item \notin Downloads
      /\ SetStatus(process[p], "failed") /\ "failed" \in MayHave
      /\ Goto(p, "moved") /\ UNCHANGED <<files, crossed>>
      /\ process[p].at \in Busy
  BY DownloadItems DEF Inv, FailUpload, Begun, MayHave, Statuses, Busy
<1>2. \A i \in Downloads : Shown(i)' => Shown(i)
  BY <1>1, CallItem, ShownIsOwn, DownloadItems
<1>3. /\ process'[p].item = process[p].item
      /\ \A q \in Processes : q # p => process'[q] = process[q]
  BY <1>1, GotoStep DEF Busy
<1>. QED  BY <1>1, <1>2, <1>3, FilesKept

\* A call that ends, is started, or is not at work any more.
LEMMA LeaveFiles ==
  ASSUME Inv, Placed, NEW p \in Processes, process' = Leave(p),
         UNCHANGED <<files, crossed>>, \A i \in Downloads : Shown(i)' => Shown(i)
  PROVE  Placed'
<1>1. /\ process'[p] = Nobody
      /\ \A q \in Processes : q # p => process'[q] = process[q]
  BY NobodyIs, SetStep DEF Inv, Leave
<1>2. ~ Begun(p)'
  BY <1>1, NobodyIs DEF Begun
<1>. QED  BY <1>1, <1>2, FilesKept

LEMMA CallFiles ==
  ASSUME Inv, Placed, NEW p \in Processes, NEW job \in JobRecord, JobOK(job),
         Call(p, job), UNCHANGED <<status, patched, files, crossed>>
  PROVE  Placed'
<1>1. /\ \A q \in Processes : q # p => process'[q] = process[q]
      /\ process' = process \/ process'[p].at = "called"
  BY CallStep
<1>2. process'[p].at = "called" => ~ Begun(p)'
  BY DEF Begun
<1>3. \A i : Shown(i)' = Shown(i)
  BY DEF Shown
<1>. QED  BY <1>1, <1>2, <1>3, FilesKept

LEMMA RunAgainFiles ==
  ASSUME Inv, Placed, WorkerFails \/ NoRow
  PROVE  Placed'
<1>1. "queued" \in Processes /\ process["queued"].at \in Busy /\ RunAgain
  BY DEF WorkerFails, NoRow, At, Processes, Busy
<1>2. UNCHANGED <<files, crossed>>
  BY <1>1 DEF RunAgain
<1>3. /\ process'["queued"].at = "loading"
      /\ \A q \in Processes : q # "queued" => process'[q] = process[q]
  BY <1>1 DEF RunAgain, Inv, Types, Nobody
<1>4. \A i \in Downloads : Shown(i)' => Shown(i)
  <2>1. CASE SetFailed
    <3>1. SetStatus(process["queued"], "failed") /\ "failed" \in MayHave
      BY <2>1 DEF SetFailed, MayHave, Statuses
    <3>. QED  BY <3>1, <1>1, CallItem, ShownIsOwn, DownloadItems DEF Inv
  <2>2. CASE UNCHANGED <<status, patched>>
    BY <2>2 DEF Shown
  <2>. QED  BY <2>1, <2>2 DEF WorkerFails, NoRow
<1>5. ~ Begun("queued")'
  BY <1>3 DEF Begun
<1>. QED  BY <1>2, <1>3, <1>4, <1>5, FilesKept

LEMMA InductiveFiles ==
  ASSUME Inv, Placed, [Next]_vars
  PROVE  Placed'
<1>1. Types /\ RowsOK /\ "queued" \in Processes /\ "direct" \in Processes
  BY DEF Inv, Processes
<1>2. UNCHANGED <<status, patched>> => \A i : Shown(i)' = Shown(i)
  BY DEF Shown
<1>3. CASE \/ UNCHANGED vars
           \/ HandleNeedRestart
           \/ Open
           \/ \E r \in Asking, i \in Downloads : Look(r, i)
           \/ \E r \in Asking : Enqueue(r) \/ Unpublished(r)
  <2>1. UNCHANGED <<status, patched, process, files, crossed>>
    BY <1>3 DEF vars, events, memory, history, HandleNeedRestart, Open, Look, Enqueue,
                Unpublished
  <2>. QED  BY <2>1, <1>2, FilesKept
<1>4. ASSUME NEW i \in Items, Set(i, "pending"),
             UNCHANGED <<process, files, crossed>>
      PROVE  Placed'
  <2>1. /\ status' = [status EXCEPT ![i] = "pending"] /\ patched' = patched \ {i}
    BY <1>4 DEF Set
  <2>2. \A j \in Downloads : Shown(j)' => Shown(j)
    BY <2>1, <1>1, DownloadItems DEF Types, Shown
  <2>. QED  BY <2>2, <1>4, FilesKept
<1>5. ASSUME NEW r \in Requesters, NEW i \in Uploads, Upload(r, i)
      PROVE  Placed'
  BY <1>4, <1>5 DEF Upload, memory, Items
<1>6. ASSUME NEW r \in Asking, Reuse(r) \/ Dispatch(r)
      PROVE  Placed'
  <2>1. request[r].item \in Items
    <3>1. RequestOK(r) /\ request[r].at # "idle"
      BY <1>6 DEF Inv, RequestsOK, Reuse, Dispatch
    <3>. QED  BY <3>1, <1>1 DEF RequestOK, Types
  <2>2. /\ Set(request[r].item, "pending") \/ UNCHANGED <<status, patched>>
        /\ UNCHANGED <<process, files, crossed>>
    BY <1>6 DEF Reuse, Dispatch, memory
  <2>3. PICK i \in Items : i = request[r].item
    BY <2>1
  <2>4. CASE Set(request[r].item, "pending")
    <3>1. Set(i, "pending")
      BY <2>3, <2>4 DEF Set
    <3>. QED  BY <3>1, <2>2, <1>4
  <2>5. CASE UNCHANGED <<status, patched>>
    BY <2>2, <2>5, <1>2, FilesKept
  <2>. QED  BY <2>2, <2>4, <2>5
<1>7. ASSUME NEW i \in Items, NEW s \in PatchStatuses \cup {NULL},
             NEW n \in PatchRetries \cup {NULL}, Patch(i, s, n)
      PROVE  Placed'
  <2>1. UNCHANGED <<process, files, crossed>>
    BY <1>7 DEF Patch, memory
  <2>2. \/ UNCHANGED <<status, patched>>
        \/ status' = [status EXCEPT ![i] = s] /\ patched' = patched \cup {i}
    BY <1>7 DEF Patch
  <2>3. \A j \in Downloads : Shown(j)' => Shown(j)
    BY <2>2, <1>1, DownloadItems DEF Types, Shown
  <2>. QED  BY <2>1, <2>3, FilesKept
<1>8. ASSUME NEW p \in Processes, ProcessStep(p)
      PROVE  Placed'
  BY <1>8, BeginFiles, PutFiles, FailUploadFiles, FailFiles, FinishFiles DEF ProcessStep
<1>9. CASE Announce
  <2>1. /\ process' = Leave("direct")
        /\ UNCHANGED <<status, patched, files, crossed>>
    BY <1>9 DEF Announce, events, history
  <2>. QED  BY <2>1, <1>1, <1>2, LeaveFiles
<1>10. CASE Load
  <2>1. /\ process' = Leave("queued") /\ patched' = {i \in patched : ~ Unfinished(i)}
        /\ UNCHANGED <<status, files, crossed>>
    BY <1>10 DEF Load, events
  <2>2. \A i \in Downloads : Shown(i)' => Shown(i)
    BY <2>1 DEF Shown, Unfinished
  <2>. QED  BY <2>1, <2>2, <1>1, LeaveFiles
<1>11. CASE Retry
  <2>1. /\ process' = Leave("queued") /\ UNCHANGED <<files, crossed>>
        /\ SetStatus(process["queued"], "failed") /\ "failed" \in MayHave
        /\ process["queued"].at \in Busy
    BY <1>11 DEF Retry, SetFailed, MayHave, Statuses, At, Busy
  <2>2. \A i \in Downloads : Shown(i)' => Shown(i)
    BY <2>1, <1>1, CallItem, ShownIsOwn, DownloadItems
  <2>. QED  BY <2>1, <2>2, <1>1, LeaveFiles
<1>12. CASE Catch
  <2>1. /\ Goto("queued", "caught")
        /\ UNCHANGED <<status, patched, files, crossed>>
    BY <1>12 DEF Catch, events, history
  <2>2. /\ process'["queued"].at = "caught"
        /\ \A q \in Processes : q # "queued" => process'[q] = process[q]
    BY <2>1, <1>1, GotoStep DEF Busy
  <2>3. ~ Begun("queued")'
    BY <2>2 DEF Begun
  <2>. QED  BY <2>1, <2>2, <2>3, <1>2, FilesKept
<1>13. CASE Get
  <2>1. PICK job : job = Head(queue)
    OBVIOUS
  <2>2. /\ queue # << >> /\ Call("queued", job)
        /\ UNCHANGED <<status, patched, files, crossed>>
    BY <2>1, <1>13 DEF Get, events
  <2>. QED  BY <2>1, <2>2, <1>1, HeadIs, CallFiles
<1>14. CASE CallDirect
  <2>1. PICK job : job = [item |-> request[Maintenance].item,
                          id |-> request[Maintenance].id]
    OBVIOUS
  <2>2. /\ request[Maintenance].at = "posted" /\ Call("direct", job)
        /\ UNCHANGED <<status, patched, files, crossed>>
    BY <2>1, <1>14 DEF CallDirect, events, history
  <2>3. job \in JobRecord /\ JobOK(job)
    <3>1. RequestOK(Maintenance) /\ Maintenance \in Asking
      BY DEF Inv, RequestsOK, Asking
    <3>2. /\ request[Maintenance].item \in Rows /\ request[Maintenance].id \in Nat \ {0}
          /\ (request[Maintenance].item \notin Uploads => request[Maintenance].id = 1)
      BY <2>2, <3>1, <1>1 DEF RequestOK, Types
    <3>. QED  BY <3>2, <2>1, <1>1, RowItems DEF JobRecord, JobOK
  <2>. QED  BY <2>2, <2>3, <1>1, CallFiles
<1>15. CASE Crash \/ Start
  <2>1. UNCHANGED <<status, patched, files, crossed>>
    BY <1>15 DEF Crash, Start, events, history
  <2>2. \A p \in Processes : process'[p].at \in {"off", "loading", "idle"}
    <3>1. CASE Crash
      BY <3>1 DEF Crash, Off, Nobody
    <3>2. CASE Start
      BY <3>2 DEF Start, Nobody, Processes
    <3>. QED  BY <1>15, <3>1, <3>2
  <2>3. \A p \in Processes : ~ Begun(p)'
    BY <2>2 DEF Begun
  <2>. QED  BY <2>1, <2>3, <1>2, FilesKept
<1>16. CASE WorkerStep \/ DirectStep
  BY <1>1, <1>8, <1>9, <1>10, <1>11, <1>12, <1>13, <1>14, <1>16, RunAgainFiles
  DEF WorkerStep, DirectStep
<1>17. ASSUME NEW r \in Asking, RequestStep(r)
       PROVE  Placed'
  BY <1>3, <1>6, <1>17 DEF RequestStep
<1>18. Requesters \subseteq Asking /\ Maintenance \in Asking /\ Urls \subseteq Downloads
  BY DEF Asking, Downloads
<1>. QED  BY <1>3, <1>5, <1>7, <1>15, <1>16, <1>17, <1>18, RunAgainFiles
          DEF Next, Asking, Downloads

\* A download that is reported as finished is in place, unless another item of the same
\* addon version has been worked on since, or at the same time, or a PATCH reports it.
THEOREM FinishedAreInstalled == Spec => []FinishedIsInstalled
<1>1. Init => Placed
  <2>1. SUFFICES ASSUME Init PROVE Placed
    OBVIOUS
  <2>2. \A p \in Processes : ~ Begun(p)
    BY <2>1 DEF Init, Off, Nobody, Begun
  <2>3. CrossOK /\ \A p \in Processes : FilesOK(p)
    BY <2>2 DEF CrossOK, FilesOK, Begun
  <2>4. FilesType /\ \A i \in Downloads : ~ Shown(i)
    BY <2>1, InstallerAssumption, DownloadItems
    DEF Init, FilesType, Shown, InstallerAssumption, Statuses
  <2>. QED  BY <2>3, <2>4 DEF Placed
<1>2. Placed => FinishedIsInstalled
  BY DEF Placed, FinishedIsInstalled, Shown, Downloads
<1>. QED  BY <1>1, <1>2, Initially, Inductive, InductiveFiles, PTL DEF Spec
-----------------------------------------------------------------------------
(* The restart *)

\* A restart is due only since the server is up, and then it is needed.
Sound == /\ server = "starting" => due = "no"
         /\ server # "down" /\ due # "no" => needed

\* Something will yet lead to handle_need_restart, with a queue that may be empty
\* by then.
Coming ==
  \/ required
  \/ timers > 0
  \/ queue # << >>
  \/ process["queued"].at \in {"called", "working", "removed", "moved", "raised", "caught"}

DueOK == Sound /\ (due = "yes" /\ server = "up" => Coming)

\* A step that leaves the worker alone, or after which it is still at work.
LEMMA DueKept ==
  ASSUME DueOK, UNCHANGED <<timers, server, due>>, needed => needed',
         \/ process'["queued"] = process["queued"]
         \/ process'["queued"].at \in {"called", "working", "removed", "moved", "raised",
                                       "caught"},
         required => required', queue # << >> => queue' # << >>
  PROVE  DueOK'
BY DEF DueOK, Sound, Coming

\* A step after which the restart is not known to be due.
LEMMA DueBehind ==
  ASSUME DueOK, due' = Behind, UNCHANGED <<needed, server>>
  PROVE  DueOK'
BY DEF DueOK, Sound, Behind

\* A step of the worker, which goes on.
LEMMA WorkerDue ==
  ASSUME Inv, DueOK, NEW p \in Processes, p = "queued",
         \/ Begin(p) \/ RemoveOld(p) \/ Move(p) \/ FailUpload(p) \/ FailUrl(p)
         \/ FailUpdate(p) \/ Catch
  PROVE  DueOK'
<1>1. UNCHANGED <<queue, timers, needed, required, server, due>>
  BY DEF Begin, RemoveOld, Move, FailUpload, FailUrl, FailUpdate, Catch, history
<1>2. \E at \in {"working", "removed", "moved", "raised", "caught"} : Goto(p, at)
  BY DEF Begin, RemoveOld, Move, FailUpload, FailUrl, Fail, FailUpdate, Raise, Catch
<1>3. process'[p].at \in {"working", "removed", "moved", "raised", "caught"}
  BY <1>2, GotoStep DEF Inv, Busy
<1>. QED  BY <1>1, <1>3, DueKept

\* The worker finishes an event, and leaves a task for the restart.
LEMMA FinishDue ==
  ASSUME Inv, DueOK, Finish("queued")
  PROVE  DueOK'
<1>1. Types /\ "queued" \in Processes
  BY DEF Inv, Processes
<1>2. PICK i : i = process["queued"].item
  OBVIOUS
<1>3. /\ needed' = (needed \/ i \in Addons) /\ timers' = timers + 1
      /\ due' = IF due # "no" \/ (i \in Addons /\ server = "up") THEN "yes" ELSE "no"
      /\ process' = Leave("queued") /\ UNCHANGED server
  BY <1>2 DEF Finish, Timers
<1>4. process'["queued"].at = "idle" /\ timers' > 0
  BY <1>1, <1>3, NobodyIs, SetStep DEF Leave, Types
<1>5. Sound'
  BY <1>3 DEF DueOK, Sound
<1>. QED  BY <1>4, <1>5 DEF DueOK, Coming

\* A step of maintenance, or of a request: the worker is left alone.
LEMMA DirectDue ==
  ASSUME Inv, DueOK, NEW p \in Processes, p = "direct",
         ProcessStep(p) \/ Announce
  PROVE  DueOK'
<1>1. Types
  BY DEF Inv
<1>2. UNCHANGED <<queue, timers, server, due>>
  <2>1. CASE Finish(p)
    BY <2>1 DEF Finish
  <2>2. CASE ProcessStep(p) /\ ~ Finish(p)
    BY <2>2 DEF ProcessStep, Begin, RemoveOld, Move, FailUpload, FailUrl, FailUpdate, history
  <2>3. CASE Announce
    BY <2>3 DEF Announce, history
  <2>. QED  BY <2>1, <2>2, <2>3
<1>3. required => required'
  BY DEF ProcessStep, Begin, RemoveOld, Move, FailUpload, FailUrl, FailUpdate, Finish,
         Announce
<1>4. needed => needed'
  BY DEF ProcessStep, Begin, RemoveOld, Move, FailUpload, FailUrl, FailUpdate, Finish,
         Announce
<1>5. process'["queued"] = process["queued"]
  <2>1. \A q \in Processes : q # p => process'[q] = process[q]
    BY <1>1 DEF ProcessStep, Begin, RemoveOld, Move, FailUpload, FailUrl, Fail, FailUpdate,
                Raise, Finish, Announce, Goto, Leave, Types
  <2>. QED  BY <2>1, OtherIs
<1>. QED  BY <1>2, <1>4, <1>5, <1>3, DueKept

LEMMA RequestDue ==
  ASSUME Inv, DueOK, NEW r \in Asking,
         (\E i \in Items : Upload(r, i) \/ Look(r, i)) \/ RequestStep(r)
  PROVE  DueOK'
<1>1. Types /\ RequestOK(r)
  BY DEF Inv, RequestsOK
<1>2. UNCHANGED <<process, timers, needed, required, server, due>>
  BY DEF Upload, Look, RequestStep, Reuse, Dispatch, Unpublished, Enqueue, memory, history
<1>3. queue # << >> => queue' # << >>
  <2>1. ASSUME Enqueue(r) PROVE queue' # << >>
    <3>1. PICK job : job = [item |-> request[r].item, id |-> request[r].id]
      OBVIOUS
    <3>2. queue' = Append(queue, job) /\ request[r].at = "posted"
      BY <2>1, <3>1 DEF Enqueue
    <3>3. request[r].item \in Rows /\ request[r].id \in Nat \ {0}
      BY <3>2, <1>1 DEF RequestOK, Types
    <3>4. job \in JobRecord /\ queue \in Seq(JobRecord)
      BY <3>1, <3>3, <1>1, RowItems DEF JobRecord, Types
    <3>. QED  BY <3>2, <3>4
  <2>. QED  BY <2>1 DEF Upload, Look, RequestStep, Reuse, Dispatch, Unpublished, memory
<1>. QED  BY <1>2, <1>3, DueKept

\* The worker takes its next event.
LEMMA GetDue ==
  ASSUME Inv, DueOK, Get
  PROVE  DueOK'
<1>1. Types /\ "queued" \in Processes
  BY DEF Inv, Processes
<1>2. PICK job : job = Head(queue)
  OBVIOUS
<1>3. /\ queue # << >> /\ Call("queued", job) /\ process["queued"].at = "idle"
      /\ due' = IF Drops(job) THEN Behind ELSE due
      /\ UNCHANGED <<needed, server>>
  BY <1>2 DEF Get, At
<1>4. job \in JobRecord /\ JobOK(job)
  BY <1>2, <1>3, HeadIs
<1>5. IF Drops(job) THEN process' = process ELSE process'["queued"].at = "called"
  BY <1>1, <1>3, <1>4, CallStep
<1>6. Sound'
  BY <1>3 DEF DueOK, Sound, Behind
<1>7. due' = "yes" => Coming'
  BY <1>3, <1>5 DEF Behind, Coming
<1>. QED  BY <1>6, <1>7 DEF DueOK

LEMMA LoadDue ==
  ASSUME Inv, DueOK, Load
  PROVE  DueOK'
<1>1. Types /\ RowsOK /\ "queued" \in Processes
  BY DEF Inv, Processes
<1>2. /\ queue' = Loaded /\ process' = Leave("queued") /\ process["queued"].at = "loading"
      /\ UNCHANGED <<timers, needed, required, server, due>>
  BY DEF Load, At
<1>3. \A i \in Rows : Job(i) \in JobRecord
  BY <1>1, RowItems DEF Types, RowsOK, Job, JobRecord
<1>4. ToSet(queue') = ToSet(queue) \cup {Job(i) : i \in {j \in Rows : Unfinished(j)}}
  BY <1>1, <1>2, <1>3, LoadedIs
<1>5. queue # << >> => queue' # << >>
  <2>1. ASSUME queue # << >> PROVE queue' # << >>
    <3>1. Head(queue) \in ToSet(queue')
      BY <2>1, <1>4, HeadIs
    <3>. QED  BY <3>1 DEF ToSet
  <2>. QED  BY <2>1
<1>. QED  BY <1>2, <1>5 DEF DueOK, Sound, Coming

LEMMA InductiveDue ==
  ASSUME Inv, DueOK, [Next]_vars
  PROVE  DueOK'
<1>1. Types /\ "queued" \in Processes /\ "direct" \in Processes
  BY DEF Inv, Processes
<1>2. CASE UNCHANGED vars
  <2>1. UNCHANGED <<queue, process, timers, needed, required, server, due>>
    BY <1>2 DEF vars, memory, history
  <2>. QED  BY <2>1, DueKept
<1>3. CASE HandleNeedRestart
  <2>1. /\ timers > 0 /\ required' = (required \/ (queue = << >> /\ needed))
        /\ UNCHANGED <<queue, needed, server, due>>
    BY <1>3 DEF HandleNeedRestart, history
  <2>2. needed => Coming'
    BY <2>1 DEF Coming
  <2>. QED  BY <2>1, <2>2 DEF DueOK, Sound
<1>4. CASE Retry \/ NoRow \/ WorkerFails
  <2>1. due' = Behind /\ UNCHANGED <<needed, server>>
    BY <1>4 DEF Retry, NoRow, WorkerFails, RunAgain
  <2>. QED  BY <2>1, DueBehind
<1>5. CASE CallDirect
  <2>1. PICK job : job = [item |-> request[Maintenance].item,
                          id |-> request[Maintenance].id]
    OBVIOUS
  <2>2. /\ process["direct"].at = "idle" /\ Call("direct", job)
        /\ UNCHANGED <<queue, timers, needed, required, server, due>>
    BY <2>1, <1>5 DEF CallDirect, history, At
  <2>3. process'["queued"] = process["queued"]
    BY <2>2, <1>1 DEF Call, Types
  <2>. QED  BY <2>2, <2>3, DueKept
<1>6. CASE Crash \/ Start
  <2>1. server' # "up" /\ (server' # "down" => due' = "no")
    BY <1>6 DEF Crash, Start
  <2>. QED  BY <2>1 DEF DueOK, Sound
<1>7. CASE Open
  <2>1. server = "starting" /\ UNCHANGED <<needed, due>>
    BY <1>7 DEF Open, memory, history
  <2>. QED  BY <2>1 DEF DueOK, Sound
<1>8. CASE WorkerStep
  BY <1>1, <1>4, <1>8, LoadDue, GetDue, WorkerDue, FinishDue DEF WorkerStep, ProcessStep
<1>9. CASE DirectStep
  BY <1>1, <1>5, <1>9, DirectDue DEF DirectStep
<1>10. Requesters \subseteq Asking /\ Maintenance \in Asking
       /\ Uploads \subseteq Items /\ Urls \cup Packages \subseteq Items
  BY DEF Asking, Items
<1>11. ASSUME NEW i \in Items, NEW s \in PatchStatuses \cup {NULL},
              NEW n \in PatchRetries \cup {NULL}, Patch(i, s, n)
       PROVE  DueOK'
  BY <1>11, DueKept DEF Patch, memory
<1>. QED  BY <1>2, <1>3, <1>4, <1>6, <1>7, <1>8, <1>9, <1>10, <1>11, RequestDue
          DEF Next, Asking

\* When the installer has come to rest, the restart that the addons it has
\* installed need has been announced.
THEOREM RestartIsAnnounced == Spec => []RestartAnnounced
<1>1. Init => DueOK
  BY DEF Init, DueOK, Sound
<1>2. Inv /\ DueOK => RestartAnnounced
  BY DEF RestartAnnounced, AtRest, At, DueOK, Coming, Processes, Inv, Types
<1>. QED  BY <1>1, <1>2, Initially, Inductive, InductiveDue, PTL DEF Spec

\* Types of the variables.
THEOREM TypesHold == Spec => []TypeOK
<1>1. Init => FilesType
  BY DEF Init, FilesType
<1>2. Inv /\ FilesType /\ [Next]_vars => FilesType'
  <2>1. SUFFICES ASSUME Inv, FilesType, [Next]_vars PROVE FilesType'
    OBVIOUS
  <2>2. CASE UNCHANGED files
    BY <2>1, <2>2 DEF FilesType
  <2>3. ASSUME NEW p \in Processes, RemoveOld(p) \/ Move(p) PROVE FilesType'
    <3>1. PICK i : i = process[p].item
      OBVIOUS
    <3>2. i \in Items
      BY <2>1, <2>3, <3>1, CallItem DEF RemoveOld, Move, At, Busy
    <3>3. Put(p, TRUE) \/ Put(p, FALSE)
      BY <2>3 DEF RemoveOld, Move
    <3>. QED  BY <2>1, <3>1, <3>2, <3>3, PutStep
  <2>4. ASSUME NEW p \in Processes, ProcessStep(p) PROVE FilesType'
    BY <2>2, <2>3, <2>4
    DEF ProcessStep, Begin, FailUpload, FailUrl, FailUpdate, Finish
  <2>5. CASE WorkerStep \/ DirectStep
    BY <2>2, <2>4, <2>5, OtherIs
    DEF WorkerStep, DirectStep, Load, Get, Catch, NoRow, RunAgain, Retry, CallDirect,
        Announce
  <2>6. ASSUME NEW r, RequestStep(r) PROVE FilesType'
    BY <2>2, <2>6 DEF RequestStep, Reuse, Dispatch, Unpublished, Enqueue
  <2>. QED  BY <2>1, <2>2, <2>5, <2>6
            DEF Next, vars, Upload, Look, Patch, HandleNeedRestart, WorkerFails, RunAgain,
                Crash, Start, Open
<1>3. Inv /\ FilesType => TypeOK
  BY DEF Inv, Types, TypeOK, CallsOK, CallOK, HistoryOK, FilesType, MayHave, Asking
<1>. QED  BY <1>1, <1>2, <1>3, Initially, Inductive, PTL DEF Spec
=============================================================================
