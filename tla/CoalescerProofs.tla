--------------------------- MODULE CoalescerProofs ---------------------------
(***************************************************************************)
(* Theorems about RequestCoalescer, for any callers, keys, batch sizes and *)
(* numbers of failures and cancellations.                                  *)
(***************************************************************************)
EXTENDS RequestCoalescer, ListProofs

-----------------------------------------------------------------------------
(* Smallest elements *)

\* Min is one.
LEMMA MinIsSmallest ==
  ASSUME NEW T, T \subseteq Nat, T # {}
  PROVE  Min(T) \in T /\ \A y \in T : Min(T) <= y
BY Smallest DEF Min

\* The first of some entries is one of them.
LEMMA FirstIsOne ==
  ASSUME TypeOK, NEW entries, entries \subseteq DOMAIN futures, entries # {}
  PROVE  First(entries) \in entries
<1>. DEFINE T == {futures[e] : e \in entries}
<1>1. T \subseteq Nat /\ T # {}
  BY DEF TypeOK
<1>2. PICK x \in T : \A y \in T : x <= y
  BY <1>1, Smallest
<1>3. PICK e \in entries : x = futures[e]
  OBVIOUS
<1>4. \A other \in entries : futures[e] <= futures[other]
  BY <1>2, <1>3
<1>. QED  BY <1>3, <1>4 DEF First

-----------------------------------------------------------------------------
(* The inductive invariant *)

\* The locals of the callers are functions.
LocalsOK ==
  /\ entry \in [Callers -> EntryRecord \cup {NULL}]
  /\ future \in [Callers -> Nat \cup {NULL}]
  /\ outcome \in [Callers -> TaskRecord \cup {NULL}]

\* No entry is named for a task that does not exist yet: a new name is new.
NamesOK == \A e \in DOMAIN futures : e.task <= Len(tasks)

\* What a task has read is a version.
ReadOK ==
  \A t \in DOMAIN tasks :
    tasks[t].state \in {"read", "done"} => tasks[t].value \in Versions

\* Nobody waits for a task that has read before the call it may answer.
FloorOK ==
  /\ \A c \in Callers : floor[c] <= data
  /\ \A c \in Waiting :
       tasks[future[c]].state \in {"read", "done"}
         => tasks[future[c]].value >= floor[c]

CountInv == TypeOK /\ LocalsOK /\ NamesOK /\ CountsMatch

Inv == CountInv /\ ReadOK /\ FloorOK /\ NoOlderThanOverlap

-----------------------------------------------------------------------------
(* Facts about the state *)

\* The floor of a call is a version, not newer than the data nor than the floor
\* of any caller that waits for the same.
LEMMA FloorIsLow ==
  ASSUME TypeOK, NEW k \in Keys
  PROVE  /\ Floor(k) \in Versions
         /\ Floor(k) <= data
         /\ \A c \in Waiting : key[c] = k => Floor(k) <= floor[c]
<1>. DEFINE T == {data} \cup {floor[c] : c \in {d \in Waiting : key[d] = k}}
<1>1. T \subseteq Versions /\ T # {} /\ Versions \subseteq Nat
  BY CoalescerAssumption DEF TypeOK, Waiting, Versions
<1>2. Min(T) \in T /\ \A y \in T : Min(T) <= y
  <2>1. T \subseteq Nat /\ T # {}
    BY <1>1
  <2>. HIDE DEF T
  <2>. QED  BY <2>1, MinIsSmallest
<1>3. Floor(k) = Min(T)
  BY DEF Floor
<1>4. \A c \in Waiting : key[c] = k => floor[c] \in T
  OBVIOUS
<1>5. data \in T
  OBVIOUS
<1>. HIDE DEF T
<1>. QED  BY <1>1, <1>2, <1>3, <1>4, <1>5

\* The callers of an entry are a finite set.
LEMMA WaitingIsFinite ==
  ASSUME NEW e
  PROVE  IsFiniteSet(WaitingFor(e))
<1>1. WaitingFor(e) \subseteq Callers
  BY DEF WaitingFor, Waiting
<1>. QED  BY <1>1, FS_Subset, CoalescerAssumption DEF CoalescerAssumption

\* A batch with space is an entry for what is asked, and somebody waits for it.
LEMMA FirstOfOpen ==
  ASSUME CountInv, NEW k \in Keys, Open(k) # {},
         NEW e, e = First(Open(k))
  PROVE  /\ e \in DOMAIN futures
         /\ e \in EntryRecord
         /\ e.key = k
         /\ waiters[e] \in Nat
         /\ waiters[e] < MaxWaiters
         /\ futures[e] \in DOMAIN tasks
         /\ tasks[futures[e]].key = k
         /\ \E d \in Waiting : entry[d] = e /\ key[d] = k /\ future[d] = futures[e]
<1>1. e \in Open(k)
  <2>1. Open(k) \subseteq DOMAIN futures
    BY DEF Open
  <2>. QED  BY <2>1, FirstIsOne DEF CountInv
<1>2. e \in DOMAIN futures /\ e.key = k /\ waiters[e] < MaxWaiters
  BY <1>1 DEF Open
<1>3. e \in EntryRecord /\ waiters[e] \in Nat /\ futures[e] \in DOMAIN tasks
  BY <1>2 DEF CountInv, TypeOK
<1>4. WaitingFor(e) # {}
  <2>1. Cardinality(WaitingFor(e)) # 0
    BY <1>2, CoalescerAssumption DEF CountInv, CountsMatch, CoalescerAssumption
  <2>. QED  BY <2>1, FS_EmptySet
<1>5. PICK d \in Waiting : entry[d] = e
  BY <1>4 DEF WaitingFor
<1>6. key[d] = k /\ future[d] = futures[e] /\ tasks[futures[e]].key = k
  BY <1>2, <1>5 DEF CountInv, CountsMatch
<1>. QED  BY <1>2, <1>3, <1>5, <1>6

\* The entry of a new task is a new entry.
LEMMA NewEntryIsNew ==
  ASSUME CountInv, NEW k \in Keys
  PROVE  /\ NewEntry(k) \in EntryRecord
         /\ NewEntry(k) \notin DOMAIN futures
         /\ NewEntry(k).key = k
         /\ NewEntry(k).task <= Len(tasks) + 1
<1>1. Len(tasks) \in Nat
  BY DEF CountInv, TypeOK
<1>2. Entry(k, Len(tasks) + 1) \notin DOMAIN futures
  <2>1. Entry(k, Len(tasks) + 1).task = Len(tasks) + 1
    BY DEF Entry
  <2>. QED  BY <1>1, <2>1 DEF CountInv, NamesOK
<1>3. Entry(k, 0) \in EntryRecord /\ Entry(k, Len(tasks) + 1) \in EntryRecord
  BY <1>1 DEF Entry, EntryRecord
<1>. QED  BY <1>1, <1>2, <1>3 DEF NewEntry, Entry

\* A task that goes on is still a task.
LEMMA TaskGoesOn ==
  ASSUME TypeOK, NEW t \in DOMAIN tasks, NEW r \in TaskRecord,
         tasks' = [tasks EXCEPT ![t] = r]
  PROVE  /\ tasks' \in Seq(TaskRecord)
         /\ DOMAIN tasks' = DOMAIN tasks
         /\ Len(tasks') = Len(tasks)
         /\ tasks'[t] = r
         /\ \A u \in DOMAIN tasks : u # t => tasks'[u] = tasks[u]
<1>1. tasks \in Seq(TaskRecord)
  BY DEF TypeOK
<1>. QED  BY <1>1

\* The record of a task that goes to another state.
LEMMA RecordGoesOn ==
  ASSUME NEW r \in TaskRecord,
         NEW state \in {"created", "read", "done", "failed", "cancelling", "cancelled"}
  PROVE  /\ [r EXCEPT !.state = state] \in TaskRecord
         /\ [r EXCEPT !.state = state].state = state
         /\ [r EXCEPT !.state = state].key = r.key
         /\ [r EXCEPT !.state = state].value = r.value
BY DEF TaskRecord

\* The record of a task that has read.
LEMMA RecordReads ==
  ASSUME NEW r \in TaskRecord, NEW value \in Versions
  PROVE  /\ [r EXCEPT !.state = "read", !.value = value] \in TaskRecord
         /\ [r EXCEPT !.state = "read", !.value = value].state = "read"
         /\ [r EXCEPT !.state = "read", !.value = value].value = value
         /\ [r EXCEPT !.state = "read", !.value = value].key = r.key
BY DEF TaskRecord

-----------------------------------------------------------------------------
(* Types and counts *)

\* At first nobody waits.
LEMMA InitCounts == Init => CountInv
<1>. SUFFICES ASSUME Init PROVE CountInv
  OBVIOUS
<1>. USE CoalescerAssumption DEF CoalescerAssumption, Init
<1>1. Waiting = {}
  BY DEF Waiting
<1>2. TypeOK
  BY <1>1 DEF TypeOK, Versions
<1>3. LocalsOK
  BY DEF LocalsOK
<1>4. NamesOK /\ CountsMatch
  BY <1>1 DEF NamesOK, CountsMatch
<1>. QED  BY <1>2, <1>3, <1>4 DEF CountInv

\* A caller begins to wait for a task, and is counted at its entry.
LEMMA AwaitCounts ==
  ASSUME CountInv, NEW c \in Callers, NEW k \in Keys, NEW e \in EntryRecord,
         NEW t \in Nat, c \notin Waiting, Await(c, k, e, t)
  PROVE  /\ Waiting' = Waiting \cup {c}
         /\ \A d \in Waiting : /\ key'[d] = key[d] /\ entry'[d] = entry[d]
                               /\ future'[d] = future[d] /\ d # c
         /\ key'[c] = k /\ entry'[c] = e /\ future'[c] = t
         /\ floor'[c] = Floor(k)
         /\ \A d \in Callers : d # c => floor'[d] = floor[d]
         /\ WaitingFor(e)' = WaitingFor(e) \cup {c}
         /\ Cardinality(WaitingFor(e)') = Cardinality(WaitingFor(e)) + 1
         /\ \A d : d # e => WaitingFor(d)' = WaitingFor(d)
         /\ key' \in [Callers -> Keys \cup {NULL}]
         /\ entry' \in [Callers -> EntryRecord \cup {NULL}]
         /\ future' \in [Callers -> Nat \cup {NULL}]
         /\ floor' \in [Callers -> Versions]
         /\ \A d \in Callers \ Waiting' : entry'[d] = NULL /\ future'[d] = NULL
<1>. USE CoalescerAssumption DEF CoalescerAssumption
<1>1. /\ key' \in [Callers -> Keys \cup {NULL}]
      /\ entry' \in [Callers -> EntryRecord \cup {NULL}]
      /\ future' \in [Callers -> Nat \cup {NULL}]
  BY DEF Await, CountInv, TypeOK, LocalsOK
<1>2. floor' \in [Callers -> Versions]
  BY FloorIsLow DEF Await, CountInv, TypeOK
<1>3. key'[c] = k /\ entry'[c] = e /\ future'[c] = t /\ floor'[c] = Floor(k)
  BY DEF Await, CountInv, TypeOK, LocalsOK
<1>4. \A d \in Callers : d # c => /\ key'[d] = key[d] /\ entry'[d] = entry[d]
                                  /\ future'[d] = future[d] /\ floor'[d] = floor[d]
  BY DEF Await, CountInv, TypeOK, LocalsOK
<1>5. Waiting' = Waiting \cup {c}
  BY <1>3, <1>4 DEF Waiting
<1>6. \A d : d # e => WaitingFor(d)' = WaitingFor(d)
  BY <1>3, <1>4, <1>5 DEF WaitingFor, Waiting
<1>7. WaitingFor(e)' = WaitingFor(e) \cup {c} /\ c \notin WaitingFor(e)
  BY <1>3, <1>4, <1>5 DEF WaitingFor, Waiting
<1>8. Cardinality(WaitingFor(e)') = Cardinality(WaitingFor(e)) + 1
  BY <1>7, WaitingIsFinite, FS_AddElement
<1>9. \A d \in Callers \ Waiting' : entry'[d] = NULL /\ future'[d] = NULL
  BY <1>4, <1>5 DEF CountInv, TypeOK
<1>10. \A d \in Waiting : d \in Callers /\ d # c
  BY DEF Waiting
<1>. QED  BY <1>1, <1>2, <1>3, <1>4, <1>5, <1>6, <1>7, <1>8, <1>9, <1>10

\* __call__ joins a batch.
LEMMA JoinCounts ==
  ASSUME CountInv, NEW c \in Callers, NEW k \in Keys, Join(c, k)
  PROVE  CountInv'
<1>. PICK e : e = First(Open(k))
  OBVIOUS
<1>. PICK t : t = futures[e]
  OBVIOUS
<1>. USE CoalescerAssumption DEF CoalescerAssumption
<1>1. /\ c \notin Waiting /\ calls < MaxCalls /\ calls' = calls + 1 /\ Open(k) # {}
      /\ waiters' = [waiters EXCEPT ![e] = @ + 1]
      /\ Await(c, k, e, t)
      /\ UNCHANGED <<futures, tasks, outcome, doomed, data, faults>>
  BY DEF Join, CanCall
<1>2. /\ e \in DOMAIN futures /\ e \in EntryRecord /\ e.key = k
      /\ waiters[e] \in Nat /\ waiters[e] < MaxWaiters
      /\ t \in DOMAIN tasks /\ tasks[t].key = k
  BY <1>1, FirstOfOpen
<1>3. t \in Nat
  BY <1>2 DEF CountInv, TypeOK
<1>4. /\ Waiting' = Waiting \cup {c}
      /\ \A d \in Waiting : /\ key'[d] = key[d] /\ entry'[d] = entry[d]
                            /\ future'[d] = future[d]
      /\ key'[c] = k /\ entry'[c] = e /\ future'[c] = t
      /\ Cardinality(WaitingFor(e)') = Cardinality(WaitingFor(e)) + 1
      /\ \A d : d # e => WaitingFor(d)' = WaitingFor(d)
      /\ key' \in [Callers -> Keys \cup {NULL}]
      /\ entry' \in [Callers -> EntryRecord \cup {NULL}]
      /\ future' \in [Callers -> Nat \cup {NULL}]
      /\ floor' \in [Callers -> Versions]
      /\ \A d \in Callers \ Waiting' : entry'[d] = NULL /\ future'[d] = NULL
  BY <1>1, <1>2, <1>3, AwaitCounts
<1>5. waiters' \in [DOMAIN futures -> Nat]
  BY <1>1, <1>2 DEF CountInv, TypeOK
<1>6. TypeOK'
  <2>1. EntryRecord' = EntryRecord /\ TaskRecord' = TaskRecord /\ Versions' = Versions
    BY DEF EntryRecord, TaskRecord, Versions
  <2>. QED  BY <1>1, <1>4, <1>5, <2>1 DEF CountInv, TypeOK
<1>7. LocalsOK' /\ NamesOK'
  BY <1>1, <1>4 DEF CountInv, LocalsOK, NamesOK, TaskRecord, Versions, EntryRecord
<1>8. \A d \in Waiting' :
        /\ entry'[d] \in DOMAIN futures' /\ entry'[d].key = key'[d]
        /\ futures'[entry'[d]] = future'[d] /\ tasks'[future'[d]].key = key'[d]
  <2>. TAKE d \in Waiting'
  <2>1. CASE d = c
    BY <2>1, <1>1, <1>2, <1>4
  <2>2. CASE d # c
    BY <2>2, <1>1, <1>4 DEF CountInv, CountsMatch
  <2>. QED  BY <2>1, <2>2
<1>9. \A d \in DOMAIN futures' :
        waiters'[d] = Cardinality(WaitingFor(d)') /\ waiters'[d] \in 1..MaxWaiters
  <2>. TAKE d \in DOMAIN futures'
  <2>1. waiters[d] = Cardinality(WaitingFor(d)) /\ waiters[d] \in 1..MaxWaiters
    BY <1>1 DEF CountInv, CountsMatch
  <2>2. CASE d = e
    <3>1. waiters'[e] = waiters[e] + 1 /\ waiters'[e] \in 1..MaxWaiters
      BY <2>2, <1>1, <1>2 DEF CountInv, TypeOK
    <3>2. waiters'[e] = Cardinality(WaitingFor(e)')
      BY <2>1, <2>2, <3>1, <1>4
    <3>. QED  BY <2>2, <3>1, <3>2 DEF WaitingFor
  <2>3. CASE d # e
    BY <2>1, <2>3, <1>1, <1>4 DEF CountInv, TypeOK
  <2>. QED  BY <2>2, <2>3
<1>. QED  BY <1>6, <1>7, <1>8, <1>9 DEF CountInv, CountsMatch

\* __call__ finds a batch that has ended.
LEMMA JoinEndedCounts ==
  ASSUME CountInv, NEW c \in Callers, NEW k \in Keys, JoinEnded(c, k)
  PROVE  CountInv'
<1>. PICK t : t = futures[First(Open(k))]
  OBVIOUS
<1>. USE CoalescerAssumption DEF CoalescerAssumption
<1>1. /\ calls < MaxCalls /\ calls' = calls + 1 /\ Open(k) # {}
      /\ outcome' = [outcome EXCEPT ![c] = Result(t)]
      /\ floor' = [floor EXCEPT ![c] = Floor(k)]
      /\ UNCHANGED <<shared, tasks, locals, doomed, data, faults>>
  BY DEF JoinEnded, CanCall
<1>2. t \in DOMAIN tasks
  BY <1>1, FirstOfOpen
<1>3. Result(t) \in TaskRecord
  <2>1. tasks[t] \in TaskRecord
    BY <1>2 DEF CountInv, TypeOK
  <2>. QED  BY <2>1 DEF Result, TaskRecord
<1>4. Floor(k) \in Versions
  BY FloorIsLow DEF CountInv
<1>5. TypeOK'
  <2>1. EntryRecord' = EntryRecord /\ TaskRecord' = TaskRecord /\ Versions' = Versions
    BY DEF EntryRecord, TaskRecord, Versions
  <2>2. Waiting' = Waiting
    BY <1>1 DEF locals, Waiting
  <2>. QED  BY <1>1, <1>4, <2>1, <2>2 DEF shared, locals, CountInv, TypeOK
<1>6. LocalsOK'
  BY <1>1, <1>3 DEF shared, locals, CountInv, LocalsOK, Versions, TaskRecord
<1>7. NamesOK' /\ CountsMatch'
  BY <1>1 DEF shared, locals, CountInv, NamesOK, CountsMatch, Waiting, WaitingFor
<1>. QED  BY <1>5, <1>6, <1>7 DEF CountInv

\* __call__ starts a task.
LEMMA CreateCounts ==
  ASSUME CountInv, NEW c \in Callers, NEW k \in Keys, Create(c, k)
  PROVE  CountInv'
<1>. PICK e : e = NewEntry(k)
  OBVIOUS
<1>. PICK t : t = Len(tasks) + 1
  OBVIOUS
<1>. DEFINE new == [key |-> k, state |-> "created", value |-> NULL]
            known == DOMAIN futures \cup {e}
<1>. USE CoalescerAssumption DEF CoalescerAssumption
<1>1. /\ c \notin Waiting /\ calls < MaxCalls /\ calls' = calls + 1
      /\ tasks' = Append(tasks, new)
      /\ futures' = [d \in known |-> IF d = e THEN t ELSE futures[d]]
      /\ waiters' = [d \in known |-> IF d = e THEN 1 ELSE waiters[d]]
      /\ Await(c, k, e, t)
      /\ UNCHANGED <<outcome, doomed, data, faults>>
  BY DEF Create, CanCall
<1>2. e \in EntryRecord /\ e \notin DOMAIN futures /\ e.key = k /\ e.task <= t
  BY NewEntryIsNew
<1>3. /\ t \in Nat /\ tasks' \in Seq(TaskRecord) /\ Len(tasks') = t
      /\ DOMAIN tasks' = DOMAIN tasks \cup {t} /\ tasks'[t] = new
      /\ \A u \in DOMAIN tasks : tasks'[u] = tasks[u]
  <2>1. tasks \in Seq(TaskRecord) /\ new \in TaskRecord
    BY DEF CountInv, TypeOK, TaskRecord
  <2>. QED  BY <2>1, <1>1
<1>4. /\ Waiting' = Waiting \cup {c}
      /\ \A d \in Waiting : /\ key'[d] = key[d] /\ entry'[d] = entry[d]
                            /\ future'[d] = future[d]
      /\ key'[c] = k /\ entry'[c] = e /\ future'[c] = t
      /\ Cardinality(WaitingFor(e)') = Cardinality(WaitingFor(e)) + 1
      /\ \A d : d # e => WaitingFor(d)' = WaitingFor(d)
      /\ key' \in [Callers -> Keys \cup {NULL}]
      /\ entry' \in [Callers -> EntryRecord \cup {NULL}]
      /\ future' \in [Callers -> Nat \cup {NULL}]
      /\ floor' \in [Callers -> Versions]
      /\ \A d \in Callers \ Waiting' : entry'[d] = NULL /\ future'[d] = NULL
  BY <1>1, <1>2, <1>3, AwaitCounts
<1>5. /\ DOMAIN futures' = known /\ DOMAIN waiters' = known
      /\ futures'[e] = t /\ waiters'[e] = 1
      /\ \A d \in DOMAIN futures :
           d # e /\ futures'[d] = futures[d] /\ waiters'[d] = waiters[d]
  BY <1>1, <1>2
<1>6. /\ futures' \in [known -> DOMAIN tasks']
      /\ waiters' \in [known -> Nat]
      /\ known \subseteq EntryRecord
  <2>1. \A d \in known : futures'[d] \in DOMAIN tasks' /\ waiters'[d] \in Nat
    BY <1>3, <1>5 DEF CountInv, TypeOK
  <2>. QED  BY <1>1, <1>2, <2>1 DEF CountInv, TypeOK
<1>7. TypeOK'
  <2>1. EntryRecord' = EntryRecord /\ TaskRecord' = TaskRecord /\ Versions' = Versions
    BY DEF EntryRecord, TaskRecord, Versions
  <2>. QED  BY <1>1, <1>3, <1>4, <1>5, <1>6, <2>1 DEF CountInv, TypeOK
<1>8. LocalsOK'
  BY <1>1, <1>4 DEF CountInv, LocalsOK, TaskRecord, Versions
<1>9. NamesOK'
  <2>. SUFFICES ASSUME NEW d \in known PROVE d.task <= Len(tasks')
    BY <1>5 DEF NamesOK
  <2>1. CASE d = e
    BY <2>1, <1>2, <1>3
  <2>2. CASE d # e
    <3>1. d \in DOMAIN futures /\ d.task \in Nat /\ d.task <= Len(tasks)
      BY <2>2 DEF CountInv, NamesOK, TypeOK, EntryRecord
    <3>2. Len(tasks) \in Nat /\ t = Len(tasks) + 1
      BY DEF CountInv, TypeOK
    <3>. QED  BY <3>1, <3>2, <1>3
  <2>. QED  BY <2>1, <2>2
<1>10. \A d \in Waiting' :
        /\ entry'[d] \in DOMAIN futures' /\ entry'[d].key = key'[d]
        /\ futures'[entry'[d]] = future'[d] /\ tasks'[future'[d]].key = key'[d]
  <2>. TAKE d \in Waiting'
  <2>1. CASE d = c
    BY <2>1, <1>2, <1>3, <1>4, <1>5
  <2>2. CASE d # c
    <3>1. d \in Waiting /\ entry[d] \in DOMAIN futures /\ futures[entry[d]] \in DOMAIN tasks
      BY <2>2, <1>4 DEF CountInv, CountsMatch, TypeOK
    <3>. QED  BY <3>1, <1>3, <1>4, <1>5 DEF CountInv, CountsMatch
  <2>. QED  BY <2>1, <2>2
<1>11. \A d \in DOMAIN futures' :
        waiters'[d] = Cardinality(WaitingFor(d)') /\ waiters'[d] \in 1..MaxWaiters
  <2>. TAKE d \in DOMAIN futures'
  <2>1. CASE d = e
    <3>1. WaitingFor(e) = {}
      BY <1>2 DEF WaitingFor, CountInv, CountsMatch
    <3>2. waiters'[e] = Cardinality(WaitingFor(e)') /\ waiters'[e] = 1
      BY <3>1, <1>4, <1>5, FS_EmptySet
    <3>. QED  BY <2>1, <3>2 DEF WaitingFor
  <2>2. CASE d # e
    BY <2>2, <1>4, <1>5 DEF CountInv, CountsMatch
  <2>. QED  BY <2>1, <2>2
<1>. QED  BY <1>7, <1>8, <1>9, <1>10, <1>11 DEF CountInv, CountsMatch

\* A caller is resumed, and the last one takes the entry away.
LEMMA ResumeCounts ==
  ASSUME CountInv, NEW c \in Callers, Resume(c)
  PROVE  CountInv'
<1>. PICK e : e = entry[c]
  OBVIOUS
<1>. DEFINE rest == DOMAIN futures \ {e}
<1>. USE CoalescerAssumption DEF CoalescerAssumption
<1>1. /\ c \in Waiting /\ Leave(c) /\ doomed' = doomed \ {c}
      /\ key' = [key EXCEPT ![c] = NULL]
      /\ entry' = [entry EXCEPT ![c] = NULL]
      /\ future' = [future EXCEPT ![c] = NULL]
      /\ UNCHANGED <<tasks, calls, data, floor, faults>>
  BY DEF Resume, Undoom
<1>2. /\ e \in DOMAIN futures /\ future[c] \in DOMAIN tasks
      /\ waiters[e] = Cardinality(WaitingFor(e)) /\ waiters[e] \in 1..MaxWaiters
      /\ DOMAIN waiters = DOMAIN futures
  BY <1>1 DEF CountInv, CountsMatch, TypeOK
<1>3. /\ Waiting' = Waiting \ {c}
      /\ \A d \in Waiting' : /\ d \in Waiting /\ d # c /\ key'[d] = key[d]
                             /\ entry'[d] = entry[d] /\ future'[d] = future[d]
      /\ key' \in [Callers -> Keys \cup {NULL}]
      /\ entry' \in [Callers -> EntryRecord \cup {NULL}]
      /\ future' \in [Callers -> Nat \cup {NULL}]
      /\ \A d \in Callers \ Waiting' : entry'[d] = NULL /\ future'[d] = NULL
  <2>1. key \in [Callers -> Keys \cup {NULL}]
    BY DEF CountInv, TypeOK
  <2>2. Waiting' = Waiting \ {c}
    BY <1>1, <2>1 DEF Waiting
  <2>3. \A d \in Callers : d # c => /\ key'[d] = key[d] /\ entry'[d] = entry[d]
                                    /\ future'[d] = future[d]
    BY <1>1 DEF CountInv, TypeOK, LocalsOK
  <2>4. \A d \in Waiting : d \in Callers
    BY DEF Waiting
  <2>5. /\ key' \in [Callers -> Keys \cup {NULL}]
        /\ entry' \in [Callers -> EntryRecord \cup {NULL}]
        /\ future' \in [Callers -> Nat \cup {NULL}]
        /\ entry'[c] = NULL /\ future'[c] = NULL
    BY <1>1 DEF CountInv, TypeOK, LocalsOK
  <2>6. \A d \in Callers \ Waiting' : entry'[d] = NULL /\ future'[d] = NULL
    BY <2>2, <2>3, <2>5 DEF CountInv, TypeOK
  <2>. QED  BY <2>2, <2>3, <2>4, <2>5, <2>6
<1>4. WaitingFor(e)' = WaitingFor(e) \ {c} /\ c \in WaitingFor(e)
  BY <1>1, <1>3 DEF WaitingFor
<1>5. \A d : d # e => WaitingFor(d)' = WaitingFor(d)
  BY <1>1, <1>3 DEF WaitingFor
<1>6. LocalsOK'
  <2>1. outcome' \in [Callers -> TaskRecord \cup {NULL}]
    <3>1. Result(future[c]) \in TaskRecord
      <4>1. tasks[future[c]] \in TaskRecord
        BY <1>2 DEF CountInv, TypeOK
      <4>. QED  BY <4>1 DEF Result, TaskRecord
    <3>2. [Result(future[c]) EXCEPT !.state = "cancelled"]
             \in TaskRecord
      <4>1. ASSUME NEW r \in TaskRecord
            PROVE  [r EXCEPT !.state = "cancelled"] \in TaskRecord
        BY DEF TaskRecord
      <4>. QED  BY <3>1, <4>1
    <3>. QED  BY <3>1, <3>2 DEF Resume, CountInv, LocalsOK
  <2>. QED  BY <2>1, <1>3 DEF LocalsOK, Versions, TaskRecord
<1>7. doomed' \subseteq Waiting'
  BY <1>1, <1>3 DEF CountInv, TypeOK
<1>8. CASE waiters[e] = 1
  <2>1. futures' = [d \in rest |-> futures[d]] /\ waiters' = [d \in rest |-> waiters[d]]
    BY <1>1, <1>2, <1>8 DEF Leave, Without
  <2>2. \A d \in WaitingFor(e) : d = c
    <3>1. PICK x : WaitingFor(e) = {x}
      BY <1>2, <1>8, WaitingIsFinite, FS_Singleton
    <3>. QED  BY <3>1, <1>4
  <2>3. TypeOK'
    <3>1. futures' \in [rest -> DOMAIN tasks'] /\ waiters' \in [rest -> Nat]
      BY <2>1, <1>1 DEF CountInv, TypeOK
    <3>2. DOMAIN futures' = rest
      BY <2>1
    <3>3. EntryRecord' = EntryRecord /\ TaskRecord' = TaskRecord /\ Versions' = Versions
      BY DEF EntryRecord, TaskRecord, Versions
    <3>. QED  BY <1>1, <1>3, <1>7, <3>1, <3>2, <3>3 DEF CountInv, TypeOK
  <2>4. NamesOK'
    BY <1>1, <2>1 DEF CountInv, NamesOK
  <2>5. \A d \in Waiting' :
          /\ entry'[d] \in DOMAIN futures' /\ entry'[d].key = key'[d]
          /\ futures'[entry'[d]] = future'[d] /\ tasks'[future'[d]].key = key'[d]
    <3>. TAKE d \in Waiting'
    <3>1. entry[d] # e
      BY <1>3, <2>2 DEF WaitingFor
    <3>2. entry[d] \in rest
      BY <3>1, <1>3 DEF CountInv, CountsMatch
    <3>. QED  BY <3>2, <1>1, <1>3, <2>1 DEF CountInv, CountsMatch
  <2>6. \A d \in DOMAIN futures' :
          waiters'[d] = Cardinality(WaitingFor(d)') /\ waiters'[d] \in 1..MaxWaiters
    BY <2>1, <1>5 DEF CountInv, CountsMatch
  <2>. QED  BY <1>6, <2>3, <2>4, <2>5, <2>6 DEF CountInv, CountsMatch
<1>9. CASE waiters[e] # 1
  <2>1. futures' = futures /\ waiters' = [waiters EXCEPT ![e] = @ - 1]
    BY <1>1, <1>2, <1>9 DEF Leave
  <2>2. Cardinality(WaitingFor(e)') = Cardinality(WaitingFor(e)) - 1
    BY <1>4, WaitingIsFinite, FS_RemoveElement
  <2>3. waiters' \in [DOMAIN futures -> Nat] /\ waiters'[e] = waiters[e] - 1
    BY <1>2, <1>9, <2>1 DEF CountInv, TypeOK
  <2>4. TypeOK'
    BY <1>1, <1>3, <1>7, <2>1, <2>3 DEF CountInv, TypeOK, Versions, TaskRecord
  <2>5. NamesOK'
    BY <1>1, <2>1 DEF CountInv, NamesOK
  <2>6. \A d \in Waiting' :
          /\ entry'[d] \in DOMAIN futures' /\ entry'[d].key = key'[d]
          /\ futures'[entry'[d]] = future'[d] /\ tasks'[future'[d]].key = key'[d]
    BY <1>1, <1>3, <2>1 DEF CountInv, CountsMatch
  <2>7. \A d \in DOMAIN futures' :
          waiters'[d] = Cardinality(WaitingFor(d)') /\ waiters'[d] \in 1..MaxWaiters
    <3>. TAKE d \in DOMAIN futures'
    <3>1. CASE d = e
      <4>1. waiters'[e] = Cardinality(WaitingFor(e)') /\ waiters'[e] \in 1..MaxWaiters
        BY <1>2, <1>9, <2>2, <2>3
      <4>. QED  BY <3>1, <4>1 DEF WaitingFor
    <3>2. CASE d # e
      BY <3>2, <1>5, <2>1 DEF CountInv, CountsMatch, TypeOK
    <3>. QED  BY <3>1, <3>2
  <2>. QED  BY <1>6, <2>4, <2>5, <2>6, <2>7 DEF CountInv, CountsMatch
<1>. QED  BY <1>8, <1>9

\* A caller is cancelled, with its task or when it is resumed.
LEMMA CancelCounts ==
  ASSUME CountInv, NEW c \in Callers, Cancel(c)
  PROVE  CountInv'
<1>. USE CoalescerAssumption DEF CoalescerAssumption
<1>1. /\ c \in Waiting
      /\ faults' \in [failures : 0..MaxFailures, cancels : 0..MaxCancels]
      /\ UNCHANGED <<shared, locals, outcome, calls, data, floor>>
  BY DEF Cancel, CountInv, TypeOK
<1>2. Waiting' = Waiting /\ (\A e : WaitingFor(e)' = WaitingFor(e))
  BY <1>1 DEF locals, Waiting, WaitingFor
<1>3. future[c] \in DOMAIN tasks
  BY <1>1 DEF CountInv, CountsMatch, TypeOK
<1>4. /\ tasks' \in Seq(TaskRecord) /\ DOMAIN tasks' = DOMAIN tasks
      /\ Len(tasks') = Len(tasks)
      /\ \A u \in DOMAIN tasks : tasks'[u].key = tasks[u].key
      /\ doomed' \subseteq Waiting
  <2>1. CASE Ended(future[c])
    BY <2>1, <1>1 DEF Cancel, CountInv, TypeOK
  <2>2. CASE ~ Ended(future[c])
    <3>1. PICK r : r = [tasks[future[c]] EXCEPT !.state = "cancelling"]
      OBVIOUS
    <3>2. tasks' = [tasks EXCEPT ![future[c]] = r]
      BY <2>2, <3>1 DEF Cancel
    <3>3. /\ tasks' \in Seq(TaskRecord) /\ DOMAIN tasks' = DOMAIN tasks
          /\ Len(tasks') = Len(tasks)
          /\ tasks'[future[c]].key = tasks[future[c]].key
          /\ \A u \in DOMAIN tasks : u # future[c] => tasks'[u] = tasks[u]
      <4>1. tasks[future[c]] \in TaskRecord /\ data \in Versions
        BY <1>3 DEF CountInv, TypeOK
      <4>2. r \in TaskRecord /\ r.key = tasks[future[c]].key
        BY <3>1, <4>1, RecordGoesOn
      <4>. QED  BY <3>2, <4>2, <1>3, TaskGoesOn DEF CountInv
    <3>4. doomed' = doomed
      BY <2>2 DEF Cancel
    <3>. QED  BY <3>3, <3>4 DEF CountInv, TypeOK
  <2>. QED  BY <2>1, <2>2
<1>5. TypeOK'
  <2>1. EntryRecord' = EntryRecord /\ TaskRecord' = TaskRecord /\ Versions' = Versions
    BY DEF EntryRecord, TaskRecord, Versions
  <2>. QED  BY <1>1, <1>2, <1>4, <2>1 DEF shared, locals, CountInv, TypeOK
<1>6. LocalsOK' /\ NamesOK'
  BY <1>1, <1>4 DEF shared, locals, CountInv, LocalsOK, NamesOK, TaskRecord,
                    EntryRecord, Versions
<1>7. CountsMatch'
  <2>1. \A d \in Waiting : future[d] \in DOMAIN tasks
    BY DEF CountInv, CountsMatch, TypeOK
  <2>. QED  BY <1>1, <1>2, <1>4, <2>1 DEF shared, locals, CountInv, CountsMatch
<1>. QED  BY <1>5, <1>6, <1>7 DEF CountInv

\* What a step of a task changes.
LEMMA TaskSteps ==
  ASSUME CountInv, NEW t \in DOMAIN tasks, TaskStep(t)
  PROVE  /\ UNCHANGED <<shared, locals, outcome, doomed, calls, data, floor>>
         /\ faults' \in [failures : 0..MaxFailures, cancels : 0..MaxCancels]
         /\ tasks' \in Seq(TaskRecord)
         /\ DOMAIN tasks' = DOMAIN tasks
         /\ Len(tasks') = Len(tasks)
         /\ tasks'[t].key = tasks[t].key
         /\ \A u \in DOMAIN tasks : u # t => tasks'[u] = tasks[u]
         /\ \/ tasks'[t].state = "read" /\ tasks'[t].value = data
            \/ /\ tasks'[t].state = "done" /\ tasks[t].state = "read"
               /\ tasks'[t].value = tasks[t].value
            \/ tasks'[t].state \in {"failed", "cancelled"}
<1>. USE CoalescerAssumption DEF CoalescerAssumption
<1>1. tasks[t] \in TaskRecord /\ data \in Versions
  BY DEF CountInv, TypeOK
<1>3. faults \in [failures : 0..MaxFailures, cancels : 0..MaxCancels]
  BY DEF CountInv, TypeOK
<1>4. CASE Read(t)
  <2>1. PICK r : r = [tasks[t] EXCEPT !.state = "read", !.value = data]
    OBVIOUS
  <2>2. tasks' = [tasks EXCEPT ![t] = r]
    BY <1>4, <2>1 DEF Read
  <2>3. r \in TaskRecord /\ r.key = tasks[t].key /\ r.state = "read" /\ r.value = data
    BY <1>1, <2>1, RecordReads
  <2>4. faults' \in [failures : 0..MaxFailures, cancels : 0..MaxCancels]
    BY <1>3, <1>4 DEF Read
  <2>. QED  BY <2>2, <2>3, <2>4, <1>4, TaskGoesOn DEF Read, CountInv
<1>5. CASE Return(t)
  <2>1. PICK r : r = [tasks[t] EXCEPT !.state = "done"]
    OBVIOUS
  <2>2. tasks' = [tasks EXCEPT ![t] = r]
    BY <1>5, <2>1 DEF Return, EndTask
  <2>3. r \in TaskRecord /\ r.key = tasks[t].key /\ r.state = "done" /\ r.value = tasks[t].value
    BY <1>1, <2>1, RecordGoesOn
  <2>4. faults' \in [failures : 0..MaxFailures, cancels : 0..MaxCancels]
    BY <1>3, <1>5 DEF Return, EndTask
  <2>. QED  BY <2>2, <2>3, <2>4, <1>5, TaskGoesOn DEF Return, EndTask, CountInv
<1>6. CASE Raise(t)
  <2>1. PICK r : r = [tasks[t] EXCEPT !.state = "failed"]
    OBVIOUS
  <2>2. tasks' = [tasks EXCEPT ![t] = r]
    BY <1>6, <2>1 DEF Raise, EndTask
  <2>3. r \in TaskRecord /\ r.key = tasks[t].key /\ r.state = "failed"
    BY <1>1, <2>1, RecordGoesOn
  <2>4. faults' \in [failures : 0..MaxFailures, cancels : 0..MaxCancels]
    BY <1>3, <1>6 DEF Raise, EndTask
  <2>. QED  BY <2>2, <2>3, <2>4, <1>6, TaskGoesOn DEF Raise, EndTask, CountInv
<1>7. CASE Cancelled(t)
  <2>1. PICK r : r = [tasks[t] EXCEPT !.state = "cancelled"]
    OBVIOUS
  <2>2. tasks' = [tasks EXCEPT ![t] = r]
    BY <1>7, <2>1 DEF Cancelled, EndTask
  <2>3. r \in TaskRecord /\ r.key = tasks[t].key /\ r.state = "cancelled"
    BY <1>1, <2>1, RecordGoesOn
  <2>4. faults' \in [failures : 0..MaxFailures, cancels : 0..MaxCancels]
    BY <1>3, <1>7 DEF Cancelled, EndTask
  <2>. QED  BY <2>2, <2>3, <2>4, <1>7, TaskGoesOn DEF Cancelled, EndTask, CountInv
<1>. QED  BY <1>4, <1>5, <1>6, <1>7 DEF TaskStep

\* A step of a task leaves the callers alone.
LEMMA TaskCounts ==
  ASSUME CountInv, NEW t \in DOMAIN tasks, TaskStep(t)
  PROVE  CountInv'
<1>1. /\ UNCHANGED <<shared, locals, outcome, doomed, calls, data, floor>>
      /\ faults' \in [failures : 0..MaxFailures, cancels : 0..MaxCancels]
      /\ tasks' \in Seq(TaskRecord) /\ DOMAIN tasks' = DOMAIN tasks
      /\ Len(tasks') = Len(tasks)
      /\ \A u \in DOMAIN tasks : tasks'[u].key = tasks[u].key
  BY TaskSteps
<1>2. Waiting' = Waiting /\ (\A e : WaitingFor(e)' = WaitingFor(e))
  BY <1>1 DEF locals, Waiting, WaitingFor
<1>3. TypeOK'
  <2>1. EntryRecord' = EntryRecord /\ TaskRecord' = TaskRecord /\ Versions' = Versions
    BY DEF EntryRecord, TaskRecord, Versions
  <2>. QED  BY <1>1, <1>2, <2>1 DEF shared, locals, CountInv, TypeOK
<1>4. LocalsOK' /\ NamesOK'
  BY <1>1 DEF shared, locals, CountInv, LocalsOK, NamesOK, TaskRecord,
              EntryRecord, Versions
<1>5. CountsMatch'
  <2>1. \A d \in Waiting : future[d] \in DOMAIN tasks
    BY DEF CountInv, CountsMatch, TypeOK
  <2>. QED  BY <1>1, <1>2, <2>1 DEF shared, locals, CountInv, CountsMatch
<1>. QED  BY <1>3, <1>4, <1>5 DEF CountInv

\* Steps that change neither callers nor tasks.
LEMMA OtherCounts ==
  ASSUME CountInv, Change \/ UNCHANGED vars
  PROVE  CountInv'
<1>1. /\ UNCHANGED <<shared, tasks, locals, outcome, doomed, calls, floor, faults>>
      /\ data' \in Versions
  BY CoalescerAssumption DEF CoalescerAssumption, Change, vars, CountInv, TypeOK, Versions
<1>2. Waiting' = Waiting /\ (\A e : WaitingFor(e)' = WaitingFor(e))
  BY <1>1 DEF locals, Waiting, WaitingFor
<1>3. TypeOK'
  <2>1. EntryRecord' = EntryRecord /\ TaskRecord' = TaskRecord /\ Versions' = Versions
    BY DEF EntryRecord, TaskRecord, Versions
  <2>. QED  BY <1>1, <1>2, <2>1 DEF shared, locals, CountInv, TypeOK
<1>4. LocalsOK' /\ NamesOK'
  BY <1>1 DEF shared, locals, CountInv, LocalsOK, NamesOK, TaskRecord,
              EntryRecord, Versions
<1>5. CountsMatch'
  BY <1>1, <1>2 DEF shared, locals, CountInv, CountsMatch
<1>. QED  BY <1>3, <1>4, <1>5 DEF CountInv

\* Every step keeps the types and the counts.
LEMMA NextCounts == CountInv /\ [Next]_vars => CountInv'
<1>. SUFFICES ASSUME CountInv, [Next]_vars PROVE CountInv'
  OBVIOUS
<1>1. ASSUME NEW c \in Callers, CallerStep(c) PROVE CountInv'
  BY <1>1, JoinCounts, JoinEndedCounts, CreateCounts, ResumeCounts, CancelCounts
     DEF CallerStep
<1>2. ASSUME NEW t \in DOMAIN tasks, TaskStep(t) PROVE CountInv'
  BY <1>2, TaskCounts
<1>. QED  BY <1>1, <1>2, OtherCounts DEF Next
-----------------------------------------------------------------------------
(* What calls return *)

\* At first nobody has been told anything.
LEMMA InitInv == Init => Inv
<1>. SUFFICES ASSUME Init PROVE Inv
  OBVIOUS
<1>1. CountInv
  BY InitCounts
<1>2. ReadOK /\ FloorOK /\ NoOlderThanOverlap
  BY DEF Init, ReadOK, FloorOK, NoOlderThanOverlap, Waiting
<1>. QED  BY <1>1, <1>2 DEF Inv

\* A call that joins a batch cannot have a floor above what the batch has read:
\* it is at most the floor of one who waits there already.
LEMMA FloorOfJoined ==
  ASSUME Inv, NEW k \in Keys, Open(k) # {}, NEW t, t = futures[First(Open(k))]
  PROVE  /\ t \in DOMAIN tasks
         /\ Floor(k) \in Versions /\ Floor(k) <= data
         /\ tasks[t].state \in {"read", "done"} =>
              tasks[t].value \in Versions /\ tasks[t].value >= Floor(k)
<1>1. PICK d \in Waiting : key[d] = k /\ future[d] = t
  BY FirstOfOpen DEF Inv
<1>2. Floor(k) \in Versions /\ Floor(k) <= data /\ Floor(k) <= floor[d]
  BY <1>1, FloorIsLow DEF Inv, CountInv
<1>3. t \in DOMAIN tasks
  BY FirstOfOpen DEF Inv
<1>4. floor[d] \in Versions
  BY <1>1 DEF Inv, CountInv, TypeOK, Waiting
<1>5. tasks[t].state \in {"read", "done"} =>
        tasks[t].value \in Versions /\ tasks[t].value >= floor[d]
  BY <1>1, <1>3 DEF Inv, ReadOK, FloorOK
<1>6. Versions \subseteq Int
  BY CoalescerAssumption DEF Versions, CoalescerAssumption
<1>7. ASSUME tasks[t].state \in {"read", "done"}
      PROVE  tasks[t].value >= Floor(k)
  <2>1. /\ Floor(k) \in Int /\ floor[d] \in Int /\ tasks[t].value \in Int
        /\ Floor(k) <= floor[d] /\ tasks[t].value >= floor[d]
    BY <1>2, <1>4, <1>5, <1>6, <1>7
  <2>. QED  BY <2>1
<1>. QED  BY <1>2, <1>3, <1>5, <1>7

\* __call__ joins a batch, or starts a task that has not read yet.
LEMMA AwaitFloor ==
  ASSUME Inv, NEW c \in Callers, NEW k \in Keys, Join(c, k) \/ Create(c, k)
  PROVE  ReadOK' /\ FloorOK' /\ NoOlderThanOverlap'
<1>1. CountInv /\ CountInv'
  BY JoinCounts, CreateCounts DEF Inv
<1>2. PICK e \in EntryRecord, t \in Nat :
        /\ Await(c, k, e, t)
        /\ c \notin Waiting
        /\ UNCHANGED <<outcome, data>>
        /\ t \in DOMAIN tasks'
        /\ Floor(k) <= data
        /\ tasks'[t].state \in {"read", "done"} => tasks'[t].value >= Floor(k)
        /\ \A u \in DOMAIN tasks' :
             \/ u \in DOMAIN tasks /\ tasks'[u] = tasks[u]
             \/ tasks'[u].state = "created"
        /\ \A u \in DOMAIN tasks : tasks'[u] = tasks[u]
  <2>1. CASE Join(c, k)
    <3>1. PICK e : e = First(Open(k))
      OBVIOUS
    <3>2. PICK t : t = futures[e]
      OBVIOUS
    <3>3. Open(k) # {} /\ Await(c, k, e, t) /\ c \notin Waiting
          /\ UNCHANGED <<tasks, outcome, data>>
      BY <2>1, <3>1, <3>2 DEF Join, CanCall
    <3>4. e \in EntryRecord /\ t \in DOMAIN tasks /\ t \in Nat
      BY <1>1, <3>1, <3>2, <3>3, FirstOfOpen DEF CountInv, TypeOK
    <3>5. /\ Floor(k) <= data
          /\ tasks[t].state \in {"read", "done"} => tasks[t].value >= Floor(k)
      BY <3>1, <3>2, <3>3, FloorOfJoined
    <3>. QED  BY <3>3, <3>4, <3>5
  <2>2. CASE Create(c, k)
    <3>1. PICK t : t = Len(tasks) + 1
      OBVIOUS
    <3>2. PICK new : new = [key |-> k, state |-> "created", value |-> NULL]
      OBVIOUS
    <3>3. Await(c, k, NewEntry(k), t) /\ c \notin Waiting
          /\ tasks' = Append(tasks, new) /\ UNCHANGED <<outcome, data>>
      BY <2>2, <3>1, <3>2 DEF Create, CanCall
    <3>4. tasks \in Seq(TaskRecord) /\ new \in TaskRecord
      BY <1>1, <3>2 DEF CountInv, TypeOK, TaskRecord
    <3>5. /\ t \in Nat /\ DOMAIN tasks' = DOMAIN tasks \cup {t}
          /\ tasks'[t] = new /\ new.state = "created"
          /\ \A u \in DOMAIN tasks : tasks'[u] = tasks[u]
      BY <3>1, <3>2, <3>3, <3>4
    <3>6. NewEntry(k) \in EntryRecord
      BY <1>1, NewEntryIsNew
    <3>7. Floor(k) <= data
      BY <1>1, FloorIsLow DEF CountInv
    <3>. QED  BY <3>3, <3>5, <3>6, <3>7
  <2>. QED  BY <2>1, <2>2
<1>3. /\ Waiting' = Waiting \cup {c}
      /\ \A d \in Waiting : future'[d] = future[d] /\ d # c
      /\ future'[c] = t /\ floor'[c] = Floor(k)
      /\ \A d \in Callers : d # c => floor'[d] = floor[d]
  BY <1>1, <1>2, AwaitCounts
<1>4. ReadOK'
  BY <1>2 DEF ReadOK, Versions, Inv
<1>5. \A d \in Callers : floor'[d] <= data'
  BY <1>2, <1>3 DEF Inv, FloorOK
<1>6. \A d \in Waiting' :
        tasks'[future'[d]].state \in {"read", "done"}
          => tasks'[future'[d]].value >= floor'[d]
  <2>. TAKE d \in Waiting'
  <2>1. CASE d = c
    BY <2>1, <1>2, <1>3
  <2>2. CASE d # c
    <3>1. d \in Waiting /\ d \in Callers /\ future[d] \in DOMAIN tasks
      BY <2>2, <1>1, <1>3 DEF Waiting, CountInv, CountsMatch, TypeOK
    <3>. QED  BY <3>1, <2>2, <1>2, <1>3 DEF Inv, FloorOK
  <2>. QED  BY <2>1, <2>2
<1>7. NoOlderThanOverlap'
  BY <1>2, <1>3 DEF Inv, NoOlderThanOverlap
<1>. QED  BY <1>4, <1>5, <1>6, <1>7 DEF FloorOK

\* __call__ finds a batch that has ended: what it has read is for one who waits.
LEMMA JoinEndedFloor ==
  ASSUME Inv, NEW c \in Callers, NEW k \in Keys, JoinEnded(c, k)
  PROVE  ReadOK' /\ FloorOK' /\ NoOlderThanOverlap'
<1>1. PICK t : t = futures[First(Open(k))]
  OBVIOUS
<1>2. /\ Open(k) # {} /\ c \notin Waiting
      /\ outcome' = [outcome EXCEPT ![c] = Result(t)]
      /\ floor' = [floor EXCEPT ![c] = Floor(k)]
      /\ UNCHANGED <<shared, tasks, locals, data>>
  BY <1>1 DEF JoinEnded, CanCall
<1>3. /\ Floor(k) <= data
      /\ tasks[t].state \in {"read", "done"} => tasks[t].value >= Floor(k)
  BY <1>1, <1>2, FloorOfJoined
<1>4. /\ outcome \in [Callers -> TaskRecord \cup {NULL}]
      /\ floor \in [Callers -> Versions]
  BY DEF Inv, CountInv, LocalsOK, TypeOK
<1>5. /\ outcome'[c] = Result(t) /\ floor'[c] = Floor(k)
      /\ \A d \in Callers : d # c => outcome'[d] = outcome[d] /\ floor'[d] = floor[d]
  BY <1>2, <1>4
<1>6. Waiting' = Waiting
  BY <1>2 DEF locals, Waiting
<1>7. ReadOK'
  BY <1>2 DEF Inv, ReadOK, Versions
<1>8. FloorOK'
  BY <1>2, <1>3, <1>5, <1>6 DEF Inv, FloorOK, locals, Waiting
<1>9. NoOlderThanOverlap'
  <2>1. Result(t).state = "done" => Result(t).value >= Floor(k)
    BY <1>3 DEF Result
  <2>. QED  BY <2>1, <1>5, <1>6 DEF Inv, NoOlderThanOverlap
<1>. QED  BY <1>7, <1>8, <1>9

\* A caller is resumed with what its task has read.
LEMMA ResumeFloor ==
  ASSUME Inv, NEW c \in Callers, Resume(c)
  PROVE  ReadOK' /\ FloorOK' /\ NoOlderThanOverlap'
<1>1. /\ c \in Waiting
      /\ key' = [key EXCEPT ![c] = NULL]
      /\ future' = [future EXCEPT ![c] = NULL]
      /\ UNCHANGED <<tasks, data, floor>>
  BY DEF Resume
<1>2. PICK r : /\ outcome' = [outcome EXCEPT ![c] = r]
               /\ r.state = "done" => r = Result(future[c])
  <2>1. [Result(future[c]) EXCEPT !.state = "cancelled"].state # "done"
    BY DEF Result
  <2>. QED  BY <2>1 DEF Resume
<1>3. /\ outcome \in [Callers -> TaskRecord \cup {NULL}]
      /\ key \in [Callers -> Keys \cup {NULL}]
      /\ future \in [Callers -> Nat \cup {NULL}]
  BY DEF Inv, CountInv, LocalsOK, TypeOK
<1>4. /\ Waiting' = Waiting \ {c}
      /\ outcome'[c] = r
      /\ \A d \in Callers : d # c => future'[d] = future[d] /\ outcome'[d] = outcome[d]
  BY <1>1, <1>2, <1>3 DEF Waiting
<1>5. ReadOK'
  BY <1>1 DEF Inv, ReadOK, Versions
<1>6. FloorOK'
  <2>1. \A d \in Waiting' : d \in Callers /\ d # c /\ d \in Waiting
    BY <1>4 DEF Waiting
  <2>. QED  BY <2>1, <1>1, <1>4 DEF Inv, FloorOK
<1>7. NoOlderThanOverlap'
  <2>1. r.state = "done" => r.value >= floor[c]
    BY <1>1, <1>2 DEF Result, Inv, FloorOK
  <2>. QED  BY <2>1, <1>1, <1>4 DEF Inv, NoOlderThanOverlap
<1>. QED  BY <1>5, <1>6, <1>7

\* Cancellation, the tasks, and a change of the data.
LEMMA OtherFloor ==
  ASSUME Inv,
         \/ \E c \in Callers : Cancel(c)
         \/ \E t \in DOMAIN tasks : TaskStep(t)
         \/ Change \/ UNCHANGED vars
  PROVE  ReadOK' /\ FloorOK' /\ NoOlderThanOverlap'
<1>1. /\ UNCHANGED <<key, future, outcome, floor>>
      /\ DOMAIN tasks' = DOMAIN tasks
      /\ data \in Versions /\ data' \in Versions /\ data <= data'
      /\ \A u \in DOMAIN tasks :
           \/ tasks'[u] = tasks[u]
           \/ tasks'[u].state = "read" /\ tasks'[u].value = data
           \/ /\ tasks'[u].state = "done" /\ tasks[u].state = "read"
              /\ tasks'[u].value = tasks[u].value
           \/ tasks'[u].state \notin {"read", "done"}
  <2>1. data \in Versions /\ Versions \subseteq Int
    BY CoalescerAssumption DEF Inv, CountInv, TypeOK, Versions, CoalescerAssumption
  <2>2. ASSUME NEW c \in Callers, Cancel(c)
        PROVE  /\ UNCHANGED <<key, future, outcome, floor, data>>
               /\ DOMAIN tasks' = DOMAIN tasks
               /\ \A u \in DOMAIN tasks :
                    tasks'[u] = tasks[u] \/ tasks'[u].state \notin {"read", "done"}
    <3>1. future[c] \in DOMAIN tasks /\ tasks \in Seq(TaskRecord)
      BY <2>2 DEF Cancel, Inv, CountInv, CountsMatch, TypeOK
    <3>2. tasks[future[c]] \in TaskRecord
      BY <3>1
    <3>3. CASE Ended(future[c])
      BY <2>2, <3>3 DEF Cancel, locals
    <3>4. CASE ~ Ended(future[c])
      <4>1. PICK r : r = [tasks[future[c]] EXCEPT !.state = "cancelling"]
        OBVIOUS
      <4>2. tasks' = [tasks EXCEPT ![future[c]] = r]
        BY <2>2, <3>4, <4>1 DEF Cancel
      <4>3. r.state = "cancelling"
        BY <3>2, <4>1, RecordGoesOn
      <4>. QED  BY <2>2, <3>1, <4>2, <4>3 DEF Cancel, locals
    <3>. QED  BY <3>3, <3>4
  <2>3. ASSUME NEW t \in DOMAIN tasks, TaskStep(t)
        PROVE  /\ UNCHANGED <<key, future, outcome, floor, data>>
               /\ DOMAIN tasks' = DOMAIN tasks
               /\ \A u \in DOMAIN tasks :
                    \/ tasks'[u] = tasks[u]
                    \/ tasks'[u].state = "read" /\ tasks'[u].value = data
                    \/ /\ tasks'[u].state = "done" /\ tasks[u].state = "read"
                       /\ tasks'[u].value = tasks[u].value
                    \/ tasks'[u].state \notin {"read", "done"}
    <3>1. CountInv
      BY DEF Inv
    <3>. QED  BY <2>3, <3>1, TaskSteps DEF locals
  <2>4. CASE Change \/ UNCHANGED vars
    BY <2>1, <2>4, CoalescerAssumption
       DEF Change, vars, locals, Versions, CoalescerAssumption
  <2>. QED  BY <2>1, <2>2, <2>3, <2>4
<1>2. Waiting' = Waiting
  BY <1>1 DEF Waiting
<1>3. Versions \subseteq Int
  BY CoalescerAssumption DEF Versions, CoalescerAssumption
<1>4. ReadOK'
  <2>. SUFFICES ASSUME NEW u \in DOMAIN tasks, tasks'[u].state \in {"read", "done"}
                PROVE  tasks'[u].value \in Versions
    BY <1>1 DEF ReadOK, Versions
  <2>. QED  BY <1>1 DEF Inv, ReadOK
<1>5. \A c \in Callers : floor[c] \in Versions /\ floor[c] <= data
  BY DEF Inv, CountInv, TypeOK, FloorOK
<1>6. FloorOK'
  <2>1. \A c \in Callers : floor'[c] <= data'
    BY <1>1, <1>3, <1>5
  <2>2. ASSUME NEW c \in Waiting, tasks'[future[c]].state \in {"read", "done"}
        PROVE  tasks'[future[c]].value >= floor[c]
    <3>1. future[c] \in DOMAIN tasks /\ c \in Callers
      BY DEF Waiting, Inv, CountInv, CountsMatch, TypeOK
    <3>2. CASE tasks'[future[c]].state = "read" /\ tasks'[future[c]].value = data
      BY <3>1, <3>2, <1>1, <1>3, <1>5
    <3>3. CASE /\ tasks[future[c]].state \in {"read", "done"}
               /\ tasks'[future[c]].value = tasks[future[c]].value
      BY <3>3 DEF Inv, FloorOK
    <3>. QED  BY <2>2, <3>1, <3>2, <3>3, <1>1
  <2>. QED  BY <2>1, <2>2, <1>1, <1>2 DEF FloorOK
<1>7. NoOlderThanOverlap'
  BY <1>1, <1>2 DEF Inv, NoOlderThanOverlap
<1>. QED  BY <1>4, <1>6, <1>7

\* Every step keeps the inductive invariant.
LEMMA NextInv == Inv /\ [Next]_vars => Inv'
<1>. SUFFICES ASSUME Inv, [Next]_vars PROVE Inv'
  OBVIOUS
<1>1. CountInv'
  BY NextCounts DEF Inv
<1>2. ReadOK' /\ FloorOK' /\ NoOlderThanOverlap'
  <2>1. ASSUME NEW c \in Callers, CallerStep(c)
        PROVE  ReadOK' /\ FloorOK' /\ NoOlderThanOverlap'
    BY <2>1, AwaitFloor, JoinEndedFloor, ResumeFloor, OtherFloor DEF CallerStep
  <2>. QED  BY <2>1, OtherFloor DEF Next
<1>. QED  BY <1>1, <1>2 DEF Inv

\* Always.
LEMMA InvAlways == Spec => []Inv
BY InitInv, NextInv, PTL DEF Spec
-----------------------------------------------------------------------------
(* Theorems *)

\* The types of the coalescer, whatever the callers, the batches and the faults.
THEOREM TypeCorrect == Spec => []TypeOK
BY InvAlways, PTL DEF Inv, CountInv

\* Entries and callers match (__call__ of RequestCoalescer): no entry outlives
\* its callers, no caller its entry, and no batch is larger than max_waiters.
THEOREM CountsAreRight == Spec => []CountsMatch
BY InvAlways, PTL DEF Inv, CountInv

\* A shared answer is never older than a call it was made for, or one that
\* overlaps it.
THEOREM AnswersAreRecent == Spec => []NoOlderThanOverlap
BY InvAlways, PTL DEF Inv
=============================================================================
