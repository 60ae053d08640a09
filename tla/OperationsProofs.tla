-------------------------- MODULE OperationsProofs --------------------------
(***************************************************************************)
(* Theorems about Operations, for any batches, entities, scripts, modes    *)
(* and numbers of faults; and in the last sections about                   *)
(* BackgroundOperations: a task takes the steps of Operations and a crash  *)
(* loses some requests more, so the invariant holds there, and the         *)
(* refinement with it.  The last sections follow the events of a batch to  *)
(* those who listen to them, and its results to those who poll its status. *)
(***************************************************************************)
EXTENDS BackgroundOperations, SequenceTheorems, FiniteSetTheorems,
        WellFoundedInduction, TLAPS

-----------------------------------------------------------------------------
(* The inductive invariant *)

EventRecord == [batch : Batches, op : Nat]

Labels == {"new", "op", "write", "commit", "dispatch", "done"}

\* The transactions of the batch are not yet over.
Running == {"new", "op", "write", "commit"}

\* The types that are not about a single batch.
GlobalOK ==
  /\ script \in [Batches -> Scripts]
  /\ mode \in [Batches -> Modes]
  /\ rows \in [Entities -> Values \cup {NULL}]
  /\ owner \in [Entities -> Batches \cup {NULL}]
  /\ pending \in [Entities -> Values \cup {NULL}]
  /\ \A e \in Entities : owner[e] = NULL => pending[e] = NULL
  /\ pc \in [Batches -> Labels]
  /\ attempt \in [Batches -> 0..MaxTries]
  /\ loaded \in [Batches -> Values \cup {NULL}]
  /\ done \in [Batches -> SUBSET Nat]
  /\ result \in [Batches -> Seq(BOOLEAN)]
  /\ events \in [Batches -> Seq(EventRecord)]
  /\ reply \in [Batches -> {NULL, "ok", "failed", "error", "interrupted", "lost"}]
  /\ applied \subseteq Batches \X Nat
  /\ log \in Seq(EventRecord)
  /\ faults \in [busy : 0..MaxBusy, outages : 0..MaxOutages,
                 crashes : 0..MaxCrashes]

\* Where a batch is fits to its operations, its transaction and its answer.
StageOK(b) ==
  /\ done[b] \subseteq Indices(b)
  /\ \A i \in Nat : <<b, i>> \in applied => i \in Indices(b)
  /\ Len(result[b]) <= Len(script[b])
  /\ pc[b] = "new" => result[b] = << >> /\ events[b] = << >>
  /\ pc[b] \in {"op", "write"} => Len(result[b]) < Len(script[b])
  /\ pc[b] \in {"new", "dispatch", "done"} => done[b] = {}
  /\ pc[b] = "dispatch" => events[b] # << >> /\ (CanFail(b) \/ Succeeded(b))
  /\ pc[b] \in Running => reply[b] = NULL

\* The events in memory are those of operations that have been executed and not
\* rolled back, each once and none of them dispatched.
EventsOK(b) ==
  /\ \A i \in DOMAIN events[b] :
       /\ events[b][i].batch = b
       /\ events[b][i].op \in 1..Len(result[b])
       /\ CanFail(b) \/ Succeeded(b) =>
            events[b][i].op \in done[b] \/ <<b, events[b][i].op>> \in applied
       /\ \A k \in DOMAIN log : log[k] # events[b][i]
  /\ \A i, j \in DOMAIN events[b] : events[b][i] = events[b][j] => i = j

\* With raise_on_error, the open transaction holds all operations so far.
RaiseOK(b) ==
  mode[b] = "raise" =>
    /\ pc[b] \in Running =>
         /\ done[b] = 1..Len(result[b])
         /\ Succeeded(b)
         /\ \A i \in Nat : <<b, i>> \notin applied
    /\ pc[b] = "commit" => Len(result[b]) = Len(script[b])
    /\ pc[b] = "dispatch" =>
         /\ \A i \in Indices(b) : <<b, i>> \in applied
         /\ reply[b] \in {NULL, "ok"}
    /\ pc[b] = "done" =>
         \/ \A i \in Indices(b) : <<b, i>> \in applied
         \/ \A i \in Nat : <<b, i>> \notin applied

BatchOK(b) == StageOK(b) /\ EventsOK(b) /\ RaiseOK(b)

\* The event stream has committed operations, each once, of batches whose
\* transactions are over.
LogOK ==
  /\ \A k \in DOMAIN log :
       /\ <<log[k].batch, log[k].op>> \in applied
       /\ pc[log[k].batch] \in {"dispatch", "done"}
  /\ \A k, n \in DOMAIN log : log[k] = log[n] => k = n

Inv == GlobalOK /\ (\A b \in Batches : BatchOK(b)) /\ LogOK
-----------------------------------------------------------------------------
(* Facts about batches *)

\* The script of a batch.
LEMMA Scripted ==
  ASSUME GlobalOK, NEW b \in Batches
  PROVE  /\ script[b] \in Seq(Operation)
         /\ Len(script[b]) \in Nat
         /\ Indices(b) = 1..Len(script[b])
         /\ Len(result[b]) \in Nat
         /\ DOMAIN result[b] = 1..Len(result[b])
         /\ b # NULL
         /\ (Len(result[b]) < Len(script[b]) =>
               /\ Current(b) \in Operation
               /\ Current(b).entity \in Entities
               /\ Current(b).value \in Values
               /\ Len(result[b]) + 1 \in Indices(b))
<1>1. script[b] \in Seq(Operation) /\ result[b] \in Seq(BOOLEAN)
  BY ScriptAssumption DEF GlobalOK, ScriptAssumption
<1>2. b # NULL
  BY ScriptAssumption DEF ScriptAssumption
<1>3. ASSUME Len(result[b]) < Len(script[b])
      PROVE  Len(result[b]) + 1 \in Indices(b) /\ Current(b) \in Operation
  BY <1>1, <1>3 DEF Indices, Current
<1>. QED  BY <1>1, <1>2, <1>3 DEF Indices, Operation

\* A batch is left alone by a step of another one.
Alone(b) ==
  /\ UNCHANGED <<script, mode>>
  /\ \A c \in Batches : c # b =>
       /\ pc'[c] = pc[c] /\ result'[c] = result[c] /\ events'[c] = events[c]
       /\ done'[c] = done[c] /\ reply'[c] = reply[c]
       /\ \A i \in Nat : <<c, i>> \in applied' <=> <<c, i>> \in applied
  /\ \/ log' = log
     \/ \E ev \in EventRecord : ev.batch = b /\ log' = Append(log, ev)

\* An event is added to a sequence.
LEMMA Added ==
  ASSUME NEW s \in Seq(EventRecord), NEW ev \in EventRecord
  PROVE  /\ Append(s, ev) \in Seq(EventRecord)
         /\ DOMAIN Append(s, ev) = DOMAIN s \cup {Len(s) + 1}
         /\ Len(s) + 1 \notin DOMAIN s
         /\ Append(s, ev)[Len(s) + 1] = ev
         /\ \A i \in DOMAIN s : Append(s, ev)[i] = s[i]
         /\ s \o <<ev>> = Append(s, ev)
         /\ s \o << >> = s
<1>1. s \o <<ev>> = Append(s, ev)
  BY AppendIsConcat
<1>2. s \o << >> = s
  BY ConcatEmptySeq
<1>. QED  BY <1>1, <1>2

\* Events name a batch and an operation.
LEMMA EventsTyped ==
  ASSUME GlobalOK
  PROVE  /\ \A b \in Batches : \A i \in DOMAIN events[b] :
              events[b][i] \in EventRecord /\ events[b][i].op \in Nat
         /\ \A k \in DOMAIN log : log[k].batch \in Batches /\ log[k].op \in Nat
<1>1. \A b \in Batches : events[b] \in Seq(EventRecord)
  BY DEF GlobalOK
<1>2. log \in Seq(EventRecord)
  BY DEF GlobalOK
<1>3. \A e \in EventRecord : e.batch \in Batches /\ e.op \in Nat
  BY DEF EventRecord
<1>. QED  BY <1>1, <1>2, <1>3

\* Then its own invariant is left alone, too.
LEMMA OthersAreLeft ==
  ASSUME Inv, NEW b \in Batches, Alone(b), NEW c \in Batches, c # b
  PROVE  BatchOK(c)'
<1>1. BatchOK(c) /\ GlobalOK
  BY DEF Inv
<1>2. /\ UNCHANGED <<script, mode>>
      /\ pc'[c] = pc[c] /\ result'[c] = result[c] /\ events'[c] = events[c]
      /\ done'[c] = done[c] /\ reply'[c] = reply[c]
      /\ \A i \in Nat : <<c, i>> \in applied' <=> <<c, i>> \in applied
  BY DEF Alone
<1>3. Indices(c)' = Indices(c) /\ (CanFail(c)' <=> CanFail(c))
      /\ (Succeeded(c)' <=> Succeeded(c))
  BY <1>2 DEF Indices, CanFail, Succeeded
<1>4. StageOK(c)'
  BY <1>1, <1>2, <1>3 DEF BatchOK, StageOK
<1>5. EventsOK(c)'
  <2>1. \A i \in DOMAIN events[c] : \A k \in DOMAIN log' : log'[k] # events[c][i]
    <3>1. CASE log' = log
      BY <3>1, <1>1 DEF BatchOK, EventsOK
    <3>2. CASE \E ev \in EventRecord : ev.batch = b /\ log' = Append(log, ev)
      <4>1. PICK ev \in EventRecord : ev.batch = b /\ log' = Append(log, ev)
        BY <3>2
      <4>2. log \in Seq(EventRecord)
        BY <1>1 DEF GlobalOK
      <4>3. ASSUME NEW i \in DOMAIN events[c], NEW k \in DOMAIN log'
            PROVE  log'[k] # events[c][i]
        <5>1. /\ events[c][i].batch = c
              /\ \A n \in DOMAIN log : log[n] # events[c][i]
          BY <1>1 DEF BatchOK, EventsOK
        <5>2. log'[k] = ev \/ (k \in DOMAIN log /\ log'[k] = log[k])
          BY <4>1, <4>2, Added
        <5>. QED  BY <5>1, <5>2, <4>1
      <4>. QED  BY <4>3
    <3>. QED  BY <3>1, <3>2 DEF Alone
  <2>2. \A i \in DOMAIN events[c] : events[c][i].op \in Nat
    BY <1>1, EventsTyped
  <2>. QED  BY <2>1, <2>2, <1>1, <1>2, <1>3 DEF BatchOK, EventsOK
<1>6. RaiseOK(c)'
  BY <1>1, <1>2, <1>3, Scripted DEF BatchOK, RaiseOK
<1>. QED  BY <1>4, <1>5, <1>6 DEF BatchOK

\* A step of one batch keeps the invariant if it keeps that of the batch.
LEMMA OneBatch ==
  ASSUME Inv, NEW b \in Batches, Alone(b), GlobalOK', BatchOK(b)', LogOK'
  PROVE  Inv'
BY OthersAreLeft DEF Inv

\* The event stream is the same, and no transaction is undone.
LEMMA LogIsLeft ==
  ASSUME Inv, UNCHANGED log, applied \subseteq applied',
         \A c \in Batches : pc[c] \in {"dispatch", "done"}
                              => pc'[c] \in {"dispatch", "done"}
  PROVE  LogOK'
<1>1. \A k \in DOMAIN log : log[k].batch \in Batches
  BY EventsTyped DEF Inv
<1>. QED  BY <1>1 DEF Inv, LogOK

\* A transaction ends without a commit.
LEMMA RollbackLeaves ==
  ASSUME GlobalOK, NEW b \in Batches, Rollback(b)
  PROVE  /\ UNCHANGED <<rows, applied>>
         /\ owner' \in [Entities -> Batches \cup {NULL}]
         /\ pending' \in [Entities -> Values \cup {NULL}]
         /\ \A e \in Entities : owner'[e] = NULL => pending'[e] = NULL
         /\ done' = [done EXCEPT ![b] = {}]
BY ScriptAssumption DEF GlobalOK, ScriptAssumption, Rollback, Release
-----------------------------------------------------------------------------
(* The actions *)

\* At first nothing has been done.
LEMMA InitInv == Init => Inv
<1>. SUFFICES ASSUME Init PROVE Inv
  OBVIOUS
<1>. USE ScriptAssumption DEF ScriptAssumption, Init
<1>1. GlobalOK
  BY DEF GlobalOK, Labels, MaxTries
<1>2. ASSUME NEW b \in Batches PROVE BatchOK(b)
  <2>1. script[b] \in Seq(Operation)
    OBVIOUS
  <2>. QED  BY <2>1 DEF BatchOK, StageOK, EventsOK, RaiseOK, Running, Succeeded, Indices
<1>3. LogOK
  BY DEF LogOK
<1>. QED  BY <1>1, <1>2, <1>3 DEF Inv

\* _validate refuses the batch, or _process begins.
LEMMA BeginInv ==
  ASSUME Inv, NEW b \in Batches, Refused(b) \/ Start(b)
  PROVE  Inv'
<1>. USE ScriptAssumption DEF ScriptAssumption
<1>1. GlobalOK /\ BatchOK(b)
  BY DEF Inv
<1>2. /\ pc[b] = "new"
      /\ UNCHANGED <<script, mode, database, loaded, done, result, events, log, faults>>
      /\ \/ /\ pc' = [pc EXCEPT ![b] = "done"] /\ UNCHANGED attempt
            /\ reply' = [reply EXCEPT ![b] = "error"]
         \/ /\ attempt' = [attempt EXCEPT ![b] = 1] /\ UNCHANGED reply
            /\ \/ script[b] = << >> /\ pc' = [pc EXCEPT ![b] = "commit"]
               \/ script[b] # << >> /\ pc' = [pc EXCEPT ![b] = "op"]
  BY DEF Refused, Start, Goto, Answer
<1>3. GlobalOK'
  <2>0. pc \in [Batches -> Labels] /\ attempt \in [Batches -> 0..MaxTries]
    BY <1>1 DEF GlobalOK
  <2>1. pc' \in [Batches -> Labels]
    <3>1. \E l \in Labels : pc' = [pc EXCEPT ![b] = l]
      BY <1>2 DEF Labels
    <3>. QED  BY <3>1, <2>0
  <2>2. attempt' \in [Batches -> 0..MaxTries]
    <3>1. attempt' = attempt \/ attempt' = [attempt EXCEPT ![b] = 1]
      BY <1>2
    <3>2. 1 \in 0..MaxTries
      BY DEF MaxTries
    <3>. QED  BY <3>1, <3>2, <2>0
  <2>3. reply' \in [Batches -> {NULL, "ok", "failed", "error", "interrupted", "lost"}]
    BY <1>1, <1>2 DEF GlobalOK
  <2>. QED  BY <2>1, <2>2, <2>3, <1>1, <1>2 DEF GlobalOK, database, EventRecord, MaxTries
<1>4. Alone(b)
  BY <1>1, <1>2 DEF Alone, GlobalOK, database
<1>5. LogOK'
  BY <1>1, <1>2, LogIsLeft DEF GlobalOK, database
<1>6. pc'[b] \in {"done", "commit", "op"} /\ (pc'[b] # "done" => reply'[b] = reply[b])
      /\ (pc'[b] = "op" => script[b] # << >>) /\ (pc'[b] = "commit" => script[b] = << >>)
  BY <1>1, <1>2 DEF GlobalOK
<1>7. StageOK(b)'
  BY <1>1, <1>2, <1>6, Scripted
     DEF BatchOK, StageOK, Indices, CanFail, Succeeded, Running, database
<1>8. EventsOK(b)'
  BY <1>1, <1>2 DEF BatchOK, EventsOK, StageOK
<1>9. RaiseOK(b)'
  BY <1>1, <1>2, <1>6, Scripted
     DEF BatchOK, RaiseOK, StageOK, Indices, Succeeded, Running, database
<1>. QED  BY <1>3, <1>4, <1>5, <1>7, <1>8, <1>9, OneBatch DEF BatchOK

\* An operation fails, alone or with its batch.
LEMMA FailureInv ==
  ASSUME Inv, NEW b \in Batches, NEW aborts \in BOOLEAN,
         pc[b] \in {"op", "write"}, Failure(b, aborts),
         loaded' \in [Batches -> Values \cup {NULL}],
         UNCHANGED <<script, mode, attempt, log, faults>>
  PROVE  Inv'
<1>. USE ScriptAssumption DEF ScriptAssumption
<1>1. GlobalOK /\ BatchOK(b)
  BY DEF Inv
<1>2. /\ result[b] \in Seq(BOOLEAN) /\ Len(result[b]) \in Nat
      /\ Len(result[b]) < Len(script[b]) /\ Len(script[b]) \in Nat
      /\ Append(result[b], FALSE) \in Seq(BOOLEAN)
      /\ Len(Append(result[b], FALSE)) = Len(result[b]) + 1
      /\ Append(result[b], FALSE)[Len(result[b]) + 1] = FALSE
      /\ Indices(b) = 1..Len(script[b])
  <2>1. result[b] \in Seq(BOOLEAN)
    BY <1>1 DEF GlobalOK
  <2>2. Len(result[b]) < Len(script[b])
    BY <1>1 DEF BatchOK, StageOK
  <2>. QED  BY <2>1, <2>2, <1>1, Scripted, AppendProperties
<1>3. CASE /\ CanFail(b) /\ Advance(b, FALSE)
           /\ UNCHANGED <<database, done, events, reply>>
  <2>1. /\ result' = [result EXCEPT ![b] = Append(result[b], FALSE)]
        /\ \/ /\ Len(result[b]) + 1 = Len(script[b])
              /\ pc' = [pc EXCEPT ![b] = "commit"]
           \/ /\ Len(result[b]) + 1 # Len(script[b])
              /\ pc' = [pc EXCEPT ![b] = "op"]
    BY <1>3 DEF Advance, Goto
  <2>2. /\ pc' \in [Batches -> Labels] /\ result' \in [Batches -> Seq(BOOLEAN)]
        /\ pc'[b] \in {"op", "commit"} /\ result'[b] = Append(result[b], FALSE)
        /\ (pc'[b] = "op" => Len(result'[b]) < Len(script[b]))
    <3>1. pc \in [Batches -> Labels] /\ result \in [Batches -> Seq(BOOLEAN)]
      BY <1>1 DEF GlobalOK
    <3>2. result' \in [Batches -> Seq(BOOLEAN)] /\ result'[b] = Append(result[b], FALSE)
      BY <3>1, <2>1, <1>2
    <3>3. PICK l \in {"op", "commit"} :
            /\ pc' = [pc EXCEPT ![b] = l]
            /\ l = "op" => Len(result[b]) + 1 # Len(script[b])
      BY <2>1
    <3>4. pc' \in [Batches -> Labels] /\ pc'[b] = l
      BY <3>1, <3>3 DEF Labels
    <3>. QED  BY <3>2, <3>3, <3>4, <1>2
  <2>3. GlobalOK'
    BY <2>2, <1>1, <1>3 DEF GlobalOK, database, EventRecord
  <2>4. Alone(b)
    BY <2>1, <1>1, <1>3 DEF Alone, GlobalOK, database
  <2>5. LogOK'
    BY <2>1, <1>1, <1>3, LogIsLeft DEF GlobalOK, database
  <2>6. StageOK(b)'
    <3>1. Len(result'[b]) = Len(result[b]) + 1
      BY <2>2, <1>2
    <3>2. Len(result'[b]) <= Len(script[b]) /\ Indices(b)' = Indices(b)
      BY <3>1, <1>2, <1>3 DEF Indices
    <3>3. UNCHANGED <<applied, done, reply, mode>>
      BY <1>3 DEF database
    <3>. QED  BY <2>2, <3>2, <3>3, <1>1 DEF BatchOK, StageOK, Running
  <2>7. EventsOK(b)'
    <3>1. 1..Len(result[b]) \subseteq 1..Len(result'[b])
      BY <2>2, <1>2
    <3>2. UNCHANGED <<applied, done, events, log, mode>> /\ CanFail(b)
      BY <1>3 DEF database
    <3>. QED  BY <3>1, <3>2, <1>1 DEF BatchOK, EventsOK, CanFail
  <2>8. RaiseOK(b)'
    BY <1>3 DEF RaiseOK, CanFail
  <2>. QED  BY <2>3, <2>4, <2>5, <2>6, <2>7, <2>8, OneBatch DEF BatchOK
<1>4. CASE /\ mode[b] = "collect"
           /\ result' = [result EXCEPT ![b] = Append(@, FALSE)]
           /\ Goto(b, "commit")
           /\ IF aborts THEN Rollback(b) ELSE UNCHANGED <<database, done>>
           /\ UNCHANGED <<events, reply>>
  <2>1. /\ UNCHANGED <<rows, applied>>
        /\ owner' \in [Entities -> Batches \cup {NULL}]
        /\ pending' \in [Entities -> Values \cup {NULL}]
        /\ \A e \in Entities : owner'[e] = NULL => pending'[e] = NULL
        /\ done' \in [Batches -> SUBSET Nat]
        /\ (done'[b] = {} \/ done'[b] = done[b])
        /\ \A c \in Batches : c # b => done'[c] = done[c]
    <3>1. done \in [Batches -> SUBSET Nat]
      BY <1>1 DEF GlobalOK
    <3>2. CASE aborts
      <4>1. done' = [done EXCEPT ![b] = {}]
        BY <3>2, <1>1, <1>4, RollbackLeaves
      <4>. QED  BY <4>1, <3>1, <3>2, <1>1, <1>4, RollbackLeaves
    <3>3. CASE ~ aborts
      BY <3>1, <3>3, <1>1, <1>4 DEF GlobalOK, database
    <3>. QED  BY <3>2, <3>3
  <2>2. /\ pc' = [pc EXCEPT ![b] = "commit"]
        /\ pc' \in [Batches -> Labels] /\ result' \in [Batches -> Seq(BOOLEAN)]
        /\ pc'[b] = "commit" /\ result'[b] = Append(result[b], FALSE)
        /\ \A c \in Batches : c # b => result'[c] = result[c]
    BY <1>1, <1>2, <1>4 DEF GlobalOK, Labels, Goto
  <2>3. GlobalOK'
    BY <2>1, <2>2, <1>1, <1>4 DEF GlobalOK, EventRecord
  <2>4. Alone(b)
    BY <2>1, <2>2, <1>1, <1>4 DEF Alone, GlobalOK
  <2>5. LogOK'
    BY <2>1, <2>2, <1>1, <1>4, LogIsLeft DEF GlobalOK
  <2>6. StageOK(b)'
    BY <2>1, <2>2, <1>1, <1>2, <1>4 DEF BatchOK, StageOK, Indices, Running
  <2>7. EventsOK(b)'
    <3>1. ~ Succeeded(b)' /\ ~ CanFail(b)'
      BY <2>2, <1>2, <1>4 DEF Succeeded, CanFail
    <3>2. 1..Len(result[b]) \subseteq 1..Len(result'[b])
      BY <2>2, <1>2
    <3>. QED  BY <3>1, <3>2, <1>1, <1>4 DEF BatchOK, EventsOK
  <2>8. RaiseOK(b)'
    BY <1>4 DEF RaiseOK
  <2>. QED  BY <2>3, <2>4, <2>5, <2>6, <2>7, <2>8, OneBatch DEF BatchOK
<1>5. CASE /\ mode[b] = "raise"
           /\ Rollback(b)
           /\ Goto(b, "done")
           /\ Answer(b, "error")
           /\ events' = [events EXCEPT ![b] = << >>]
           /\ UNCHANGED result
  <2>1. /\ UNCHANGED <<rows, applied>>
        /\ owner' \in [Entities -> Batches \cup {NULL}]
        /\ pending' \in [Entities -> Values \cup {NULL}]
        /\ \A e \in Entities : owner'[e] = NULL => pending'[e] = NULL
        /\ done' = [done EXCEPT ![b] = {}]
    BY <1>1, <1>5, RollbackLeaves
  <2>2. done' \in [Batches -> SUBSET Nat] /\ done'[b] = {}
        /\ \A c \in Batches : c # b => done'[c] = done[c]
    BY <2>1, <1>1 DEF GlobalOK
  <2>3. /\ pc' \in [Batches -> Labels] /\ pc'[b] = "done"
        /\ \A c \in Batches : c # b => pc'[c] = pc[c]
    BY <1>1, <1>5 DEF GlobalOK, Labels, Goto
  <2>4. /\ reply' \in [Batches -> {NULL, "ok", "failed", "error", "interrupted", "lost"}]
        /\ \A c \in Batches : c # b => reply'[c] = reply[c]
    BY <1>1, <1>5 DEF GlobalOK, Answer
  <2>5. /\ events' \in [Batches -> Seq(EventRecord)] /\ events'[b] = << >>
        /\ \A c \in Batches : c # b => events'[c] = events[c]
    BY <1>1, <1>5 DEF GlobalOK
  <2>6. GlobalOK'
    BY <2>1, <2>2, <2>3, <2>4, <2>5, <1>1, <1>5 DEF GlobalOK, EventRecord
  <2>7. Alone(b)
    BY <2>1, <2>2, <2>3, <2>4, <2>5, <1>5 DEF Alone
  <2>8. LogOK'
    BY <2>1, <2>3, LogIsLeft
  <2>9. StageOK(b)'
    BY <2>1, <2>2, <2>3, <1>1, <1>2, <1>5 DEF BatchOK, StageOK, Indices, Running
  <2>10. EventsOK(b)'
    BY <2>5 DEF EventsOK
  <2>11. RaiseOK(b)'
    BY <2>1, <2>3, <1>1, <1>5 DEF BatchOK, RaiseOK, Running
  <2>. QED  BY <2>6, <2>7, <2>8, <2>9, <2>10, <2>11, OneBatch DEF BatchOK
<1>. QED  BY <1>3, <1>4, <1>5 DEF Failure

\* The operations that fail.
LEMMA FailingInv ==
  ASSUME Inv, NEW b \in Batches, Reject(b) \/ Violate(b) \/ Victim(b)
  PROVE  Inv'
<1>. USE ScriptAssumption DEF ScriptAssumption
<1>1. loaded \in [Batches -> Values \cup {NULL}]
  BY DEF Inv, GlobalOK
<1>2. CASE Reject(b)
  BY <1>1, <1>2, FailureInv DEF Reject
<1>3. CASE Violate(b)
  BY <1>1, <1>3, FailureInv DEF Violate
<1>4. CASE Victim(b)
  <2>1. pc[b] = "write"
    BY <1>4 DEF Victim, Deadlocked, Blocked
  <2>. QED  BY <2>1, <1>1, <1>4, FailureInv DEF Victim
<1>. QED  BY <1>2, <1>3, <1>4

\* entity_class.load
LEMMA LoadInv ==
  ASSUME Inv, NEW b \in Batches, Load(b)
  PROVE  Inv'
<1>. USE ScriptAssumption DEF ScriptAssumption
<1>1. GlobalOK /\ BatchOK(b) /\ pc[b] = "op"
  BY DEF Inv, Load
<1>2. Len(result[b]) < Len(script[b]) /\ Current(b).entity \in Entities
  BY <1>1, Scripted DEF BatchOK, StageOK
<1>3. Visible(b, Current(b).entity) \in Values \cup {NULL}
  BY <1>1, <1>2 DEF Visible, GlobalOK
<1>4. CASE Failure(b, FALSE) /\ UNCHANGED loaded
  BY <1>1, <1>4, FailureInv DEF Load, GlobalOK
<1>5. CASE /\ loaded' = [loaded EXCEPT ![b] = Visible(b, Current(b).entity)]
           /\ pc' = [pc EXCEPT ![b] = "write"]
           /\ UNCHANGED <<database, done, result, events, reply>>
  <2>1. /\ loaded' \in [Batches -> Values \cup {NULL}]
        /\ pc' \in [Batches -> Labels]
        /\ pc'[b] = "write"
        /\ \A c \in Batches : c # b => pc'[c] = pc[c]
        /\ UNCHANGED <<script, mode, attempt, log, faults>>
    BY <1>1, <1>3, <1>5 DEF GlobalOK, Load, Labels
  <2>2. GlobalOK'
    BY <2>1, <1>1, <1>5 DEF GlobalOK, database, EventRecord
  <2>3. Alone(b)
    BY <2>1, <1>5 DEF Alone, database
  <2>4. LogOK'
    BY <2>1, <1>1, <1>5, LogIsLeft DEF database
  <2>5. StageOK(b)' /\ EventsOK(b)' /\ RaiseOK(b)'
    BY <2>1, <1>1, <1>2, <1>5
       DEF BatchOK, StageOK, EventsOK, RaiseOK, Indices, CanFail, Succeeded, Running,
           database
  <2>. QED  BY <2>2, <2>3, <2>4, <2>5, OneBatch DEF BatchOK
<1>. QED  BY <1>4, <1>5 DEF Load, Goto

\* ServiceUnavailableException
LEMMA BusyInv ==
  ASSUME Inv, NEW b \in Batches, Busy(b)
  PROVE  Inv'
<1>. USE ScriptAssumption DEF ScriptAssumption
<1>1. GlobalOK /\ BatchOK(b) /\ pc[b] = "op"
  BY DEF Inv, Busy
<1>2. /\ UNCHANGED <<rows, applied>>
      /\ owner' \in [Entities -> Batches \cup {NULL}]
      /\ pending' \in [Entities -> Values \cup {NULL}]
      /\ \A e \in Entities : owner'[e] = NULL => pending'[e] = NULL
      /\ done' = [done EXCEPT ![b] = {}]
  BY <1>1, RollbackLeaves DEF Busy
<1>3. /\ UNCHANGED <<script, mode, loaded, log>>
      /\ events' = [events EXCEPT ![b] = << >>]
      /\ faults' = [faults EXCEPT !.busy = @ + 1] /\ faults.busy < MaxBusy
      /\ \/ /\ pc' = [pc EXCEPT ![b] = "done"]
            /\ reply' = [reply EXCEPT ![b] = "error"]
            /\ UNCHANGED <<attempt, result>>
         \/ /\ attempt[b] # MaxTries /\ attempt' = [attempt EXCEPT ![b] = @ + 1]
            /\ result' = [result EXCEPT ![b] = << >>]
            /\ UNCHANGED <<pc, reply>>
  BY DEF Busy, Goto, Answer
<1>4. done' \in [Batches -> SUBSET Nat] /\ done'[b] = {}
      /\ \A c \in Batches : c # b => done'[c] = done[c]
  BY <1>1, <1>2 DEF GlobalOK
<1>5. /\ pc' \in [Batches -> Labels] /\ (pc'[b] = "done" \/ pc'[b] = "op")
      /\ \A c \in Batches : c # b => pc'[c] = pc[c]
  BY <1>1, <1>3 DEF GlobalOK, Labels
<1>6. /\ reply' \in [Batches -> {NULL, "ok", "failed", "error", "interrupted", "lost"}]
      /\ (pc'[b] = "op" => reply'[b] = reply[b])
      /\ \A c \in Batches : c # b => reply'[c] = reply[c]
  BY <1>1, <1>3 DEF GlobalOK
<1>7. /\ events' \in [Batches -> Seq(EventRecord)] /\ events'[b] = << >>
      /\ \A c \in Batches : c # b => events'[c] = events[c]
  BY <1>1, <1>3 DEF GlobalOK
<1>8. /\ result' \in [Batches -> Seq(BOOLEAN)]
      /\ (result'[b] = result[b] \/ result'[b] = << >>)
      /\ (pc'[b] = "op" => result'[b] = << >>)
      /\ \A c \in Batches : c # b => result'[c] = result[c]
  <2>1. result \in [Batches -> Seq(BOOLEAN)] /\ << >> \in Seq(BOOLEAN)
    BY <1>1 DEF GlobalOK
  <2>2. pc[b] # "done" /\ pc \in [Batches -> Labels]
    BY <1>1 DEF GlobalOK
  <2>3. CASE pc' = [pc EXCEPT ![b] = "done"] /\ result' = result
    BY <2>1, <2>2, <2>3
  <2>4. CASE result' = [result EXCEPT ![b] = << >>]
    BY <2>1, <2>4
  <2>. QED  BY <2>3, <2>4, <1>3
<1>9. attempt' \in [Batches -> 0..MaxTries]
  <2>1. attempt \in [Batches -> 0..MaxTries]
    BY <1>1 DEF GlobalOK
  <2>2. attempt[b] # MaxTries => attempt[b] + 1 \in 0..MaxTries
    BY <2>1 DEF MaxTries
  <2>. QED  BY <2>1, <2>2, <1>3
<1>10. faults' \in [busy : 0..MaxBusy, outages : 0..MaxOutages, crashes : 0..MaxCrashes]
  <2>1. faults \in [busy : 0..MaxBusy, outages : 0..MaxOutages, crashes : 0..MaxCrashes]
    BY <1>1 DEF GlobalOK
  <2>. QED  BY <2>1, <1>3
<1>11. GlobalOK'
  BY <1>1, <1>2, <1>3, <1>4, <1>5, <1>6, <1>7, <1>8, <1>9, <1>10
     DEF GlobalOK, EventRecord, MaxTries
<1>12. Alone(b)
  BY <1>2, <1>3, <1>4, <1>5, <1>6, <1>7, <1>8 DEF Alone
<1>13. LogOK'
  BY <1>1, <1>2, <1>3, <1>5, LogIsLeft
<1>14. /\ Indices(b)' = Indices(b) /\ Len(result'[b]) <= Len(script[b])
       /\ (pc'[b] = "op" => Len(result'[b]) < Len(script[b]))
       /\ (pc'[b] = "op" => Succeeded(b)')
       /\ (pc'[b] = "op" => done'[b] = 1..Len(result'[b]))
  <2>1. /\ Len(result[b]) < Len(script[b]) /\ Len(result[b]) \in Nat
        /\ Len(script[b]) \in Nat
    BY <1>1, Scripted DEF BatchOK, StageOK
  <2>2. Len(<< >>) = 0 /\ DOMAIN << >> = {}
    OBVIOUS
  <2>. QED  BY <2>1, <2>2, <1>3, <1>4, <1>8 DEF Indices, Succeeded
<1>15. StageOK(b)'
  <2>1. StageOK(b)
    BY <1>1 DEF BatchOK
  <2>2. reply[b] = NULL
    BY <2>1, <1>1 DEF StageOK, Running
  <2>. QED  BY <2>1, <2>2, <1>2, <1>3, <1>4, <1>5, <1>6, <1>14 DEF StageOK, Running
<1>16. EventsOK(b)'
  BY <1>7 DEF EventsOK
<1>17. RaiseOK(b)'
  BY <1>1, <1>2, <1>3, <1>5, <1>14 DEF BatchOK, RaiseOK, Running
<1>. QED  BY <1>11, <1>12, <1>13, <1>15, <1>16, <1>17, OneBatch DEF BatchOK

\* What Append adds to the list of results.
LEMMA AppendTrue ==
  ASSUME NEW q \in Seq(BOOLEAN)
  PROVE  /\ Append(q, TRUE) \in Seq(BOOLEAN)
         /\ Len(Append(q, TRUE)) = Len(q) + 1
         /\ \A n \in 1..Len(q) : Append(q, TRUE)[n] = q[n]
         /\ Append(q, TRUE)[Len(q) + 1] = TRUE
<1>1. PICK S, elt : S = BOOLEAN /\ elt = TRUE
  OBVIOUS
<1>2. q \in Seq(S) /\ elt \in S
  BY <1>1
<1>3. /\ Append(q, elt) \in Seq(S) /\ Len(Append(q, elt)) = Len(q) + 1
      /\ \A n \in 1..Len(q) : Append(q, elt)[n] = q[n]
      /\ Append(q, elt)[Len(q) + 1] = elt
  BY <1>2
<1>. QED  BY <1>1, <1>3

\* The statement is executed: committed at once, or in the transaction.
LEMMA WriteInv ==
  ASSUME Inv, NEW b \in Batches, Write(b)
  PROVE  Inv'
<1>. USE ScriptAssumption DEF ScriptAssumption
<1>1. GlobalOK /\ BatchOK(b) /\ pc[b] = "write" /\ LogOK
  BY DEF Inv, Write
<1>2. PICK i : i = Len(result[b]) + 1
  OBVIOUS
<1>3. /\ result[b] \in Seq(BOOLEAN) /\ Len(result[b]) \in Nat
      /\ Len(result[b]) < Len(script[b]) /\ Len(script[b]) \in Nat
      /\ Indices(b) = 1..Len(script[b]) /\ i \in Indices(b) /\ i \in Nat
      /\ Current(b).entity \in Entities /\ Current(b).value \in Values
      /\ b # NULL
  <2>1. Len(result[b]) < Len(script[b])
    BY <1>1 DEF BatchOK, StageOK
  <2>2. result[b] \in Seq(BOOLEAN)
    BY <1>1 DEF GlobalOK
  <2>. QED  BY <2>1, <2>2, <1>1, <1>2, Scripted
<1>4. /\ Append(result[b], TRUE) \in Seq(BOOLEAN)
      /\ Len(Append(result[b], TRUE)) = i
      /\ \A n \in 1..Len(result[b]) : Append(result[b], TRUE)[n] = result[b][n]
      /\ Append(result[b], TRUE)[i] = TRUE
  <2>1. result[b] \in Seq(BOOLEAN)
    BY <1>3
  <2>2. /\ Append(result[b], TRUE) \in Seq(BOOLEAN)
        /\ Len(Append(result[b], TRUE)) = Len(result[b]) + 1
        /\ \A n \in 1..Len(result[b]) : Append(result[b], TRUE)[n] = result[b][n]
        /\ Append(result[b], TRUE)[Len(result[b]) + 1] = TRUE
    BY <2>1, AppendTrue
  <2>. QED  BY <2>2, <1>2, Zenon
<1>5. PICK row \in Values \cup {NULL} :
        row = IF Current(b).type = "delete" THEN NULL ELSE Current(b).value
  BY <1>3
<1>6. /\ Execute(b)
      /\ events' = [events EXCEPT ![b] = events[b] \o NewEvents(b)]
      /\ loaded' = [loaded EXCEPT ![b] = NULL]
      /\ result' = [result EXCEPT ![b] = Append(result[b], TRUE)]
      /\ UNCHANGED <<script, mode, attempt, reply, log, faults>>
  BY DEF Write, Advance
<1>7. PICK l \in {"op", "commit"} :
        /\ pc' = [pc EXCEPT ![b] = l]
        /\ l = "op" <=> i # Len(script[b])
  BY <1>2 DEF Write, Advance, Goto
<1>8. pc' \in [Batches -> Labels] /\ pc'[b] = l
      /\ \A c \in Batches : c # b => pc'[c] = pc[c]
  BY <1>1, <1>7 DEF GlobalOK, Labels
<1>9. result' \in [Batches -> Seq(BOOLEAN)] /\ result'[b] = Append(result[b], TRUE)
      /\ \A c \in Batches : c # b => result'[c] = result[c]
  <2>1. result \in [Batches -> Seq(BOOLEAN)]
    BY <1>1 DEF GlobalOK
  <2>. QED  BY <2>1, <1>4, <1>6
<1>10. /\ rows' \in [Entities -> Values \cup {NULL}]
       /\ owner' \in [Entities -> Batches \cup {NULL}]
       /\ pending' \in [Entities -> Values \cup {NULL}]
       /\ \A e \in Entities : owner'[e] = NULL => pending'[e] = NULL
  <2>1. /\ rows \in [Entities -> Values \cup {NULL}]
        /\ owner \in [Entities -> Batches \cup {NULL}]
        /\ pending \in [Entities -> Values \cup {NULL}]
        /\ \A e \in Entities : owner[e] = NULL => pending[e] = NULL
    BY <1>1 DEF GlobalOK
  <2>2. /\ rows' = rows \/ rows' = [rows EXCEPT ![Current(b).entity] = row]
        /\ \/ UNCHANGED <<owner, pending>>
           \/ /\ owner' = [owner EXCEPT ![Current(b).entity] = b]
              /\ pending' = [pending EXCEPT ![Current(b).entity] = row]
    BY <1>5, <1>6 DEF Execute
  <2>. QED  BY <2>1, <2>2, <1>3, <1>5
<1>11. /\ done' \in [Batches -> SUBSET Nat]
       /\ \A c \in Batches : c # b => done'[c] = done[c]
       /\ \/ CanFail(b) /\ done'[b] = done[b] /\ applied' = applied \cup {<<b, i>>}
          \/ ~ CanFail(b) /\ done'[b] = done[b] \cup {i} /\ applied' = applied
  <2>1. done \in [Batches -> SUBSET Nat]
    BY <1>1 DEF GlobalOK
  <2>2. \/ /\ CanFail(b) /\ done' = done /\ applied' = applied \cup {<<b, i>>}
        \/ /\ ~ CanFail(b) /\ done' = [done EXCEPT ![b] = @ \cup {i}]
           /\ applied' = applied
    BY <1>2, <1>6 DEF Execute
  <2>. QED  BY <2>1, <2>2, <1>3
<1>12. PICK ev \in EventRecord :
        /\ ev.batch = b /\ ev.op = i
        /\ events'[b] = events[b] \/ events'[b] = Append(events[b], ev)
        /\ events' \in [Batches -> Seq(EventRecord)]
        /\ \A c \in Batches : c # b => events'[c] = events[c]
  <2>1. PICK ev : ev = Event(b, i)
    OBVIOUS
  <2>2. ev \in EventRecord /\ ev.batch = b /\ ev.op = i
    BY <2>1, <1>3 DEF Event, EventRecord
  <2>3. events[b] \in Seq(EventRecord) /\ events \in [Batches -> Seq(EventRecord)]
    BY <1>1 DEF GlobalOK
  <2>4. NewEvents(b) = << >> \/ NewEvents(b) = <<ev>>
    BY <2>1, <1>2 DEF NewEvents
  <2>5. events[b] \o NewEvents(b) = events[b]
        \/ events[b] \o NewEvents(b) = Append(events[b], ev)
    <3>1. /\ events[b] \o <<ev>> = Append(events[b], ev)
          /\ events[b] \o << >> = events[b]
      BY <2>2, <2>3, Added
    <3>. QED  BY <3>1, <2>4
  <2>6. Append(events[b], ev) \in Seq(EventRecord)
    BY <2>2, <2>3, Added
  <2>. QED  BY <2>2, <2>3, <2>5, <2>6, <1>6
<1>13. GlobalOK'
  <2>1. loaded' \in [Batches -> Values \cup {NULL}]
    BY <1>1, <1>6 DEF GlobalOK
  <2>2. applied' \subseteq Batches \X Nat
    BY <1>1, <1>3, <1>11 DEF GlobalOK
  <2>. QED  BY <2>1, <2>2, <1>1, <1>6, <1>8, <1>9, <1>10, <1>11, <1>12
            DEF GlobalOK, EventRecord
<1>14. Alone(b)
  BY <1>6, <1>8, <1>9, <1>11, <1>12 DEF Alone
<1>15. LogOK'
  <2>1. \A c \in Batches : pc[c] \in {"dispatch", "done"} =>
                             pc'[c] \in {"dispatch", "done"}
    BY <1>1, <1>8
  <2>. QED  BY <2>1, <1>6, <1>11, LogIsLeft
<1>16. /\ Len(result'[b]) = i /\ Len(result[b]) < i
       /\ 1..Len(result'[b]) = 1..Len(result[b]) \cup {i}
       /\ (Succeeded(b)' <=> Succeeded(b))
  <2>1. Len(result'[b]) = i /\ DOMAIN result'[b] = 1..i
        /\ DOMAIN result[b] = 1..Len(result[b])
    BY <1>3, <1>4, <1>9
  <2>2. 1..i = 1..Len(result[b]) \cup {i} /\ Len(result[b]) < i
    BY <1>2, <1>3
  <2>3. \A n \in 1..Len(result[b]) : result'[b][n] = result[b][n]
    BY <1>4, <1>9
  <2>4. result'[b][i] = TRUE
    BY <1>4, <1>9
  <2>5. (\A n \in 1..i : result'[b][n]) <=> (\A n \in 1..Len(result[b]) : result[b][n])
    BY <2>2, <2>3, <2>4, Zenon
  <2>. QED  BY <2>1, <2>2, <2>5 DEF Succeeded
<1>17. Indices(b)' = Indices(b) /\ (CanFail(b)' <=> CanFail(b))
  BY <1>6 DEF Indices, CanFail
<1>18. StageOK(b)'
  <2>1. StageOK(b)
    BY <1>1 DEF BatchOK
  <2>2. Len(result'[b]) <= Len(script[b])
        /\ (l = "op" => Len(result'[b]) < Len(script[b]))
    BY <1>2, <1>3, <1>7, <1>16
  <2>3. done'[b] \subseteq Indices(b)
    BY <2>1, <1>3, <1>11 DEF StageOK
  <2>4. \A n \in Nat : <<b, n>> \in applied' => n \in Indices(b)
    BY <2>1, <1>3, <1>11 DEF StageOK
  <2>5. reply[b] = NULL
    BY <2>1, <1>1 DEF StageOK, Running
  <2>. QED  BY <2>2, <2>3, <2>4, <2>5, <1>6, <1>8, <1>17 DEF StageOK
<1>19. EventsOK(b)'
  <2>1. EventsOK(b) /\ events[b] \in Seq(EventRecord)
    BY <1>1 DEF BatchOK, GlobalOK
  <2>2. \A k \in DOMAIN log : log[k].batch # b
    BY <1>1, EventsTyped DEF LogOK
  <2>3. ASSUME NEW n \in DOMAIN events[b]
        PROVE  /\ events[b][n] # ev
               /\ events[b][n].batch = b
               /\ events[b][n].op \in 1..Len(result'[b])
               /\ CanFail(b) \/ Succeeded(b) =>
                    events[b][n].op \in done'[b] \/ <<b, events[b][n].op>> \in applied'
               /\ \A k \in DOMAIN log : log[k] # events[b][n]
    <3>1. events[b][n].op \in 1..Len(result[b])
      BY <2>1 DEF EventsOK
    <3>2. events[b][n].op # i
      BY <3>1, <1>2, <1>3
    <3>. QED  BY <3>1, <3>2, <2>1, <1>11, <1>12, <1>16 DEF EventsOK
  <2>4. /\ ev.op \in 1..Len(result'[b])
        /\ CanFail(b) \/ Succeeded(b) => ev.op \in done'[b] \/ <<b, ev.op>> \in applied'
        /\ \A k \in DOMAIN log : log[k] # ev
    BY <2>2, <1>11, <1>12, <1>16
  <2>5. CASE events'[b] = events[b]
    <3>1. \A n, m \in DOMAIN events'[b] : events'[b][n] = events'[b][m] => n = m
      BY <2>1, <2>5 DEF EventsOK
    <3>2. \A n \in DOMAIN events'[b] :
            /\ events'[b][n].batch = b
            /\ events'[b][n].op \in 1..Len(result'[b])
            /\ CanFail(b) \/ Succeeded(b) =>
                 \/ events'[b][n].op \in done'[b]
                 \/ <<b, events'[b][n].op>> \in applied'
            /\ \A k \in DOMAIN log : log[k] # events'[b][n]
      BY <2>3, <2>5
    <3>. QED  BY <3>1, <3>2, <1>6, <1>16, <1>17 DEF EventsOK
  <2>6. CASE events'[b] = Append(events[b], ev)
    <3>1. \A n \in DOMAIN events'[b] :
            \/ n = Len(events[b]) + 1 /\ events'[b][n] = ev
            \/ n \in DOMAIN events[b] /\ events'[b][n] = events[b][n]
      BY <2>1, <2>6, Added
    <3>2. \A n, m \in DOMAIN events'[b] : events'[b][n] = events'[b][m] => n = m
      BY <3>1, <2>1, <2>3 DEF EventsOK
    <3>3. ASSUME NEW n \in DOMAIN events'[b]
          PROVE  /\ events'[b][n].batch = b
                 /\ events'[b][n].op \in 1..Len(result'[b])
                 /\ CanFail(b) \/ Succeeded(b) =>
                      \/ events'[b][n].op \in done'[b]
                      \/ <<b, events'[b][n].op>> \in applied'
                 /\ \A k \in DOMAIN log : log[k] # events'[b][n]
      BY <3>1, <2>3, <2>4, <1>12
    <3>. QED  BY <3>2, <3>3, <1>6, <1>16, <1>17 DEF EventsOK
  <2>. QED  BY <2>5, <2>6, <1>12
<1>20. RaiseOK(b)'
  <2>. SUFFICES ASSUME mode[b] = "raise"
                PROVE  /\ l = "commit" => Len(result'[b]) = Len(script[b])
                       /\ done'[b] = 1..Len(result'[b])
                       /\ Succeeded(b)'
                       /\ \A n \in Nat : <<b, n>> \notin applied'
    BY <1>6, <1>7, <1>8 DEF RaiseOK
  <2>1. /\ done[b] = 1..Len(result[b]) /\ Succeeded(b)
        /\ \A n \in Nat : <<b, n>> \notin applied
    BY <1>1 DEF BatchOK, RaiseOK, Running
  <2>2. ~ CanFail(b)
    BY DEF CanFail
  <2>. QED  BY <2>1, <2>2, <1>7, <1>11, <1>16
<1>. QED  BY <1>13, <1>14, <1>15, <1>18, <1>19, <1>20, OneBatch DEF BatchOK

\* The transaction is committed.
LEMMA FinishInv ==
  ASSUME Inv, NEW b \in Batches, Finish(b)
  PROVE  Inv'
<1>. USE ScriptAssumption DEF ScriptAssumption
<1>1. GlobalOK /\ BatchOK(b) /\ pc[b] = "commit"
  BY DEF Inv, Finish
<1>2. PICK kept : kept = IF CanFail(b) \/ Succeeded(b) THEN events[b] ELSE << >>
  OBVIOUS
<1>3. /\ rows' = [e \in Entities |-> IF owner[e] = b THEN pending[e] ELSE rows[e]]
      /\ applied' = applied \cup ({b} \X done[b])
      /\ Release(b)
      /\ events' = [events EXCEPT ![b] = kept]
      /\ pc' = [pc EXCEPT ![b] = IF kept = << >> THEN "done" ELSE "dispatch"]
      /\ UNCHANGED <<script, mode, attempt, loaded, result, log, faults>>
      /\ \/ reply' = [reply EXCEPT ![b] = Outcome(b)]
         \/ kept # << >> /\ UNCHANGED reply
  BY <1>2 DEF Finish, Goto, Answer
<1>4. /\ rows' \in [Entities -> Values \cup {NULL}]
      /\ owner' \in [Entities -> Batches \cup {NULL}]
      /\ pending' \in [Entities -> Values \cup {NULL}]
      /\ \A e \in Entities : owner'[e] = NULL => pending'[e] = NULL
  <2>1. /\ rows \in [Entities -> Values \cup {NULL}]
        /\ owner \in [Entities -> Batches \cup {NULL}]
        /\ pending \in [Entities -> Values \cup {NULL}]
        /\ \A e \in Entities : owner[e] = NULL => pending[e] = NULL
    BY <1>1 DEF GlobalOK
  <2>. QED  BY <2>1, <1>3 DEF Release
<1>5. done' \in [Batches -> SUBSET Nat] /\ done'[b] = {} /\ done[b] \subseteq Nat
      /\ \A c \in Batches : c # b => done'[c] = done[c]
  BY <1>1, <1>3 DEF GlobalOK, Release
<1>6. /\ pc' \in [Batches -> Labels]
      /\ pc'[b] = (IF kept = << >> THEN "done" ELSE "dispatch")
      /\ \A c \in Batches : c # b => pc'[c] = pc[c]
  <2>1. pc \in [Batches -> Labels]
    BY <1>1 DEF GlobalOK
  <2>. QED  BY <2>1, <1>3 DEF Labels
<1>7. /\ kept \in Seq(EventRecord) /\ events' \in [Batches -> Seq(EventRecord)]
      /\ events'[b] = kept
      /\ \A c \in Batches : c # b => events'[c] = events[c]
  <2>1. events \in [Batches -> Seq(EventRecord)]
    BY <1>1 DEF GlobalOK
  <2>2. kept \in Seq(EventRecord)
    BY <2>1, <1>2
  <2>. QED  BY <2>1, <2>2, <1>3
<1>8. /\ reply' \in [Batches -> {NULL, "ok", "failed", "error", "interrupted", "lost"}]
      /\ \A c \in Batches : c # b => reply'[c] = reply[c]
      /\ (reply'[b] = Outcome(b) \/ reply'[b] = reply[b])
  BY <1>1, <1>3 DEF GlobalOK, Outcome
<1>9. /\ applied' \subseteq Batches \X Nat /\ applied \subseteq applied'
      /\ \A i \in Nat : <<b, i>> \in applied' <=> <<b, i>> \in applied \/ i \in done[b]
      /\ \A c \in Batches : c # b =>
           \A i \in Nat : <<c, i>> \in applied' <=> <<c, i>> \in applied
  BY <1>1, <1>3, <1>5 DEF GlobalOK
<1>10. GlobalOK'
  BY <1>1, <1>3, <1>4, <1>5, <1>6, <1>7, <1>8, <1>9 DEF GlobalOK, EventRecord
<1>11. Alone(b)
  BY <1>3, <1>5, <1>6, <1>7, <1>8, <1>9 DEF Alone
<1>12. LogOK'
  <2>1. \A c \in Batches : pc[c] \in {"dispatch", "done"} =>
                             pc'[c] \in {"dispatch", "done"}
    BY <1>1, <1>6
  <2>. QED  BY <2>1, <1>3, <1>9, LogIsLeft
<1>13. Indices(b)' = Indices(b) /\ (CanFail(b)' <=> CanFail(b))
       /\ (Succeeded(b)' <=> Succeeded(b))
  BY <1>3 DEF Indices, CanFail, Succeeded
<1>14. StageOK(b)'
  <2>1. kept # << >> => CanFail(b) \/ Succeeded(b)
    BY <1>2
  <2>2. StageOK(b)
    BY <1>1 DEF BatchOK
  <2>. QED  BY <2>1, <2>2, <1>3, <1>5, <1>6, <1>7, <1>9, <1>13 DEF StageOK, Running
<1>15. EventsOK(b)'
  <2>1. CASE kept = << >>
    BY <2>1, <1>7 DEF EventsOK
  <2>2. CASE kept # << >>
    <3>1. (CanFail(b) \/ Succeeded(b)) /\ events'[b] = events[b] /\ EventsOK(b)
      BY <2>2, <1>1, <1>2, <1>7 DEF BatchOK
    <3>2. \A n \in DOMAIN events[b] : events[b][n].op \in Nat
      BY <1>1, EventsTyped
    <3>. QED  BY <3>1, <3>2, <1>3, <1>9, <1>13 DEF EventsOK
  <2>. QED  BY <2>1, <2>2
<1>16. RaiseOK(b)'
  <2>. SUFFICES ASSUME mode[b] = "raise"
                PROVE  /\ \A i \in Indices(b) : <<b, i>> \in applied'
                       /\ reply'[b] \in {NULL, "ok"}
    BY <1>3, <1>6, <1>13 DEF RaiseOK, Running
  <2>1. /\ done[b] = 1..Len(result[b]) /\ Succeeded(b)
        /\ Len(result[b]) = Len(script[b]) /\ reply[b] = NULL
    BY <1>1 DEF BatchOK, RaiseOK, StageOK, Running
  <2>2. done[b] = Indices(b) /\ Indices(b) \subseteq Nat
    BY <2>1, <1>1, Scripted
  <2>. QED  BY <2>1, <2>2, <1>8, <1>9 DEF Outcome
<1>. QED  BY <1>10, <1>11, <1>12, <1>14, <1>15, <1>16, OneBatch DEF BatchOK

\* An event is dispatched, or dispatching raises.
LEMMA DispatchInv ==
  ASSUME Inv, NEW b \in Batches, Dispatch(b) \/ Outage(b)
  PROVE  Inv'
<1>. USE ScriptAssumption DEF ScriptAssumption
<1>1. GlobalOK /\ BatchOK(b) /\ LogOK /\ pc[b] = "dispatch"
  BY DEF Inv, Dispatch, Outage
<1>2. /\ UNCHANGED <<script, mode, database, attempt, loaded, done, result>>
      /\ faults' \in [busy : 0..MaxBusy, outages : 0..MaxOutages, crashes : 0..MaxCrashes]
  <2>1. faults \in [busy : 0..MaxBusy, outages : 0..MaxOutages, crashes : 0..MaxCrashes]
    BY <1>1 DEF GlobalOK
  <2>2. CASE Dispatch(b)
    BY <2>1, <2>2 DEF Dispatch
  <2>3. CASE Outage(b)
    BY <2>1, <2>3 DEF Outage
  <2>. QED  BY <2>2, <2>3
<1>3. PICK l \in {"dispatch", "done"} :
        /\ l = "dispatch" => Dispatch(b) /\ Len(events[b]) # 1
        /\ pc' = [pc EXCEPT ![b] = l] \/ (l = "dispatch" /\ UNCHANGED pc)
        /\ \/ UNCHANGED reply
           \/ reply' = [reply EXCEPT ![b] = Outcome(b)]
           \/ reply' = [reply EXCEPT ![b] = "interrupted"] /\ l = "done"
           \/ reply' = [reply EXCEPT ![b] = reply[b]]
  <2>1. CASE Dispatch(b)
    <3>1. CASE Len(events[b]) = 1
      BY <2>1, <3>1 DEF Dispatch, Goto, Answer
    <3>2. CASE Len(events[b]) # 1
      BY <2>1, <3>2 DEF Dispatch, Goto, Answer
    <3>. QED  BY <3>1, <3>2
  <2>2. CASE Outage(b)
    <3>1. CASE reply[b] = NULL
      <4>1. PICK r \in {"interrupted", Outcome(b)} : reply' = [reply EXCEPT ![b] = r]
        BY <2>2, <3>1 DEF Outage, Answer
      <4>. QED  BY <2>2, <4>1 DEF Outage, Goto
    <3>2. CASE reply[b] # NULL
      BY <2>2, <3>2 DEF Outage, Goto, Answer
    <3>. QED  BY <3>1, <3>2
  <2>. QED  BY <2>1, <2>2
<1>4. /\ pc' \in [Batches -> Labels] /\ pc'[b] = l
      /\ \A c \in Batches : c # b => pc'[c] = pc[c]
  <2>1. pc \in [Batches -> Labels]
    BY <1>1 DEF GlobalOK
  <2>. QED  BY <2>1, <1>1, <1>3 DEF Labels
<1>5. /\ reply' \in [Batches -> {NULL, "ok", "failed", "error", "interrupted", "lost"}]
      /\ \A c \in Batches : c # b => reply'[c] = reply[c]
      /\ reply'[b] \in {reply[b], Outcome(b)} \/ l = "done"
  <2>1. reply \in [Batches -> {NULL, "ok", "failed", "error", "interrupted", "lost"}]
    BY <1>1 DEF GlobalOK
  <2>2. Outcome(b) \in {"ok", "failed"}
    BY DEF Outcome
  <2>. QED  BY <2>1, <2>2, <1>3
<1>6. /\ Indices(b)' = Indices(b) /\ (CanFail(b)' <=> CanFail(b))
      /\ (Succeeded(b)' <=> Succeeded(b))
  BY <1>2 DEF Indices, CanFail, Succeeded
<1>7. ASSUME l = "dispatch" => events'[b] # << >>
      PROVE  StageOK(b)'
  <2>1. StageOK(b)
    BY <1>1 DEF BatchOK
  <2>. QED  BY <2>1, <1>1, <1>2, <1>4, <1>6, <1>7 DEF StageOK, database, Running
<1>8. RaiseOK(b)'
  <2>. SUFFICES ASSUME mode[b] = "raise"
                PROVE  /\ \A i \in Indices(b) : <<b, i>> \in applied'
                       /\ l = "dispatch" => reply'[b] \in {NULL, "ok"}
    BY <1>2, <1>4, <1>6 DEF RaiseOK, Running
  <2>1. /\ \A i \in Indices(b) : <<b, i>> \in applied
        /\ reply[b] \in {NULL, "ok"}
    BY <1>1 DEF BatchOK, RaiseOK
  <2>2. Succeeded(b)
    BY <1>1 DEF BatchOK, StageOK, CanFail
  <2>. QED  BY <2>1, <2>2, <1>2, <1>5 DEF database, Outcome
<1>9. CASE Outage(b)
  <2>1. events' = [events EXCEPT ![b] = << >>] /\ log' = log
    BY <1>9 DEF Outage
  <2>2. /\ events' \in [Batches -> Seq(EventRecord)] /\ events'[b] = << >>
        /\ \A c \in Batches : c # b => events'[c] = events[c]
    BY <2>1, <1>1 DEF GlobalOK
  <2>3. GlobalOK'
    BY <2>1, <2>2, <1>1, <1>2, <1>4, <1>5 DEF GlobalOK, EventRecord, database
  <2>4. Alone(b)
    BY <2>1, <2>2, <1>2, <1>4, <1>5 DEF Alone, database
  <2>5. LogOK'
    BY <2>1, <1>1, <1>2, <1>4, LogIsLeft DEF database
  <2>6. EventsOK(b)'
    BY <2>2 DEF EventsOK
  <2>7. l = "dispatch" => Dispatch(b)
    BY <1>3
  <2>8. ~ Dispatch(b)
    <3>1. Dispatch(b) => faults' = faults
      BY DEF Dispatch
    <3>2. faults'.outages = faults.outages + 1 /\ faults.outages \in Nat
      BY <1>1, <1>9 DEF Outage, GlobalOK
    <3>. QED  BY <3>1, <3>2
  <2>. QED  BY <2>3, <2>4, <2>5, <2>6, <2>7, <2>8, <1>7, <1>8, OneBatch DEF BatchOK
<1>10. CASE Dispatch(b)
  <2>1. PICK s \in Seq(EventRecord) : s = events[b]
    BY <1>1 DEF GlobalOK
  <2>2. events' = [events EXCEPT ![b] = Tail(s)] /\ log' = Append(log, Head(s))
    BY <1>10, <2>1 DEF Dispatch
  <2>3. /\ s # << >> /\ Len(s) \in Nat /\ DOMAIN s = 1..Len(s) /\ 1 \in DOMAIN s
        /\ Head(s) = s[1] /\ Head(s) \in EventRecord /\ Tail(s) \in Seq(EventRecord)
        /\ DOMAIN Tail(s) = 1..(Len(s) - 1)
        /\ \A i \in DOMAIN Tail(s) : i + 1 \in DOMAIN s /\ Tail(s)[i] = s[i + 1]
        /\ Len(s) # 1 => Tail(s) # << >>
    <3>1. s # << >>
      BY <1>1, <2>1 DEF BatchOK, StageOK
    <3>2. /\ Tail(s) \in Seq(EventRecord) /\ Len(Tail(s)) = Len(s) - 1
          /\ \A i \in 1..Len(Tail(s)) : Tail(s)[i] = s[i + 1]
          /\ Head(s) \in EventRecord /\ Head(s) = s[1]
      BY <3>1, HeadTailProperties
    <3>3. Len(s) \in Nat /\ Len(s) # 0 /\ DOMAIN s = 1..Len(s)
      BY <3>1
    <3>4. DOMAIN Tail(s) = 1..(Len(s) - 1)
      BY <3>2
    <3>5. Len(s) # 1 => Len(Tail(s)) # 0
      BY <3>2, <3>3
    <3>6. Len(s) # 1 => Tail(s) # << >>
      BY <3>5
    <3>7. \A i \in 1..(Len(s) - 1) : i + 1 \in 1..Len(s)
      BY <3>3
    <3>. QED  BY <3>1, <3>2, <3>3, <3>4, <3>6, <3>7
  <2>4. PICK ev \in EventRecord : ev = Head(s)
    BY <2>3
  <2>5. /\ events' \in [Batches -> Seq(EventRecord)] /\ events'[b] = Tail(s)
        /\ \A c \in Batches : c # b => events'[c] = events[c]
    BY <2>2, <2>3, <1>1 DEF GlobalOK
  <2>6. log \in Seq(EventRecord) /\ log' = Append(log, ev) /\ log' \in Seq(EventRecord)
    BY <2>2, <2>4, <1>1, Added DEF GlobalOK
  <2>7. GlobalOK'
    BY <2>5, <2>6, <1>1, <1>2, <1>4, <1>5 DEF GlobalOK, EventRecord, database
  <2>8. /\ ev.batch = b /\ ev.op \in Nat
        /\ \A k \in DOMAIN log : log[k] # ev
        /\ <<b, ev.op>> \in applied
    <3>1. EventsOK(b) /\ StageOK(b) /\ ev.op \in Nat
      BY <1>1, <2>4 DEF BatchOK, EventRecord
    <3>2. done[b] = {} /\ (CanFail(b) \/ Succeeded(b))
      BY <3>1, <1>1 DEF StageOK
    <3>3. ev = events[b][1] /\ 1 \in DOMAIN events[b]
      BY <2>1, <2>3, <2>4
    <3>. QED  BY <3>1, <3>2, <3>3 DEF EventsOK
  <2>9. Alone(b)
    BY <2>5, <2>6, <2>8, <1>2, <1>4, <1>5 DEF Alone, database
  <2>10. EventsOK(b)'
    <3>1. EventsOK(b) /\ (\A n \in DOMAIN s : s[n].op \in Nat)
      BY <1>1, <2>1, EventsTyped DEF BatchOK
    <3>2. ASSUME NEW n \in DOMAIN Tail(s)
          PROVE  /\ n + 1 \in DOMAIN s /\ Tail(s)[n] = s[n + 1] /\ s[n + 1] # ev
      <4>1. n + 1 \in DOMAIN s /\ Tail(s)[n] = s[n + 1] /\ n + 1 # 1 /\ 1 \in DOMAIN s
        BY <2>3
      <4>. QED  BY <4>1, <3>1, <2>1, <2>3, <2>4 DEF EventsOK
    <3>3. \A k \in DOMAIN log' : log'[k] = ev \/ (k \in DOMAIN log /\ log'[k] = log[k])
      BY <2>6, Added
    <3>4. \A n, m \in DOMAIN Tail(s) : Tail(s)[n] = Tail(s)[m] => n = m
      <4>1. \A n, m \in DOMAIN s : s[n] = s[m] => n = m
        BY <3>1, <2>1 DEF EventsOK
      <4>. QED  BY <4>1, <3>2, <2>3
    <3>5. ASSUME NEW n \in DOMAIN Tail(s)
          PROVE  /\ Tail(s)[n].batch = b
                 /\ Tail(s)[n].op \in 1..Len(result[b])
                 /\ CanFail(b) \/ Succeeded(b) =>
                      Tail(s)[n].op \in done[b] \/ <<b, Tail(s)[n].op>> \in applied
                 /\ \A k \in DOMAIN log' : log'[k] # Tail(s)[n]
      <4>1. PICK m \in DOMAIN events[b] :
              Tail(s)[n] = events[b][m] /\ events[b][m] # ev
        BY <3>2, <2>1
      <4>2. /\ events[b][m].batch = b
            /\ events[b][m].op \in 1..Len(result[b])
            /\ CanFail(b) \/ Succeeded(b) =>
                 events[b][m].op \in done[b] \/ <<b, events[b][m].op>> \in applied
            /\ \A k \in DOMAIN log : log[k] # events[b][m]
        BY <3>1 DEF EventsOK
      <4>. QED  BY <4>1, <4>2, <3>3
    <3>. QED  BY <3>4, <3>5, <2>5, <1>2, <1>6 DEF EventsOK, database
  <2>11. LogOK'
    <3>1. \A k \in DOMAIN log' :
            \/ k = Len(log) + 1 /\ log'[k] = ev
            \/ k \in DOMAIN log /\ log'[k] = log[k]
      BY <2>6, Added
    <3>2. \A k, n \in DOMAIN log' : log'[k] = log'[n] => k = n
      BY <3>1, <2>8, <1>1 DEF LogOK
    <3>3. \A k \in DOMAIN log : log[k].batch \in Batches
      BY <1>1, EventsTyped
    <3>4. applied' = applied
      BY <1>2 DEF database
    <3>5. ASSUME NEW k \in DOMAIN log'
          PROVE  /\ <<log'[k].batch, log'[k].op>> \in applied'
                 /\ pc'[log'[k].batch] \in {"dispatch", "done"}
      BY <3>1, <3>3, <3>4, <2>8, <1>1, <1>4 DEF LogOK
    <3>. QED  BY <3>2, <3>5 DEF LogOK
  <2>12. StageOK(b)'
    <3>1. l = "dispatch" => Len(s) # 1
      BY <1>3, <2>1
    <3>. QED  BY <3>1, <2>3, <2>5, <1>7
  <2>. QED  BY <2>7, <2>9, <2>10, <2>11, <2>12, <1>8, OneBatch DEF BatchOK
<1>. QED  BY <1>9, <1>10

\* The server dies, with the requests in progress and perhaps some that are new.
LEMMA CrashInv ==
  ASSUME Inv, NEW lost \in SUBSET Batches, InProgress \subseteq lost,
         CrashWith(lost)
  PROVE  Inv'
<1>. USE ScriptAssumption DEF ScriptAssumption
<1>1. GlobalOK /\ LogOK /\ \A b \in Batches : BatchOK(b)
  BY DEF Inv
<1>2. /\ faults' = [faults EXCEPT !.crashes = @ + 1] /\ faults.crashes < MaxCrashes
      /\ owner' = [e \in Entities |-> NULL]
      /\ pending' = [e \in Entities |-> NULL]
      /\ pc' = [b \in Batches |-> IF b \in lost THEN "done" ELSE pc[b]]
      /\ reply' = [b \in Batches |-> IF b \in lost /\ reply[b] = NULL
                                     THEN "lost" ELSE reply[b]]
      /\ done' = [b \in Batches |-> {}]
      /\ events' = [b \in Batches |-> << >>]
      /\ UNCHANGED <<script, mode, rows, attempt, loaded, result, applied, log>>
  BY DEF CrashWith
<1>3. faults' \in [busy : 0..MaxBusy, outages : 0..MaxOutages, crashes : 0..MaxCrashes]
  <2>1. faults \in [busy : 0..MaxBusy, outages : 0..MaxOutages, crashes : 0..MaxCrashes]
    BY <1>1 DEF GlobalOK
  <2>. QED  BY <2>1, <1>2
<1>4. /\ pc' \in [Batches -> Labels]
      /\ \A b \in Batches : pc'[b] = "done" \/ (pc[b] = "new" /\ pc'[b] = "new")
      /\ \A b \in Batches : pc'[b] = "new" => reply'[b] = reply[b]
  <2>1. pc \in [Batches -> Labels]
    BY <1>1 DEF GlobalOK
  <2>2. \A b \in Batches : b \notin lost => pc[b] \in {"new", "done"}
    BY DEF InProgress
  <2>3. pc' \in [Batches -> Labels]
    BY <2>1, <1>2 DEF Labels
  <2>4. ASSUME NEW b \in Batches
        PROVE  /\ pc'[b] = "done" \/ (pc[b] = "new" /\ pc'[b] = "new")
               /\ pc'[b] = "new" => reply'[b] = reply[b]
    <3>1. /\ pc'[b] = IF b \in lost THEN "done" ELSE pc[b]
          /\ b \notin lost => reply'[b] = reply[b]
      BY <1>2
    <3>. QED  BY <3>1, <2>2
  <2>. QED  BY <2>3, <2>4
<1>5. /\ reply' \in [Batches -> {NULL, "ok", "failed", "error", "interrupted", "lost"}]
      /\ done' \in [Batches -> SUBSET Nat]
      /\ events' \in [Batches -> Seq(EventRecord)]
  <2>1. reply \in [Batches -> {NULL, "ok", "failed", "error", "interrupted", "lost"}]
    BY <1>1 DEF GlobalOK
  <2>. QED  BY <2>1, <1>2
<1>6. GlobalOK'
  BY <1>1, <1>2, <1>3, <1>4, <1>5 DEF GlobalOK, EventRecord
<1>7. ASSUME NEW b \in Batches PROVE BatchOK(b)'
  <2>1. BatchOK(b)
    BY <1>1
  <2>2. /\ Indices(b)' = Indices(b) /\ (CanFail(b)' <=> CanFail(b))
        /\ (Succeeded(b)' <=> Succeeded(b))
    BY <1>2 DEF Indices, CanFail, Succeeded
  <2>3. StageOK(b)'
    BY <2>1, <2>2, <1>2, <1>4 DEF BatchOK, StageOK, Running
  <2>4. EventsOK(b)'
    BY <1>2 DEF EventsOK
  <2>5. RaiseOK(b)'
    <3>0. pc[b] \in Labels
      BY <1>1 DEF GlobalOK
    <3>1. pc[b] \in Labels /\ Indices(b) \subseteq Nat
      BY <3>0, <1>1, Scripted
    <3>2. CASE pc[b] = "new"
      BY <3>2, <2>1, <2>2, <1>2, <1>4 DEF BatchOK, RaiseOK, StageOK, Running
    <3>3. CASE pc[b] \in {"op", "write", "commit"}
      BY <3>3, <2>1, <2>2, <1>2, <1>4 DEF BatchOK, RaiseOK, Running
    <3>4. CASE pc[b] \in {"dispatch", "done"}
      BY <3>4, <2>1, <2>2, <1>2, <1>4 DEF BatchOK, RaiseOK, Running
    <3>. QED  BY <3>1, <3>2, <3>3, <3>4 DEF Labels
  <2>. QED  BY <2>3, <2>4, <2>5 DEF BatchOK
<1>8. LogOK'
  <2>1. \A k \in DOMAIN log : log[k].batch \in Batches
    BY <1>1, EventsTyped
  <2>. QED  BY <2>1, <1>1, <1>2, <1>4 DEF LogOK
<1>. QED  BY <1>6, <1>7, <1>8 DEF Inv

LEMMA NextInv == Inv /\ [Next]_vars => Inv'
<1>. SUFFICES ASSUME Inv, [Next]_vars PROVE Inv'
  OBVIOUS
<1>1. CASE UNCHANGED vars
  <2>1. /\ UNCHANGED <<script, mode, rows, owner, pending, applied>>
        /\ UNCHANGED <<pc, attempt, loaded, done, result, events, reply, log, faults>>
    BY <1>1 DEF vars, database, progress
  <2>2. GlobalOK' /\ LogOK'
    BY <2>1 DEF Inv, GlobalOK, LogOK, EventRecord
  <2>3. ASSUME NEW b \in Batches PROVE BatchOK(b)'
    <3>1. /\ BatchOK(b) /\ Indices(b)' = Indices(b) /\ (CanFail(b)' <=> CanFail(b))
          /\ (Succeeded(b)' <=> Succeeded(b))
      BY <2>1 DEF Inv, Indices, CanFail, Succeeded
    <3>2. StageOK(b)'
      BY <3>1, <2>1 DEF BatchOK, StageOK
    <3>3. EventsOK(b)'
      BY <3>1, <2>1 DEF BatchOK, EventsOK
    <3>4. RaiseOK(b)'
      BY <3>1, <2>1 DEF BatchOK, RaiseOK
    <3>. QED  BY <3>2, <3>3, <3>4 DEF BatchOK
  <2>. QED  BY <2>2, <2>3 DEF Inv
<1>2. ASSUME NEW b \in Batches, Step(b) PROVE Inv'
  <2>1. CASE Refused(b) \/ Start(b)
    BY <2>1, BeginInv
  <2>2. CASE Load(b)
    BY <2>2, LoadInv
  <2>3. CASE Reject(b) \/ Violate(b) \/ Victim(b)
    BY <2>3, FailingInv
  <2>4. CASE Busy(b)
    BY <2>4, BusyInv
  <2>5. CASE Write(b)
    BY <2>5, WriteInv
  <2>6. CASE Finish(b)
    BY <2>6, FinishInv
  <2>7. CASE Dispatch(b) \/ Outage(b)
    BY <2>7, DispatchInv
  <2>. QED  BY <1>2, <2>1, <2>2, <2>3, <2>4, <2>5, <2>6, <2>7 DEF Step
<1>3. CASE Crash
  <2>1. InProgress \in SUBSET Batches
    BY DEF InProgress
  <2>. QED  BY <1>3, <2>1, CrashInv DEF Crash
<1>. QED  BY <1>1, <1>2, <1>3 DEF Next

LEMMA InvAlways == Spec => []Inv
BY InitInv, NextInv, PTL DEF Spec
-----------------------------------------------------------------------------
(* The theorems *)

LEMMA InvTypes == Inv => TypeOK
<1>. SUFFICES ASSUME Inv PROVE TypeOK
  OBVIOUS
<1>1. GlobalOK /\ \A b \in Batches : BatchOK(b)
  BY DEF Inv
<1>2. ASSUME NEW b \in Batches
      PROVE  /\ done[b] \subseteq Indices(b)
             /\ Len(result[b]) \in 0..Len(script[b])
             /\ \A i \in DOMAIN events[b] :
                  events[b][i].batch = b /\ events[b][i].op \in Indices(b)
  <2>1. StageOK(b) /\ EventsOK(b)
    BY <1>1 DEF BatchOK
  <2>2. /\ Len(result[b]) \in Nat /\ Len(script[b]) \in Nat
        /\ Indices(b) = 1..Len(script[b]) /\ Len(result[b]) <= Len(script[b])
    BY <2>1, <1>1, Scripted DEF StageOK
  <2>3. Len(result[b]) \in 0..Len(script[b]) /\ 1..Len(result[b]) \subseteq Indices(b)
    BY <2>2
  <2>. QED  BY <2>1, <2>3 DEF StageOK, EventsOK
<1>3. ASSUME NEW p \in applied
      PROVE  p[1] \in Batches /\ p[2] \in Indices(p[1])
  <2>1. PICK b \in Batches, i \in Nat : p = <<b, i>>
    BY <1>1 DEF GlobalOK
  <2>. QED  BY <2>1, <1>1 DEF BatchOK, StageOK
<1>. QED  BY <1>1, <1>2, <1>3 DEF TypeOK, GlobalOK, Labels

LEMMA InvAtomic == Inv => RaisingIsAtomic
<1>. SUFFICES ASSUME Inv, NEW b \in Batches, mode[b] = "raise"
              PROVE  \/ \A i \in Indices(b) : <<b, i>> \in applied
                     \/ \A i \in Indices(b) : <<b, i>> \notin applied
  BY DEF RaisingIsAtomic, Raising
<1>0. GlobalOK /\ RaiseOK(b)
  BY DEF Inv, BatchOK
<1>1. Indices(b) \subseteq Nat
  BY <1>0, Scripted
<1>2. pc[b] \in Labels
  BY <1>0 DEF GlobalOK
<1>. QED  BY <1>0, <1>1, <1>2 DEF RaiseOK, Labels, Running

LEMMA InvAnnounced == Inv => AnnouncedOnce
BY DEF Inv, LogOK, AnnouncedOnce

\* Types of the variables of the batches, their transactions and events.
THEOREM TypeCorrect == Spec => []TypeOK
BY InvAlways, InvTypes, PTL

\* With raise_on_error, all operations of a batch are committed or none is:
\* _process with the exception handlers, retries, row locks and crashes.
THEOREM RaisingAtomic == Spec => []RaisingIsAtomic
BY InvAlways, InvAtomic, PTL

\* _process_events dispatches an event once, and only for an operation that is
\* committed, whatever was rolled back and tried again before.
THEOREM Announced == Spec => []AnnouncedOnce
BY InvAlways, InvAnnounced, PTL
-----------------------------------------------------------------------------
(* Operations implements AtomicBatches *)

\* The variables of AtomicBatches, see Atomic.
Kept == {p \in applied : p[1] \in Raising}

Told == [b \in Batches |-> IF b \notin Raising THEN NULL
                           ELSE IF reply[b] = "interrupted" THEN "lost"
                           ELSE reply[b]]

\* An operation of a batch with raise_on_error fails, and the batch with it.
LEMMA RaisingFailure ==
  ASSUME Inv, NEW b \in Batches, NEW aborts \in BOOLEAN, Failure(b, aborts)
  PROVE  /\ applied' = applied
         /\ \/ UNCHANGED reply
            \/ mode[b] = "raise" /\ reply' = [reply EXCEPT ![b] = "error"]
BY DEF Failure, CanFail, Rollback, Answer, database

\* What a step does to the committed operations and the answers.
LEMMA StepEffect ==
  ASSUME Inv, NEW b \in Batches, Step(b)
  PROVE  /\ UNCHANGED <<script, mode>>
         /\ \/ applied' = applied /\ reply' = reply
            \/ /\ pc[b] \in Running
               /\ applied' = applied
               /\ reply' = [reply EXCEPT ![b] = "error"]
            \/ /\ CanFail(b)
               /\ \E i \in Nat : applied' = applied \cup {<<b, i>>}
               /\ reply' = reply
            \/ /\ pc[b] = "commit"
               /\ applied' = applied \cup ({b} \X done[b])
               /\ reply' = [reply EXCEPT ![b] = Outcome(b)] \/ reply' = reply
            \/ /\ pc[b] = "dispatch"
               /\ applied' = applied
               /\ \E r \in {Outcome(b), "interrupted"} :
                    reply' = [reply EXCEPT ![b] = r]
               /\ reply[b] = NULL \/ reply' = [reply EXCEPT ![b] = Outcome(b)]
<1>. USE DEF Running, Goto, Answer, database
<1>1. CASE Refused(b)
  BY <1>1 DEF Refused
<1>2. CASE Start(b)
  BY <1>2 DEF Start
<1>3. CASE Reject(b) \/ Violate(b)
  BY <1>3, RaisingFailure DEF Reject, Violate
<1>4. CASE Victim(b)
  <2>1. Blocked(b)
    BY <1>4 DEF Victim, Deadlocked
  <2>2. pc[b] = "write"
    BY <2>1 DEF Blocked
  <2>. QED  BY <2>2, <1>4, RaisingFailure DEF Victim
<1>5. CASE Load(b)
  BY <1>5, RaisingFailure DEF Load
<1>6. CASE Busy(b)
  BY <1>6 DEF Busy, Rollback
<1>7. CASE Write(b)
  <2>1. UNCHANGED <<script, mode, reply>> /\ Execute(b) /\ pc[b] = "write"
    BY <1>7 DEF Write
  <2>2. Len(result[b]) + 1 \in Nat
    BY Scripted DEF Inv
  <2>3. applied' = applied
        \/ (CanFail(b) /\ \E i \in Nat : applied' = applied \cup {<<b, i>>})
    BY <2>1, <2>2 DEF Execute
  <2>. QED  BY <2>1, <2>3
<1>8. CASE Finish(b)
  <2>1. PICK kept : kept = IF CanFail(b) \/ Succeeded(b) THEN events[b] ELSE << >>
    OBVIOUS
  <2>. QED  BY <2>1, <1>8 DEF Finish
<1>9. CASE Dispatch(b)
  BY <1>9 DEF Dispatch
<1>10. CASE Outage(b)
  <2>1. CASE reply[b] = NULL
    BY <1>10, <2>1 DEF Outage
  <2>2. CASE reply[b] # NULL
    <3>1. reply \in [Batches -> {NULL, "ok", "failed", "error", "interrupted", "lost"}]
      BY DEF Inv, GlobalOK
    <3>2. reply' = [reply EXCEPT ![b] = reply[b]]
      BY <1>10, <2>2 DEF Outage
    <3>3. reply' = reply
      BY <3>1, <3>2
    <3>. QED  BY <3>3, <1>10 DEF Outage
  <2>. QED  BY <2>1, <2>2
<1>. QED  BY <1>1, <1>2, <1>3, <1>4, <1>5, <1>6, <1>7, <1>8, <1>9, <1>10 DEF Step

\* A step of a batch is a step of AtomicBatches, or none.
LEMMA StepMaps ==
  ASSUME Inv, NEW b \in Batches, Step(b)
  PROVE  Atomic!Next \/ UNCHANGED Atomic!vars
<1>. USE ScriptAssumption DEF ScriptAssumption
<1>1. GlobalOK /\ StageOK(b) /\ RaiseOK(b)
  BY DEF Inv, BatchOK
<1>2. UNCHANGED <<script, mode>>
  BY StepEffect
<1>3. reply \in [Batches -> {NULL, "ok", "failed", "error", "interrupted", "lost"}]
      /\ applied \subseteq Batches \X Nat
  BY <1>1 DEF GlobalOK
<1>4. Raising' = Raising /\ (b \in Raising <=> mode[b] = "raise")
  BY <1>2 DEF Raising
<1>5. CASE b \notin Raising
  <2>1. Kept' = Kept
    <3>1. \A p \in Batches \X Nat : p[1] # b => (p \in applied' <=> p \in applied)
      <4>1. \/ applied' = applied
            \/ \E i \in Nat : applied' = applied \cup {<<b, i>>}
            \/ applied' = applied \cup ({b} \X done[b])
        BY StepEffect
      <4>. QED  BY <4>1
    <3>2. \A p \in applied' : p \in Batches \X Nat
      <4>1. \/ applied' = applied
            \/ \E i \in Nat : applied' = applied \cup {<<b, i>>}
            \/ applied' = applied \cup ({b} \X done[b])
        BY StepEffect
      <4>2. done[b] \subseteq Nat
        BY <1>1 DEF GlobalOK
      <4>. QED  BY <4>1, <4>2, <1>3
    <3>. QED  BY <3>1, <3>2, <1>3, <1>4, <1>5 DEF Kept
  <2>2. Told' = Told
    <3>1. \A c \in Batches : c # b => reply'[c] = reply[c]
      BY StepEffect, <1>3
    <3>. QED  BY <3>1, <1>4, <1>5 DEF Told
  <2>. QED  BY <2>1, <2>2, <1>2 DEF Atomic!vars, Kept, Told
<1>6. CASE b \in Raising
  <2>1. mode[b] = "raise" /\ ~ CanFail(b) /\ Indices(b) \subseteq Nat
    BY <1>1, <1>4, <1>6, Scripted DEF CanFail
  <2>2. Atomic!Whole(b) = {b} \X Indices(b)
    BY DEF Atomic!Whole, Indices
  <2>3. ASSUME NEW r, reply' = [reply EXCEPT ![b] = r]
        PROVE  Told' = [Told EXCEPT ![b] = IF r = "interrupted" THEN "lost" ELSE r]
    BY <2>3, <1>3, <1>4, <1>6 DEF Told
  <2>4. applied' = applied => Kept' = Kept
    BY <1>4 DEF Kept
  <2>5. reply' = reply => Told' = Told
    BY <1>4 DEF Told
  <2>6. reply[b] = NULL => Told[b] = NULL
    BY <1>6 DEF Told
  <2>7. CASE applied' = applied /\ reply' = reply
    BY <2>4, <2>5, <2>7, <1>2 DEF Atomic!vars, Kept, Told
  <2>8. CASE /\ pc[b] \in Running
             /\ applied' = applied
             /\ reply' = [reply EXCEPT ![b] = "error"]
    <3>1. Told' = [Told EXCEPT ![b] = "error"] /\ Kept' = Kept
      BY <2>3, <2>4, <2>8
    <3>2. Told[b] = NULL
      BY <2>6, <2>8, <1>1 DEF StageOK
    <3>3. Kept \cap Atomic!Whole(b) = {}
      BY <2>1, <2>2, <2>8, <1>1 DEF RaiseOK, Kept
    <3>4. Atomic!Refuse(b)
      BY <3>1, <3>2, <3>3, <1>2 DEF Atomic!Refuse, Kept, Told
    <3>. QED  BY <3>4 DEF Atomic!Next
  <2>9. CASE /\ pc[b] = "commit"
             /\ applied' = applied \cup ({b} \X done[b])
             /\ reply' = [reply EXCEPT ![b] = Outcome(b)] \/ reply' = reply
    <3>1. /\ done[b] = 1..Len(result[b]) /\ Len(result[b]) = Len(script[b])
          /\ Succeeded(b) /\ reply[b] = NULL
      BY <2>1, <2>9, <1>1 DEF RaiseOK, StageOK, Running
    <3>2. applied' = applied \cup Atomic!Whole(b)
      BY <3>1, <2>2, <2>9, <1>1, Scripted
    <3>3. Kept' = Kept \cup Atomic!Whole(b)
      BY <3>2, <2>2, <1>4, <1>6 DEF Kept
    <3>4. Told[b] = NULL
      BY <3>1, <2>6
    <3>5. Told' = [Told EXCEPT ![b] = "ok"] \/ Told' = [Told EXCEPT ![b] = NULL]
      <4>1. CASE reply' = [reply EXCEPT ![b] = Outcome(b)]
        BY <4>1, <3>1, <2>3 DEF Outcome
      <4>2. CASE reply' = reply
        BY <4>2, <3>4, <2>5 DEF Told
      <4>. QED  BY <4>1, <4>2, <2>9
    <3>6. Atomic!Take(b)
      BY <3>3, <3>4, <3>5, <1>2 DEF Atomic!Take, Kept, Told
    <3>. QED  BY <3>6 DEF Atomic!Next
  <2>10. CASE /\ pc[b] = "dispatch"
              /\ applied' = applied
              /\ \E r \in {Outcome(b), "interrupted"} :
                   reply' = [reply EXCEPT ![b] = r]
              /\ reply[b] = NULL \/ reply' = [reply EXCEPT ![b] = Outcome(b)]
    <3>1. /\ \A i \in Indices(b) : <<b, i>> \in applied
          /\ reply[b] \in {NULL, "ok"} /\ Outcome(b) = "ok"
      BY <2>1, <2>10, <1>1 DEF RaiseOK, StageOK, Outcome
    <3>2. Kept' = Kept
      BY <2>4, <2>10
    <3>3. Atomic!InEffect(b)
      BY <3>1, <2>2, <1>6 DEF Atomic!InEffect, Kept
    <3>4. CASE reply[b] = "ok"
      <4>1. reply' = reply
        BY <3>1, <3>4, <2>10, <1>3
      <4>. QED  BY <4>1, <2>5, <3>2, <1>2 DEF Atomic!vars, Kept, Told
    <3>5. CASE reply[b] = NULL /\ reply' = [reply EXCEPT ![b] = "ok"]
      <4>1. Told[b] = NULL /\ Told' = [Told EXCEPT ![b] = "ok"]
        BY <3>5, <2>3, <2>6
      <4>2. Atomic!Confirm(b)
        BY <4>1, <3>2, <3>3, <1>2 DEF Atomic!Confirm, Kept, Told
      <4>. QED  BY <4>2 DEF Atomic!Next
    <3>6. CASE reply[b] = NULL /\ reply' = [reply EXCEPT ![b] = "interrupted"]
      <4>1. Told[b] = NULL /\ Told' = [Told EXCEPT ![b] = "lost"]
        BY <3>6, <2>3, <2>6
      <4>2. Told' = [c \in Batches |-> IF c \in {b} THEN "lost" ELSE Told[c]]
        BY <4>1 DEF Told
      <4>3. {b} \in SUBSET Batches /\ \A c \in {b} : Told[c] = NULL
        BY <4>1
      <4>4. Atomic!Lose
        BY <4>2, <4>3, <3>2, <1>2 DEF Atomic!Lose, Kept, Told
      <4>. QED  BY <4>4 DEF Atomic!Next
    <3>. QED  BY <3>1, <3>4, <3>5, <3>6, <2>10
  <2>. QED  BY <2>1, <2>7, <2>8, <2>9, <2>10, StepEffect
<1>. QED  BY <1>5, <1>6

\* A crash loses the answers that have not been sent.
LEMMA CrashMaps ==
  ASSUME Inv, NEW gone \in SUBSET Batches, CrashWith(gone)
  PROVE  Atomic!Next
<1>. USE ScriptAssumption DEF ScriptAssumption
<1>1. /\ UNCHANGED <<script, mode, applied>>
      /\ reply' = [b \in Batches |-> IF b \in gone /\ reply[b] = NULL
                                     THEN "lost" ELSE reply[b]]
  BY DEF CrashWith
<1>2. Raising' = Raising /\ Kept' = Kept
  BY <1>1 DEF Raising, Kept
<1>3. PICK lost \in SUBSET Batches :
        lost = {b \in gone \cap Raising : reply[b] = NULL}
  OBVIOUS
<1>4. \A b \in lost : Told[b] = NULL
  BY <1>3 DEF Told, Raising
<1>5. Told' = [b \in Batches |-> IF b \in lost THEN "lost" ELSE Told[b]]
  BY <1>1, <1>2, <1>3 DEF Told
<1>6. Atomic!Lose
  BY <1>1, <1>2, <1>4, <1>5 DEF Atomic!Lose, Kept, Told
<1>. QED  BY <1>6 DEF Atomic!Next

LEMMA InitMaps == Init => Atomic!Init
BY ScriptAssumption DEF ScriptAssumption, Init, Atomic!Init, Raising

LEMMA NextMaps == Inv /\ [Next]_vars => [Atomic!Next]_(Atomic!vars)
<1>. SUFFICES ASSUME Inv, [Next]_vars PROVE [Atomic!Next]_(Atomic!vars)
  OBVIOUS
<1>1. CASE UNCHANGED vars
  BY <1>1 DEF vars, database, Atomic!vars, Raising
<1>2. ASSUME NEW b \in Batches, Step(b) PROVE [Atomic!Next]_(Atomic!vars)
  BY <1>2, StepMaps
<1>3. CASE Crash
  <2>1. InProgress \in SUBSET Batches
    BY DEF InProgress
  <2>. QED  BY <1>3, <2>1, CrashMaps DEF Crash
<1>. QED  BY <1>1, <1>2, <1>3 DEF Next

\* With raise_on_error the batches implement AtomicBatches: each takes effect at
\* once or never, and its answer says which, whatever fails or runs next to it.
THEOREM ImplementsAtomic == Spec => IsAtomic
BY InvAlways, InitMaps, NextMaps, PTL DEF Spec, IsAtomic, Atomic!Spec
-----------------------------------------------------------------------------
(* Background operations: the steps of Operations *)

\* The batches that a crash of the server may lose with their tasks.
LEMMA CrashLoses ==
  ASSUME BackgroundCrash
  PROVE  \E lost \in SUBSET Batches :
           InProgress \subseteq lost /\ CrashWith(lost)
<1>1. PICK lost : lost = InProgress \cup
                {b \in Batches : task[b] \in {"added", "queued", "running"}}
  OBVIOUS
<1>2. lost \in SUBSET Batches
  BY <1>1 DEF InProgress
<1>. QED  BY <1>1, <1>2 DEF BackgroundCrash

\* What a step with tasks is to Operations: one of its own, a crash, or none.
LEMMA BackgroundStep ==
  ASSUME [BackgroundNext]_backgroundVars
  PROVE  \/ [Next]_vars
         \/ \E lost \in SUBSET Batches :
              InProgress \subseteq lost /\ CrashWith(lost)
<1>1. CASE UNCHANGED backgroundVars
  BY <1>1 DEF backgroundVars
<1>2. ASSUME NEW b \in Batches, Process(b) PROVE [Next]_vars
  BY <1>2 DEF Process, Next
<1>3. ASSUME NEW b \in Batches, TaskStep(b) \/ Expire(b) PROVE UNCHANGED vars
  BY <1>3 DEF TaskStep, AddTask, Accept, Begin, Report, Complete, Abandon, Expire
<1>4. CASE BackgroundCrash
  BY <1>4, CrashLoses
<1>. QED  BY <1>1, <1>2, <1>3, <1>4 DEF BackgroundNext

LEMMA OperationsInv ==
  ASSUME Inv, [BackgroundNext]_backgroundVars
  PROVE  Inv'
BY BackgroundStep, NextInv, CrashInv

LEMMA OperationsAlways == BackgroundSpec => []Inv
<1>1. BackgroundInit => Inv
  BY InitInv DEF BackgroundInit
<1>. QED  BY <1>1, OperationsInv, PTL DEF BackgroundSpec

\* No batch with raise_on_error is kept in part while background tasks of other
\* batches run, fail and are lost next to it.
THEOREM AtomicNextToTasks == BackgroundSpec => []RaisingIsAtomic
BY OperationsAlways, InvAtomic, PTL

\* No event of a request or of a task is dispatched twice, or for an operation
\* that was rolled back.
THEOREM TasksAnnounceOnce == BackgroundSpec => []AnnouncedOnce
BY OperationsAlways, InvAnnounced, PTL

\* Requests with raise_on_error implement AtomicBatches next to background tasks.
THEOREM ImplementsAtomicNextToTasks == BackgroundSpec => IsAtomic
<1>1. BackgroundInit => Atomic!Init
  BY InitMaps DEF BackgroundInit
<1>2. ASSUME Inv, [BackgroundNext]_backgroundVars
      PROVE  [Atomic!Next]_(Atomic!vars)
  BY <1>2, BackgroundStep, NextMaps, CrashMaps
<1>. QED  BY <1>1, <1>2, OperationsAlways, PTL DEF BackgroundSpec, IsAtomic, Atomic!Spec
-----------------------------------------------------------------------------
(* Tasks and their status *)

TaskStates == {"none", "added", "queued", "running", "over"}

\* What the status of a batch says of its task.
StatusOK(b) ==
  /\ task[b] # "none" => b \in background
  /\ task[b] \in {"none", "added"} => status[b] = NULL
  /\ task[b] \in {"queued", "running"} => status[b] # NULL
  /\ task[b] = "queued" => status[b].state = "pending"
  /\ task[b] = "running" => status[b].state = "in_progress"
  /\ status[b] # NULL => status[b].index <= Len(script[b])

TasksOK ==
  /\ background \subseteq Batches
  /\ task \in [Batches -> TaskStates]
  /\ status \in [Batches -> Statuses \cup {NULL}]
  /\ \A b \in Batches : StatusOK(b)

\* The statuses that a task sets.
LEMMA StatusTyped ==
  ASSUME NEW state \in States, NEW index \in Nat,
         NEW answer \in {NULL, "ok", "failed"}
  PROVE  /\ Status(state, index, answer) \in Statuses
         /\ Status(state, index, answer) # NULL
         /\ Status(state, index, answer).state = state
         /\ Status(state, index, answer).index = index
BY StatusAssumption DEF Status, Statuses, StatusAssumption

\* The scripts stay as they are.
LEMMA ScriptsStay ==
  ASSUME Inv, [BackgroundNext]_backgroundVars
  PROVE  script' = script
<1>1. CASE [Next]_vars
  BY <1>1, StepEffect DEF Next, Crash, CrashWith, vars
<1>2. ASSUME NEW lost, CrashWith(lost) PROVE script' = script
  BY <1>2 DEF CrashWith
<1>. QED  BY <1>1, <1>2, BackgroundStep

\* A step that sets the status or the task of one batch.
LEMMA OneTask ==
  ASSUME TasksOK, NEW b \in Batches, UNCHANGED <<script, background>>,
         NEW t \in TaskStates, NEW st \in Statuses \cup {NULL},
         task' = [task EXCEPT ![b] = t],
         status' = [status EXCEPT ![b] = st],
         StatusOK(b)'
  PROVE  TasksOK'
<1>1. ASSUME NEW c \in Batches, c # b PROVE StatusOK(c)'
  <2>1. StatusOK(c) /\ task'[c] = task[c] /\ status'[c] = status[c]
    BY <1>1 DEF TasksOK
  <2>. QED  BY <2>1 DEF StatusOK
<1>. QED  BY <1>1 DEF TasksOK

LEMMA TasksInv ==
  ASSUME Inv, TasksOK, [BackgroundNext]_backgroundVars
  PROVE  TasksOK'
<1>. USE DEF SetTask, SetStatus
<1>1. script' = script
  BY ScriptsStay
<1>2. CASE UNCHANGED taskVars
  BY <1>1, <1>2 DEF TasksOK, StatusOK, taskVars
<1>3. CASE UNCHANGED backgroundVars
  BY <1>2, <1>3 DEF backgroundVars
<1>4. ASSUME NEW b \in Batches, TaskStep(b) \/ Expire(b) PROVE TasksOK'
  <2>1. /\ StatusOK(b) /\ task \in [Batches -> TaskStates]
        /\ status \in [Batches -> Statuses \cup {NULL}]
    BY DEF TasksOK
  <2>2. /\ Len(script[b]) \in Nat /\ Len(result[b]) \in Nat
        /\ Len(result[b]) <= Len(script[b])
    BY Scripted DEF Inv, BatchOK, StageOK
  <2>3. background' = background
    BY <1>4 DEF TaskStep, AddTask, Accept, Begin, Report, Complete, Abandon, Expire
  <2>4. CASE AddTask(b)
    <3>1. status' = [status EXCEPT ![b] = status[b]]
      BY <2>1, <2>4 DEF AddTask
    <3>2. /\ task' = [task EXCEPT ![b] = "added"]
          /\ task[b] = "none" /\ b \in background
      BY <2>4 DEF AddTask
    <3>3. StatusOK(b)'
      BY <3>1, <3>2, <2>1, <1>1, <2>3 DEF StatusOK
    <3>. QED  BY <3>1, <3>2, <3>3, <2>1, <1>1, <2>3, OneTask DEF TaskStates
  <2>5. CASE Accept(b)
    <3>1. /\ status' = [status EXCEPT ![b] = Status("pending", 0, NULL)]
          /\ task' = [task EXCEPT ![b] = "queued"] /\ task[b] = "added"
      BY <2>5 DEF Accept
    <3>2. StatusOK(b)'
      BY <3>1, <2>1, <2>2, <1>1, <2>3, StatusTyped DEF StatusOK, States
    <3>. QED  BY <3>1, <3>2, <1>1, <2>3, OneTask, StatusTyped DEF TaskStates, States
  <2>6. CASE Begin(b)
    <3>1. /\ status' = [status EXCEPT ![b] = Status("in_progress", 0, NULL)]
          /\ task' = [task EXCEPT ![b] = "running"] /\ task[b] = "queued"
      BY <2>6 DEF Begin
    <3>2. StatusOK(b)'
      BY <3>1, <2>1, <2>2, <1>1, <2>3, StatusTyped DEF StatusOK, States
    <3>. QED  BY <3>1, <3>2, <1>1, <2>3, OneTask, StatusTyped DEF TaskStates, States
  <2>7. CASE Report(b)
    <3>1. /\ status' = [status EXCEPT ![b] =
                          Status("in_progress", Len(result[b]), NULL)]
          /\ task' = task /\ task[b] = "running"
      BY <2>7 DEF Report
    <3>2. task' = [task EXCEPT ![b] = "running"]
      BY <3>1, <2>1
    <3>3. StatusOK(b)'
      BY <3>1, <3>2, <2>1, <2>2, <1>1, <2>3, StatusTyped DEF StatusOK, States
    <3>. QED  BY <3>1, <3>2, <3>3, <1>1, <2>2, <2>3, OneTask, StatusTyped
              DEF TaskStates, States
  <2>8. CASE Complete(b)
    <3>1. /\ status' = [status EXCEPT ![b] =
                          Status("completed", Len(script[b]), reply[b])]
          /\ task' = [task EXCEPT ![b] = "over"] /\ task[b] = "running"
          /\ reply[b] \in {"ok", "failed"}
      BY <2>8 DEF Complete
    <3>2. StatusOK(b)'
      BY <3>1, <2>1, <2>2, <1>1, <2>3, StatusTyped DEF StatusOK, States
    <3>. QED  BY <3>1, <3>2, <1>1, <2>2, <2>3, OneTask, StatusTyped
              DEF TaskStates, States
  <2>9. CASE Abandon(b)
    <3>1. status' = [status EXCEPT ![b] = status[b]]
      BY <2>1, <2>9 DEF Abandon
    <3>2. task' = [task EXCEPT ![b] = "over"] /\ task[b] = "running"
      BY <2>9 DEF Abandon
    <3>3. StatusOK(b)'
      BY <3>1, <3>2, <2>1, <1>1, <2>3 DEF StatusOK
    <3>. QED  BY <3>1, <3>2, <3>3, <2>1, <1>1, <2>3, OneTask DEF TaskStates
  <2>10. CASE Expire(b)
    <3>1. /\ status' = [status EXCEPT ![b] = NULL]
          /\ task' = task /\ task[b] = "over"
      BY <2>10 DEF Expire
    <3>2. task' = [task EXCEPT ![b] = "over"]
      BY <3>1, <2>1
    <3>3. StatusOK(b)'
      BY <3>1, <3>2, <2>1, <1>1, <2>3 DEF StatusOK
    <3>. QED  BY <3>1, <3>2, <3>3, <1>1, <2>3, OneTask DEF TaskStates
  <2>. QED  BY <1>4, <2>4, <2>5, <2>6, <2>7, <2>8, <2>9, <2>10 DEF TaskStep
<1>5. CASE BackgroundCrash
  <2>1. /\ task' = [b \in Batches |->
                      IF task[b] \in {"added", "queued", "running"}
                      THEN "over" ELSE task[b]]
        /\ UNCHANGED <<background, status>>
    BY <1>5 DEF BackgroundCrash
  <2>2. task' \in [Batches -> TaskStates]
    BY <2>1 DEF TasksOK, TaskStates
  <2>3. ASSUME NEW b \in Batches PROVE StatusOK(b)'
    <3>1. /\ StatusOK(b) /\ status'[b] = status[b]
          /\ \/ task'[b] = task[b] /\ task[b] \notin {"added", "queued", "running"}
             \/ task'[b] = "over" /\ task[b] # "none"
      BY <2>1 DEF TasksOK
    <3>. QED  BY <3>1, <2>1, <1>1 DEF StatusOK
  <2>. QED  BY <2>1, <2>2, <2>3 DEF TasksOK
<1>. QED
  BY <1>2, <1>3, <1>4, <1>5 DEF BackgroundNext, Process

LEMMA TasksAlways == BackgroundSpec => []TasksOK
<1>1. BackgroundInit => TasksOK
  BY DEF BackgroundInit, TasksOK, StatusOK, TaskStates
<1>. QED  BY <1>1, TasksInv, OperationsAlways, PTL DEF BackgroundSpec

\* The status of a batch and its task agree: a task that runs has one, and a
\* request that has not been accepted has none.
THEOREM BackgroundTypes == BackgroundSpec => []BackgroundTypeOK
<1>1. Inv /\ TasksOK => BackgroundTypeOK
  BY InvTypes DEF TasksOK, StatusOK, TaskStates, BackgroundTypeOK
<1>. QED  BY <1>1, OperationsAlways, TasksAlways, PTL

\* The rank of each status.
LEMMA Ranks ==
  /\ Rank(NULL) = 0
  /\ \A st \in Statuses :
       /\ st.state = "pending" => Rank(st) = 1
       /\ st.state = "in_progress" => Rank(st) = 2
       /\ st.state = "completed" => Rank(st) = 3
       /\ Rank(st) \in 1..3
BY StatusAssumption DEF Rank, Statuses, States, StatusAssumption

\* A client that polls never sees the status of a batch go back, however the
\* request, its task and a crash of the server interleave.
THEOREM StatusForward == BackgroundSpec => StatusGoesForward
<1>1. ASSUME Inv, TasksOK, [BackgroundNext]_backgroundVars, NEW b \in Batches
      PROVE  \/ Rank(status'[b]) >= Rank(status[b])
             \/ task[b] = "over" /\ status'[b] = NULL
  <2>. USE DEF SetTask, SetStatus
  <2>0. StatusOK(b) /\ status \in [Batches -> Statuses \cup {NULL}]
    BY <1>1 DEF TasksOK
  <2>1. /\ StatusOK(b) /\ status[b] \in Statuses \cup {NULL}
        /\ status \in [Batches -> Statuses \cup {NULL}]
    BY <2>0
  <2>2. Rank(status[b]) \in 0..3
    BY <2>1, Ranks
  <2>3. CASE status'[b] = status[b]
    BY <2>2, <2>3
  <2>4. CASE Accept(b)
    <3>1. status[b] = NULL
      BY <2>1, <2>4 DEF Accept, StatusOK
    <3>2. Rank(status'[b]) = 1
      BY <2>1, <2>4, StatusTyped, Ranks DEF Accept, States
    <3>. QED  BY <3>1, <3>2, Ranks
  <2>5. CASE Begin(b)
    <3>1. Rank(status[b]) = 1
      BY <2>1, <2>5, Ranks DEF Begin, StatusOK
    <3>2. Rank(status'[b]) = 2
      BY <2>1, <2>5, StatusTyped, Ranks DEF Begin, States
    <3>. QED  BY <3>1, <3>2
  <2>6. CASE Report(b)
    <3>1. Rank(status[b]) = 2
      BY <2>1, <2>6, Ranks DEF Report, StatusOK
    <3>2. Len(result[b]) \in Nat
      BY <1>1, Scripted DEF Inv
    <3>3. Rank(status'[b]) = 2
      BY <3>2, <2>1, <2>6, StatusTyped, Ranks DEF Report, States
    <3>. QED  BY <3>1, <3>3
  <2>7. CASE Complete(b)
    <3>1. Rank(status[b]) = 2
      BY <2>1, <2>7, Ranks DEF Complete, StatusOK
    <3>2. Len(script[b]) \in Nat
      BY <1>1, Scripted DEF Inv
    <3>3. Rank(status'[b]) = 3
      BY <3>2, <2>1, <2>7, StatusTyped, Ranks DEF Complete, States
    <3>. QED  BY <3>1, <3>3
  <2>8. CASE Expire(b)
    BY <2>1, <2>8 DEF Expire
  <2>9. \/ status'[b] = status[b]
        \/ Accept(b) \/ Begin(b) \/ Report(b) \/ Complete(b) \/ Expire(b)
    <3>1. ASSUME NEW c \in Batches, TaskStep(c) \/ Expire(c), c # b
          PROVE  status'[b] = status[b]
      BY <3>1, <2>1 DEF TaskStep, AddTask, Accept, Begin, Report, Complete,
                        Abandon, Expire
    <3>2. ASSUME AddTask(b) \/ Abandon(b) PROVE status'[b] = status[b]
      BY <3>2 DEF AddTask, Abandon
    <3>3. CASE UNCHANGED status
      BY <3>3
    <3>4. \/ UNCHANGED status
          \/ \E c \in Batches : TaskStep(c) \/ Expire(c)
      BY <1>1 DEF BackgroundNext, Process, BackgroundCrash, backgroundVars, taskVars
    <3>5. CASE TaskStep(b) \/ Expire(b)
      BY <3>2, <3>5 DEF TaskStep
    <3>. QED  BY <3>1, <3>3, <3>4, <3>5
  <2>. QED  BY <2>3, <2>4, <2>5, <2>6, <2>7, <2>8, <2>9
<1>2. ASSUME Inv, TasksOK, [BackgroundNext]_backgroundVars
      PROVE  [\A b \in Batches :
                \/ Rank(status'[b]) >= Rank(status[b])
                \/ task[b] = "over" /\ status'[b] = NULL]_backgroundVars
  BY <1>1, <1>2
<1>. QED  BY <1>2, OperationsAlways, TasksAlways, PTL DEF BackgroundSpec, StatusGoesForward
-----------------------------------------------------------------------------
(* The latest event about a row *)

\* An event is about a row.
Concerns(scripts, ev, e) == scripts[ev.batch][ev.op].entity = e

\* What it says of it.
Meaning(scripts, ev) ==
  LET op == scripts[ev.batch][ev.op]
  IN  IF op.type = "delete" THEN NULL ELSE op.value

IsLatest(scripts, s, e, k) ==
  /\ k \in DOMAIN s
  /\ Concerns(scripts, s[k], e)
  /\ \A n \in DOMAIN s : Concerns(scripts, s[n], e) => n <= k

\* What somebody who holds a row for value believes after some events.
Latest(scripts, s, e, value) ==
  IF \E k \in DOMAIN s : Concerns(scripts, s[k], e)
  THEN Meaning(scripts, s[CHOOSE k \in DOMAIN s : IsLatest(scripts, s, e, k)])
  ELSE value

\* There is a latest one: the natural numbers have no infinite descent.
LEMMA HasLatest ==
  ASSUME NEW scripts, NEW s \in Seq(EventRecord), NEW e,
         NEW i \in DOMAIN s, Concerns(scripts, s[i], e)
  PROVE  \E k \in DOMAIN s : IsLatest(scripts, s, e, k)
<1>1. Len(s) \in Nat /\ DOMAIN s = 1..Len(s)
  OBVIOUS
<1>2. PICK T : T = {n \in Nat : \E k \in DOMAIN s :
                                  Concerns(scripts, s[k], e) /\ n = Len(s) - k}
  OBVIOUS
<1>3. T \subseteq Nat /\ Len(s) - i \in T
  BY <1>1, <1>2
<1>4. PICK R : R = OpToRel(<, Nat)
  OBVIOUS
<1>5. IsWellFoundedOn(R, Nat)
  BY <1>4, NatLessThanWellFounded
<1>6. \A x, y \in Nat : x < y => <<x, y>> \in R
  BY <1>4 DEF OpToRel
<1>7. PICK x \in T : \A y \in T : ~ (<<y, x>> \in R)
  BY <1>3, <1>5, WFMin
<1>8. PICK k \in DOMAIN s : Concerns(scripts, s[k], e) /\ x = Len(s) - k
  BY <1>2
<1>9. ASSUME NEW n \in DOMAIN s, Concerns(scripts, s[n], e)
      PROVE  n <= k
  <2>1. Len(s) - n \in T
    BY <1>1, <1>2, <1>9
  <2>2. ~ (Len(s) - n < x)
    BY <2>1, <1>3, <1>6, <1>7
  <2>. QED  BY <2>2, <1>1, <1>8
<1>. QED  BY <1>8, <1>9 DEF IsLatest

\* It decides.
LEMMA LatestIs ==
  ASSUME NEW scripts, NEW s \in Seq(EventRecord), NEW e, NEW value,
         NEW k, IsLatest(scripts, s, e, k)
  PROVE  Latest(scripts, s, e, value) = Meaning(scripts, s[k])
<1>1. PICK j : j = CHOOSE n \in DOMAIN s : IsLatest(scripts, s, e, n)
  OBVIOUS
<1>2. k \in DOMAIN s /\ Concerns(scripts, s[k], e)
  BY DEF IsLatest
<1>3. j \in DOMAIN s /\ IsLatest(scripts, s, e, j)
  BY <1>1, <1>2
<1>4. j <= k /\ k <= j /\ j \in Nat /\ k \in Nat
  BY <1>2, <1>3 DEF IsLatest
<1>5. j = k
  BY <1>4
<1>. QED  BY <1>1, <1>2, <1>5 DEF Latest

\* Without one, the row is believed to be as it was.
LEMMA LatestNone ==
  ASSUME NEW scripts, NEW s, NEW e, NEW value,
         \A k \in DOMAIN s : ~ Concerns(scripts, s[k], e)
  PROVE  Latest(scripts, s, e, value) = value
BY DEF Latest

\* An event is added.
LEMMA LatestAppend ==
  ASSUME NEW scripts, NEW s \in Seq(EventRecord), NEW ev \in EventRecord,
         NEW e, NEW value
  PROVE  Latest(scripts, Append(s, ev), e, value) =
           IF Concerns(scripts, ev, e) THEN Meaning(scripts, ev)
                                       ELSE Latest(scripts, s, e, value)
<1>1. PICK t : t = Append(s, ev)
  OBVIOUS
<1>2. /\ t \in Seq(EventRecord) /\ DOMAIN t = DOMAIN s \cup {Len(s) + 1}
      /\ t[Len(s) + 1] = ev /\ \A i \in DOMAIN s : t[i] = s[i]
  BY <1>1, Added
<1>3. Len(s) \in Nat /\ DOMAIN s = 1..Len(s)
  OBVIOUS
<1>4. CASE Concerns(scripts, ev, e)
  <2>1. IsLatest(scripts, t, e, Len(s) + 1)
    BY <1>2, <1>3, <1>4 DEF IsLatest
  <2>2. Latest(scripts, t, e, value) = Meaning(scripts, t[Len(s) + 1])
    BY <2>1, <1>2, LatestIs
  <2>. QED  BY <2>2, <1>1, <1>2, <1>4
<1>5. CASE ~ Concerns(scripts, ev, e)
  <2>1. CASE \E i \in DOMAIN s : Concerns(scripts, s[i], e)
    <3>1. PICK k \in DOMAIN s : IsLatest(scripts, s, e, k)
      BY <2>1, HasLatest
    <3>2. IsLatest(scripts, t, e, k)
      BY <3>1, <1>2, <1>3, <1>5 DEF IsLatest
    <3>3. Latest(scripts, t, e, value) = Meaning(scripts, t[k])
      BY <3>2, <1>2, LatestIs
    <3>4. Latest(scripts, s, e, value) = Meaning(scripts, s[k])
      BY <3>1, LatestIs
    <3>. QED  BY <3>1, <3>3, <3>4, <1>1, <1>2, <1>5
  <2>2. CASE \A i \in DOMAIN s : ~ Concerns(scripts, s[i], e)
    <3>1. \A i \in DOMAIN t : ~ Concerns(scripts, t[i], e)
      BY <2>2, <1>2, <1>5
    <3>. QED  BY <2>2, <3>1, <1>1, <1>5, LatestNone
  <2>. QED  BY <2>1, <2>2
<1>. QED  BY <1>4, <1>5

\* The first event is heard.
LEMMA LatestTail ==
  ASSUME NEW scripts, NEW s \in Seq(EventRecord), s # << >>, NEW e, NEW value
  PROVE  Latest(scripts, s, e, value) =
           Latest(scripts, Tail(s), e,
                  IF Concerns(scripts, Head(s), e) THEN Meaning(scripts, Head(s))
                                                   ELSE value)
<1>1. PICK t : t = Tail(s)
  OBVIOUS
<1>2. PICK heard : heard = IF Concerns(scripts, Head(s), e)
                           THEN Meaning(scripts, Head(s)) ELSE value
  OBVIOUS
<1>3. /\ t \in Seq(EventRecord) /\ Len(t) = Len(s) - 1 /\ Head(s) = s[1]
      /\ \A i \in 1..Len(t) : t[i] = s[i + 1]
  BY <1>1, HeadTailProperties
<1>4. /\ Len(s) \in Nat /\ Len(s) # 0 /\ DOMAIN s = 1..Len(s)
      /\ DOMAIN t = 1..(Len(s) - 1)
  BY <1>3
<1>5. \A i \in DOMAIN t : i + 1 \in DOMAIN s /\ t[i] = s[i + 1]
  BY <1>3, <1>4
<1>6. \A i \in DOMAIN s : i # 1 => i - 1 \in DOMAIN t /\ t[i - 1] = s[i]
  BY <1>3, <1>4
<1>7. CASE \E i \in DOMAIN t : Concerns(scripts, t[i], e)
  <2>1. PICK k \in DOMAIN t : IsLatest(scripts, t, e, k)
    BY <1>3, <1>7, HasLatest
  <2>2. Concerns(scripts, t[k], e)
        /\ \A n \in DOMAIN t : Concerns(scripts, t[n], e) => n <= k
    BY <2>1 DEF IsLatest
  <2>3. ASSUME NEW n \in DOMAIN s, Concerns(scripts, s[n], e)
        PROVE  n <= k + 1
    <3>1. CASE n = 1
      BY <3>1, <1>4
    <3>2. CASE n # 1
      <4>1. n - 1 <= k
        BY <3>2, <2>2, <2>3, <1>6
      <4>. QED  BY <4>1, <1>4
    <3>. QED  BY <3>1, <3>2
  <2>4. IsLatest(scripts, s, e, k + 1)
    BY <2>2, <2>3, <1>5 DEF IsLatest
  <2>5. Latest(scripts, s, e, value) = Meaning(scripts, s[k + 1])
    BY <2>4, LatestIs
  <2>6. Latest(scripts, t, e, heard) = Meaning(scripts, t[k])
    BY <2>1, <1>3, LatestIs
  <2>. QED  BY <2>5, <2>6, <1>1, <1>2, <1>5
<1>8. CASE \A i \in DOMAIN t : ~ Concerns(scripts, t[i], e)
  <2>1. Latest(scripts, t, e, heard) = heard
    BY <1>8, LatestNone
  <2>2. CASE Concerns(scripts, Head(s), e)
    <3>1. IsLatest(scripts, s, e, 1)
      BY <2>2, <1>3, <1>4, <1>6, <1>8 DEF IsLatest
    <3>2. Latest(scripts, s, e, value) = Meaning(scripts, s[1])
      BY <3>1, LatestIs
    <3>. QED  BY <3>2, <2>1, <2>2, <1>1, <1>2, <1>3
  <2>3. CASE ~ Concerns(scripts, Head(s), e)
    <3>1. \A i \in DOMAIN s : ~ Concerns(scripts, s[i], e)
      BY <2>3, <1>3, <1>6, <1>8
    <3>. QED  BY <3>1, <2>1, <2>3, <1>1, <1>2, LatestNone
  <2>. QED  BY <2>2, <2>3
<1>. QED  BY <1>7, <1>8
-----------------------------------------------------------------------------
(* Listeners *)

\* What a listener believes of a row, and what it will believe when it has
\* heard of the batch as far as that is.
Heard(e) == Latest(script, log, e, InitialRows[e])

Promised(b, e) == Latest(script, events[b], e, Heard(e))

\* The server has not failed after a commit.
NoFailures == faults.outages = 0 /\ faults.crashes = 0

\* A lock belongs to a batch with one transaction that is about the row.
LocksOK ==
  \A e \in Entities :
    owner[e] # NULL => owner[e] \in Touching(e) /\ ~ CanFail(owner[e])

\* A row that no batch is about stays.
UntouchedOK ==
  \A e \in Entities : Touching(e) = {} => rows[e] = InitialRows[e]

\* A row that one batch is about, and no other: while its transactions are open
\* the events in memory tell of the row as the batch sees it, and those
\* dispatched of the row without its transaction.
FollowOK(b, e) ==
  /\ pc[b] \in Running /\ ~ CanFail(b) => rows[e] = Heard(e)
  /\ pc[b] \in Running /\ (CanFail(b) \/ Succeeded(b)) =>
       Promised(b, e) = Visible(b, e)
  /\ pc[b] = "write" /\ Current(b).entity = e =>
       /\ loaded[b] = Visible(b, e)
       /\ Current(b).type # "create" => loaded[b] # NULL
  /\ pc[b] = "dispatch" => Promised(b, e) = rows[e]
  /\ pc[b] = "done" /\ ~ CutShort(b) => Heard(e) = rows[e]

ListenersOK ==
  NoFailures =>
    \A e \in Entities : \A b \in Batches :
      Touching(e) \subseteq {b} => FollowOK(b, e)

\* What the events in the log are about.
LEMMA LogTouches ==
  ASSUME Inv, NEW e, NEW k \in DOMAIN log
  PROVE  Concerns(script, log[k], e) => log[k].batch \in Touching(e)
<1>1. log[k].batch \in Batches /\ <<log[k].batch, log[k].op>> \in applied
      /\ log[k].op \in Nat
  BY EventsTyped DEF Inv, LogOK
<1>2. log[k].op \in Indices(log[k].batch)
  BY <1>1 DEF Inv, BatchOK, StageOK
<1>. QED  BY <1>1, <1>2 DEF Concerns, Touching

\* What Replay chooses is the latest event.
LEMMA ReplayIsHeard ==
  ASSUME Inv, NEW e \in Entities
  PROVE  Replay(e) = Heard(e)
<1>1. log \in Seq(EventRecord) /\ DOMAIN log \subseteq Nat
  BY DEF Inv, GlobalOK
<1>2. About(e) = {k \in DOMAIN log : Concerns(script, log[k], e)}
  BY DEF About, Concerns
<1>3. CASE About(e) = {}
  BY <1>2, <1>3, LatestNone DEF Replay, Heard
<1>4. CASE About(e) # {}
  <2>1. PICK k \in DOMAIN log : IsLatest(script, log, e, k)
    BY <1>1, <1>2, <1>4, HasLatest
  <2>2. k \in About(e) /\ \A n \in About(e) : n <= k
    BY <2>1, <1>2 DEF IsLatest
  <2>3. PICK j : j = CHOOSE m \in About(e) : \A n \in About(e) : n <= m
    OBVIOUS
  <2>4. j \in About(e) /\ \A n \in About(e) : n <= j
    BY <2>2, <2>3
  <2>5. j \in Nat /\ k \in Nat /\ j <= k /\ k <= j
    BY <2>2, <2>4, <1>1, <1>2
  <2>6. j = k
    BY <2>5
  <2>7. Replay(e) = Value(log[k])
    BY <2>3, <2>6, <1>4 DEF Replay
  <2>8. Heard(e) = Meaning(script, log[k])
    BY <2>1, <1>1, LatestIs DEF Heard
  <2>. QED  BY <2>7, <2>8 DEF Value, Meaning
<1>. QED  BY <1>3, <1>4

\* What a failing operation leaves to other batches, and of the rows.
LEMMA FailureEffect ==
  ASSUME Inv, NEW b \in Batches, NEW aborts \in BOOLEAN, Failure(b, aborts)
  PROVE  /\ \A c \in Batches : c # b =>
              /\ pc'[c] = pc[c] /\ result'[c] = result[c]
              /\ events'[c] = events[c] /\ reply'[c] = reply[c]
              /\ done'[c] = done[c]
         /\ applied' = applied
         /\ \/ UNCHANGED <<rows, owner, pending>>
            \/ rows' = rows /\ Release(b)
<1>1. /\ pc \in [Batches -> Labels] /\ result \in [Batches -> Seq(BOOLEAN)]
      /\ events \in [Batches -> Seq(EventRecord)]
      /\ reply \in [Batches -> {NULL, "ok", "failed", "error", "interrupted", "lost"}]
      /\ done \in [Batches -> SUBSET Nat]
  BY DEF Inv, GlobalOK
<1>2. CASE /\ CanFail(b) /\ Advance(b, FALSE)
           /\ UNCHANGED <<database, done, events, reply>>
  BY <1>1, <1>2 DEF Advance, Goto, database
<1>3. CASE /\ mode[b] = "collect"
           /\ result' = [result EXCEPT ![b] = Append(@, FALSE)]
           /\ Goto(b, "commit")
           /\ IF aborts THEN Rollback(b) ELSE UNCHANGED <<database, done>>
           /\ UNCHANGED <<events, reply>>
  <2>1. CASE aborts
    BY <1>1, <1>3, <2>1 DEF Goto, Rollback, Release
  <2>2. CASE ~ aborts
    BY <1>1, <1>3, <2>2 DEF Goto, database
  <2>. QED  BY <2>1, <2>2
<1>4. CASE /\ mode[b] = "raise"
           /\ Rollback(b)
           /\ Goto(b, "done")
           /\ Answer(b, "error")
           /\ events' = [events EXCEPT ![b] = << >>]
           /\ UNCHANGED result
  BY <1>1, <1>4 DEF Goto, Answer, Rollback, Release
<1>. QED  BY <1>2, <1>3, <1>4 DEF Failure

\* A step of a batch leaves the others alone.
LEMMA StepLeaves ==
  ASSUME Inv, NEW b \in Batches, Step(b), NEW c \in Batches, c # b
  PROVE  /\ pc'[c] = pc[c] /\ result'[c] = result[c] /\ events'[c] = events[c]
         /\ reply'[c] = reply[c] /\ done'[c] = done[c] /\ loaded'[c] = loaded[c]
         /\ \A i : <<c, i>> \in applied' <=> <<c, i>> \in applied
<1>1. /\ pc \in [Batches -> Labels] /\ result \in [Batches -> Seq(BOOLEAN)]
      /\ events \in [Batches -> Seq(EventRecord)]
      /\ reply \in [Batches -> {NULL, "ok", "failed", "error", "interrupted", "lost"}]
      /\ done \in [Batches -> SUBSET Nat]
      /\ loaded \in [Batches -> Values \cup {NULL}]
  BY DEF Inv, GlobalOK
<1>2. CASE Refused(b) \/ Start(b)
  BY <1>1, <1>2 DEF Refused, Start, Goto, Answer, database
<1>3. CASE Load(b)
  <2>1. CASE Failure(b, FALSE) /\ UNCHANGED loaded
    BY <2>1, FailureEffect
  <2>2. CASE ~ (Failure(b, FALSE) /\ UNCHANGED loaded)
    BY <2>2, <1>1, <1>3 DEF Load, Goto, database
  <2>. QED  BY <2>1, <2>2
<1>4. CASE Reject(b)
  BY <1>4, FailureEffect DEF Reject
<1>5. CASE Violate(b)
  <2>1. loaded'[c] = loaded[c]
    BY <1>1, <1>5 DEF Violate
  <2>. QED  BY <2>1, <1>5, FailureEffect DEF Violate
<1>6. CASE Victim(b)
  <2>1. loaded'[c] = loaded[c]
    BY <1>1, <1>6 DEF Victim
  <2>. QED  BY <2>1, <1>6, FailureEffect DEF Victim
<1>7. CASE Busy(b)
  <2>1. UNCHANGED loaded /\ Rollback(b) /\ events' = [events EXCEPT ![b] = << >>]
    BY <1>7 DEF Busy
  <2>2. \/ pc' = [pc EXCEPT ![b] = "done"] /\ UNCHANGED result
           /\ reply' = [reply EXCEPT ![b] = "error"]
        \/ result' = [result EXCEPT ![b] = << >>] /\ UNCHANGED <<pc, reply>>
    BY <1>7 DEF Busy, Goto, Answer
  <2>. QED  BY <2>1, <2>2, <1>1 DEF Rollback, Release
<1>8. CASE Write(b)
  <2>1. /\ loaded' = [loaded EXCEPT ![b] = NULL] /\ reply' = reply
        /\ events' = [events EXCEPT ![b] = @ \o NewEvents(b)]
        /\ Advance(b, TRUE) /\ Execute(b)
    BY <1>8 DEF Write
  <2>2. /\ applied' = applied \/ applied' = applied \cup {<<b, Len(result[b]) + 1>>}
        /\ done' = done \/ done' = [done EXCEPT ![b] = @ \cup {Len(result[b]) + 1}]
    BY <2>1 DEF Execute
  <2>. QED  BY <2>1, <2>2, <1>1 DEF Advance, Goto
<1>9. CASE Finish(b)
  <2>1. PICK kept : kept = IF CanFail(b) \/ Succeeded(b) THEN events[b] ELSE << >>
    OBVIOUS
  <2>2. /\ applied' = applied \cup ({b} \X done[b]) /\ Release(b)
        /\ events' = [events EXCEPT ![b] = kept] /\ UNCHANGED <<loaded, result>>
        /\ pc' = [pc EXCEPT ![b] = IF kept = << >> THEN "done" ELSE "dispatch"]
        /\ reply' = [reply EXCEPT ![b] = Outcome(b)] \/ UNCHANGED reply
    BY <2>1, <1>9 DEF Finish, Goto, Answer
  <2>. QED  BY <2>2, <1>1 DEF Release
<1>10. CASE Dispatch(b)
  <2>1. /\ UNCHANGED <<applied, done, result, loaded>>
        /\ events' = [events EXCEPT ![b] = Tail(@)]
        /\ \E l \in {"dispatch", "done"} : pc' = [pc EXCEPT ![b] = l]
        /\ reply' = [reply EXCEPT ![b] = Outcome(b)] \/ UNCHANGED reply
    BY <1>10 DEF Dispatch, Goto, Answer, database
  <2>. QED  BY <2>1, <1>1
<1>11. CASE Outage(b)
  <2>1. PICK r : reply' = [reply EXCEPT ![b] = IF reply[b] = NULL THEN r ELSE reply[b]]
    BY <1>11 DEF Outage, Answer
  <2>2. /\ UNCHANGED <<applied, done, result, loaded>>
        /\ events' = [events EXCEPT ![b] = << >>]
        /\ pc' = [pc EXCEPT ![b] = "done"]
        /\ \E a : reply' = [reply EXCEPT ![b] = a]
    BY <2>1, <1>11 DEF Outage, Goto, database
  <2>. QED  BY <2>2, <1>1
<1>. QED  BY <1>2, <1>3, <1>4, <1>5, <1>6, <1>7, <1>8, <1>9, <1>10, <1>11 DEF Step

\* What a step does to the rows and to the event stream.
LEMMA RowEffect ==
  ASSUME Inv, NEW b \in Batches, Step(b)
  PROVE  /\ \/ UNCHANGED <<rows, owner, pending>>
            \/ rows' = rows /\ Release(b)
            \/ pc[b] = "write" /\ Execute(b)
            \/ /\ rows' = [e \in Entities |-> IF owner[e] = b THEN pending[e]
                                                              ELSE rows[e]]
               /\ Release(b)
         /\ log' = log \/ Dispatch(b)
<1>. USE DEF database
<1>1. CASE Refused(b) \/ Start(b)
  BY <1>1 DEF Refused, Start
<1>2. CASE Load(b)
  BY <1>2, FailureEffect DEF Load
<1>3. CASE Reject(b) \/ Violate(b) \/ Victim(b)
  BY <1>3, FailureEffect DEF Reject, Violate, Victim
<1>4. CASE Busy(b)
  BY <1>4 DEF Busy, Rollback
<1>5. CASE Write(b)
  BY <1>5 DEF Write
<1>6. CASE Finish(b)
  BY <1>6 DEF Finish
<1>7. CASE Dispatch(b)
  BY <1>7 DEF Dispatch
<1>8. CASE Outage(b)
  BY <1>8 DEF Outage
<1>. QED  BY <1>1, <1>2, <1>3, <1>4, <1>5, <1>6, <1>7, <1>8 DEF Step

\* The current operation of a batch is about a row.
LEMMA CurrentTouches ==
  ASSUME Inv, NEW b \in Batches, pc[b] \in {"op", "write"}
  PROVE  /\ Current(b) \in Operation
         /\ b \in Touching(Current(b).entity)
<1>1. Len(result[b]) < Len(script[b])
  BY DEF Inv, BatchOK, StageOK
<1>2. Current(b) \in Operation /\ Len(result[b]) + 1 \in Indices(b)
  BY <1>1, Scripted DEF Inv
<1>. QED  BY <1>2 DEF Touching, Current

\* What Execute does to one row.
LEMMA ExecuteRow ==
  ASSUME Inv, NEW b \in Batches, pc[b] = "write", Execute(b), NEW e \in Entities
  PROVE  /\ Current(b).entity # e =>
              rows'[e] = rows[e] /\ owner'[e] = owner[e] /\ pending'[e] = pending[e]
         /\ CanFail(b) => owner'[e] = owner[e] /\ pending'[e] = pending[e]
         /\ ~ CanFail(b) => rows'[e] = rows[e]
         /\ owner'[e] \in {owner[e], b}
         /\ Current(b).entity = e
            /\ (Current(b).type = "create" \/ Visible(b, e) # NULL) =>
              LET row == IF Current(b).type = "delete" THEN NULL ELSE Current(b).value
              IN  IF CanFail(b) THEN rows'[e] = row
                                ELSE owner'[e] = b /\ pending'[e] = row
<1>1. /\ rows \in [Entities -> Values \cup {NULL}]
      /\ owner \in [Entities -> Batches \cup {NULL}]
      /\ pending \in [Entities -> Values \cup {NULL}]
  BY DEF Inv, GlobalOK
<1>2. PICK op, row, x :
        /\ op = Current(b) /\ x = op.entity
        /\ row = IF op.type = "delete" THEN NULL ELSE op.value
  OBVIOUS
<1>3. x \in Entities
  BY <1>2, CurrentTouches DEF Operation
<1>4. CASE op.type = "create" \/ Visible(b, x) # NULL
  <2>1. IF CanFail(b)
        THEN rows' = [rows EXCEPT ![x] = row] /\ UNCHANGED <<owner, pending>>
        ELSE /\ owner' = [owner EXCEPT ![x] = b]
             /\ pending' = [pending EXCEPT ![x] = row] /\ rows' = rows
    BY <1>2, <1>4 DEF Execute
  <2>. QED  BY <2>1, <1>1, <1>2, <1>3
<1>5. CASE ~ (op.type = "create" \/ Visible(b, x) # NULL)
  <2>1. UNCHANGED <<rows, owner, pending>>
    BY <1>2, <1>5 DEF Execute
  <2>. QED  BY <2>1, <1>2, <1>5
<1>. QED  BY <1>4, <1>5

\* Locks are taken only on the rows a batch is about.
LEMMA LocksInv ==
  ASSUME Inv, LocksOK, NEW b \in Batches, Step(b)
  PROVE  LocksOK'
<1>1. script' = script /\ mode' = mode
  BY StepEffect
<1>. SUFFICES ASSUME NEW e \in Entities, owner'[e] # NULL
              PROVE  owner'[e] \in Touching(e) /\ ~ CanFail(owner'[e])
  BY <1>1 DEF LocksOK, Touching, Indices, CanFail
<1>2. owner[e] # NULL => owner[e] \in Touching(e) /\ ~ CanFail(owner[e])
  BY DEF LocksOK
<1>3. CASE UNCHANGED <<rows, owner, pending>>
  BY <1>2, <1>3
<1>4. CASE Release(b)
  BY <1>2, <1>4 DEF Release
<1>5. CASE pc[b] = "write" /\ Execute(b)
  <2>1. CASE owner'[e] = owner[e]
    BY <2>1, <1>2
  <2>2. CASE owner'[e] # owner[e]
    <3>1. owner'[e] = b /\ Current(b).entity = e /\ ~ CanFail(b)
      BY <2>2, <1>5, ExecuteRow
    <3>2. b \in Touching(e)
      BY <3>1, <1>5, CurrentTouches
    <3>. QED  BY <3>1, <3>2
  <2>. QED  BY <2>1, <2>2
<1>. QED  BY <1>3, <1>4, <1>5, RowEffect

\* A batch that is not about a row leaves it alone, and what is said of it.
LEMMA RowLeft ==
  ASSUME Inv, LocksOK, NEW b \in Batches, Step(b),
         NEW e \in Entities, b \notin Touching(e)
  PROVE  /\ rows'[e] = rows[e] /\ owner'[e] = owner[e] /\ pending'[e] = pending[e]
         /\ Heard(e)' = Heard(e)
<1>1. owner[e] # b
  BY ScriptAssumption DEF LocksOK, ScriptAssumption
<1>2. script' = script
  BY StepEffect
<1>3. rows'[e] = rows[e] /\ owner'[e] = owner[e] /\ pending'[e] = pending[e]
  <2>1. CASE UNCHANGED <<rows, owner, pending>>
    BY <2>1
  <2>2. CASE /\ rows' = rows \/ rows' = [x \in Entities |->
                                           IF owner[x] = b THEN pending[x] ELSE rows[x]]
             /\ Release(b)
    BY <2>2, <1>1 DEF Release
  <2>3. CASE pc[b] = "write" /\ Execute(b)
    <3>1. Current(b).entity # e
      BY <2>3, CurrentTouches
    <3>. QED  BY <3>1, <2>3, ExecuteRow
  <2>. QED  BY <2>1, <2>2, <2>3, RowEffect
<1>4. Heard(e)' = Heard(e)
  <2>1. CASE log' = log
    BY <2>1, <1>2 DEF Heard
  <2>2. CASE Dispatch(b)
    <3>1. PICK ev : ev = Head(events[b])
      OBVIOUS
    <3>2. log' = Append(log, ev) /\ log \in Seq(EventRecord) /\ pc[b] = "dispatch"
      BY <3>1, <2>2 DEF Dispatch, Inv, GlobalOK
    <3>3. events[b] # << >> /\ events[b] \in Seq(EventRecord)
      BY <3>2 DEF Inv, GlobalOK, BatchOK, StageOK
    <3>4. ev \in EventRecord /\ 1 \in DOMAIN events[b] /\ ev = events[b][1]
      BY <3>1, <3>3, HeadTailProperties
    <3>5. ev.batch = b /\ ev.op \in Indices(b)
      <4>1. ev.batch = b /\ ev.op \in 1..Len(result[b])
        BY <3>4 DEF Inv, BatchOK, EventsOK
      <4>2. /\ Len(result[b]) \in Nat /\ Len(script[b]) \in Nat
            /\ Indices(b) = 1..Len(script[b]) /\ Len(result[b]) <= Len(script[b])
        BY Scripted DEF Inv, BatchOK, StageOK
      <4>. QED  BY <4>1, <4>2
    <3>6. ~ Concerns(script, ev, e)
      BY <3>5 DEF Concerns, Touching
    <3>. QED  BY <3>2, <3>4, <3>6, <1>2, LatestAppend DEF Heard
  <2>. QED  BY <2>1, <2>2, RowEffect
<1>. QED  BY <1>3, <1>4

\* A row with one batch: what the batch sees of it without a transaction, and
\* before its first event.
LEMMA SoleView ==
  ASSUME Inv, LocksOK, NEW b \in Batches, NEW e \in Entities, FollowOK(b, e)
  PROVE  /\ CanFail(b) => owner[e] # b /\ Visible(b, e) = rows[e]
         /\ pc[b] = "new" => Promised(b, e) = Heard(e) /\ Visible(b, e) = rows[e]
                             /\ rows[e] = Heard(e)
         /\ events[b] = << >> => Promised(b, e) = Heard(e)
<1>1. CanFail(b) => owner[e] # b /\ Visible(b, e) = rows[e]
  BY ScriptAssumption DEF LocksOK, Visible, ScriptAssumption
<1>2. events[b] = << >> => Promised(b, e) = Heard(e)
  <2>1. DOMAIN << >> = {}
    OBVIOUS
  <2>2. ASSUME events[b] = << >>
        PROVE  \A k \in DOMAIN events[b] : ~ Concerns(script, events[b][k], e)
    BY <2>1, <2>2
  <2>. QED  BY <2>2, LatestNone DEF Promised
<1>3. ASSUME pc[b] = "new"
      PROVE  /\ Promised(b, e) = Heard(e) /\ Visible(b, e) = rows[e]
             /\ rows[e] = Heard(e)
  <2>1. result[b] = << >> /\ events[b] = << >>
    BY <1>3 DEF Inv, BatchOK, StageOK
  <2>2. Succeeded(b)
    BY <2>1 DEF Succeeded
  <2>3. Promised(b, e) = Heard(e) /\ Promised(b, e) = Visible(b, e)
    BY <1>2, <1>3, <2>1, <2>2 DEF FollowOK, Running
  <2>4. rows[e] = Heard(e)
    BY <1>1, <1>3, <2>3 DEF FollowOK, Running
  <2>. QED  BY <2>3, <2>4
<1>. QED  BY <1>1, <1>2, <1>3

\* Nothing of the row has changed.
LEMMA ViewStays ==
  ASSUME NEW b \in Batches, NEW e \in Entities, UNCHANGED <<script, log>>
  PROVE  /\ Heard(e)' = Heard(e)
         /\ events'[b] = events[b] => Promised(b, e)' = Promised(b, e)
         /\ events'[b] = << >> => Promised(b, e)' = Heard(e)
         /\ rows'[e] = rows[e] /\ owner'[e] = owner[e] /\ pending'[e] = pending[e]
              => Visible(b, e)' = Visible(b, e)
         /\ owner'[e] # b => Visible(b, e)' = rows'[e]
         /\ Release(b) /\ b # NULL => owner'[e] # b
<1>1. Heard(e)' = Heard(e)
  BY DEF Heard
<1>2. events'[b] = events[b] => Promised(b, e)' = Promised(b, e)
  BY <1>1 DEF Promised
<1>3. events'[b] = << >> => Promised(b, e)' = Heard(e)
  <2>1. DOMAIN << >> = {}
    OBVIOUS
  <2>2. ASSUME events'[b] = << >>
        PROVE  Latest(script', events'[b], e, Heard(e)) = Heard(e)
    BY <2>1, <2>2, LatestNone
  <2>. QED  BY <2>2, <1>1 DEF Promised
<1>. QED  BY <1>1, <1>2, <1>3 DEF Visible, Release

\* A failing operation.
LEMMA FailureFollows ==
  ASSUME Inv, LocksOK, NEW b \in Batches, NEW e \in Entities, FollowOK(b, e),
         NEW aborts \in BOOLEAN, pc[b] \in {"op", "write"}, Failure(b, aborts),
         UNCHANGED <<script, mode, log>>
  PROVE  FollowOK(b, e)'
<1>1. /\ pc \in [Batches -> Labels] /\ result \in [Batches -> Seq(BOOLEAN)]
      /\ events \in [Batches -> Seq(EventRecord)]
      /\ reply \in [Batches -> {NULL, "ok", "failed", "error", "interrupted", "lost"}]
  BY DEF Inv, GlobalOK
<1>2. CanFail(b)' <=> CanFail(b)
  BY DEF CanFail
<1>3. CASE /\ CanFail(b) /\ Advance(b, FALSE)
           /\ UNCHANGED <<database, done, events, reply>>
  <2>1. pc'[b] \in {"op", "commit"}
    BY <1>1, <1>3 DEF Advance, Goto
  <2>2. Promised(b, e)' = Promised(b, e) /\ Visible(b, e)' = Visible(b, e)
    BY <1>3, ViewStays DEF database
  <2>. QED  BY <2>1, <2>2, <1>2, <1>3 DEF FollowOK, Running
<1>4. CASE /\ mode[b] = "collect"
           /\ result' = [result EXCEPT ![b] = Append(@, FALSE)]
           /\ Goto(b, "commit")
           /\ IF aborts THEN Rollback(b) ELSE UNCHANGED <<database, done>>
           /\ UNCHANGED <<events, reply>>
  <2>1. pc'[b] = "commit" /\ ~ CanFail(b) /\ rows' = rows
    BY <1>1, <1>4 DEF Goto, CanFail, Rollback, database
  <2>2. result[b] \in Seq(BOOLEAN)
    BY <1>1
  <2>3. result'[b] = Append(result[b], FALSE)
    BY <1>1, <1>4
  <2>4. ~ Succeeded(b)'
    <3>1. /\ Len(result[b]) + 1 \in DOMAIN Append(result[b], FALSE)
          /\ Append(result[b], FALSE)[Len(result[b]) + 1] = FALSE
      BY <2>2
    <3>. QED  BY <2>3, <3>1 DEF Succeeded
  <2>5. Heard(e)' = Heard(e)
    BY ViewStays
  <2>. QED  BY <2>1, <2>4, <2>5, <1>2 DEF FollowOK, Running
<1>5. CASE /\ mode[b] = "raise"
           /\ Rollback(b)
           /\ Goto(b, "done")
           /\ Answer(b, "error")
           /\ events' = [events EXCEPT ![b] = << >>]
           /\ UNCHANGED result
  <2>1. pc'[b] = "done" /\ ~ CanFail(b) /\ rows' = rows
    BY <1>1, <1>5 DEF Goto, CanFail, Rollback
  <2>2. Heard(e)' = Heard(e)
    BY ViewStays
  <2>. QED  BY <2>1, <2>2, <1>2 DEF FollowOK, Running
<1>. QED  BY <1>3, <1>4, <1>5 DEF Failure

LEMMA FailingFollows ==
  ASSUME Inv, LocksOK, NEW b \in Batches, NEW e \in Entities, FollowOK(b, e),
         Reject(b) \/ Violate(b) \/ Victim(b)
  PROVE  FollowOK(b, e)'
<1>1. CASE Reject(b)
  BY <1>1, FailureFollows DEF Reject
<1>2. CASE Violate(b)
  BY <1>2, FailureFollows DEF Violate
<1>3. CASE Victim(b)
  <2>1. pc[b] = "write"
    BY <1>3 DEF Victim, Deadlocked, Blocked
  <2>. QED  BY <2>1, <1>3, FailureFollows DEF Victim
<1>. QED  BY <1>1, <1>2, <1>3

\* The batch begins, or is refused.
LEMMA BeginFollows ==
  ASSUME Inv, LocksOK, NEW b \in Batches, NEW e \in Entities, FollowOK(b, e),
         Refused(b) \/ Start(b)
  PROVE  FollowOK(b, e)'
<1>1. /\ pc[b] = "new"
      /\ UNCHANGED <<script, mode, rows, owner, pending, result, events, log>>
      /\ pc'[b] \in {"op", "commit", "done"}
  <2>1. pc \in [Batches -> Labels]
    BY DEF Inv, GlobalOK
  <2>2. CASE Refused(b)
    BY <2>1, <2>2 DEF Refused, Goto, database
  <2>3. CASE Start(b)
    BY <2>1, <2>3 DEF Start, Goto, database
  <2>. QED  BY <2>2, <2>3
<1>2. /\ Promised(b, e)' = Promised(b, e) /\ Visible(b, e)' = Visible(b, e)
      /\ Heard(e)' = Heard(e)
  BY <1>1, ViewStays
<1>3. Promised(b, e) = Heard(e) /\ Visible(b, e) = rows[e] /\ rows[e] = Heard(e)
  BY <1>1, SoleView
<1>. QED  BY <1>1, <1>2, <1>3 DEF FollowOK

\* entity_class.load: nobody else will write the row.
LEMMA LoadFollows ==
  ASSUME Inv, LocksOK, NEW b \in Batches, NEW e \in Entities, FollowOK(b, e),
         Load(b)
  PROVE  FollowOK(b, e)'
<1>1. pc[b] = "op" /\ UNCHANGED <<script, mode, log>>
  BY DEF Load
<1>2. CASE Failure(b, FALSE)
  BY <1>1, <1>2, FailureFollows
<1>3. CASE ~ Failure(b, FALSE)
  <2>1. PICK row : row = Visible(b, Current(b).entity)
    OBVIOUS
  <2>2. /\ loaded' = [loaded EXCEPT ![b] = row]
        /\ pc' = [pc EXCEPT ![b] = "write"]
        /\ UNCHANGED <<rows, owner, pending, result, events>>
        /\ Current(b).type # "create" => row # NULL
    BY <1>3, <2>1 DEF Load, Goto, database
  <2>3. /\ pc'[b] = "write" /\ loaded'[b] = row
        /\ Current(b)' = Current(b) /\ (CanFail(b)' <=> CanFail(b))
        /\ (Succeeded(b)' <=> Succeeded(b))
    BY <1>1, <2>2 DEF Inv, GlobalOK, Current, CanFail, Succeeded
  <2>4. /\ Promised(b, e)' = Promised(b, e) /\ Visible(b, e)' = Visible(b, e)
        /\ Heard(e)' = Heard(e) /\ rows'[e] = rows[e]
    BY <1>1, <2>2, ViewStays
  <2>. QED  BY <1>1, <2>1, <2>2, <2>3, <2>4 DEF FollowOK, Running
<1>. QED  BY <1>2, <1>3

\* ServiceUnavailableException: the row and the events are as before the batch.
LEMMA BusyFollows ==
  ASSUME Inv, LocksOK, NEW b \in Batches, NEW e \in Entities, FollowOK(b, e),
         Busy(b)
  PROVE  FollowOK(b, e)'
<1>1. /\ pc[b] = "op" /\ UNCHANGED <<script, mode, rows, log>> /\ Release(b)
      /\ events'[b] = << >>
      /\ \/ pc'[b] = "done" /\ reply'[b] = "error"
         \/ pc'[b] = "op" /\ ~ CanFail(b)
  <2>1. /\ pc \in [Batches -> Labels] /\ events \in [Batches -> Seq(EventRecord)]
        /\ reply \in [Batches -> {NULL, "ok", "failed", "error", "interrupted", "lost"}]
    BY DEF Inv, GlobalOK
  <2>2. /\ events' = [events EXCEPT ![b] = << >>]
        /\ \/ pc' = [pc EXCEPT ![b] = "done"] /\ reply' = [reply EXCEPT ![b] = "error"]
           \/ UNCHANGED pc /\ ~ CanFail(b)
    BY DEF Busy, Goto, Answer
  <2>. QED  BY <2>1, <2>2 DEF Busy, Rollback
<1>2. /\ Promised(b, e)' = Heard(e) /\ Heard(e)' = Heard(e)
      /\ Visible(b, e)' = rows[e]
  BY <1>1, ViewStays, ScriptAssumption DEF ScriptAssumption
<1>3. ~ CanFail(b) => rows[e] = Heard(e)
  BY <1>1 DEF FollowOK, Running
<1>4. CanFail(b)' <=> CanFail(b)
  BY <1>1 DEF CanFail
<1>. QED  BY <1>1, <1>2, <1>3, <1>4 DEF FollowOK, Running, CutShort

\* The statement is executed: the row is what its event says, or as it was.
LEMMA WriteFollows ==
  ASSUME Inv, LocksOK, NEW b \in Batches, NEW e \in Entities, FollowOK(b, e),
         Write(b)
  PROVE  FollowOK(b, e)'
<1>. USE ScriptAssumption DEF ScriptAssumption
<1>1. /\ pc[b] = "write" /\ Execute(b) /\ UNCHANGED <<script, mode, log>>
      /\ events' = [events EXCEPT ![b] = @ \o NewEvents(b)]
      /\ result' = [result EXCEPT ![b] = Append(@, TRUE)]
      /\ \E l \in {"op", "commit"} : pc' = [pc EXCEPT ![b] = l]
  BY DEF Write, Advance, Goto
<1>2. PICK ev, x, row :
        /\ ev = Event(b, Len(result[b]) + 1) /\ x = Current(b).entity
        /\ row = IF Current(b).type = "delete" THEN NULL ELSE Current(b).value
  OBVIOUS
<1>3. /\ events \in [Batches -> Seq(EventRecord)]
      /\ result \in [Batches -> Seq(BOOLEAN)]
      /\ pc'[b] \in {"op", "commit"} /\ ev \in EventRecord
  <2>1. Len(result[b]) + 1 \in Nat
    BY Scripted DEF Inv
  <2>. QED  BY <1>1, <1>2, <2>1 DEF Inv, GlobalOK, Event, EventRecord
<1>4. \/ /\ events'[b] = events[b]
         /\ Current(b).type = "update" /\ Current(b).value = loaded[b]
      \/ events'[b] = Append(events[b], ev)
  <2>1. /\ events[b] \o << >> = events[b]
        /\ events[b] \o <<ev>> = Append(events[b], ev)
    BY <1>3, Added
  <2>2. events'[b] = events[b] \o NewEvents(b)
    BY <1>1, <1>3
  <2>. QED  BY <2>1, <2>2, <1>2 DEF NewEvents
<1>5. (Concerns(script, ev, e) <=> x = e) /\ Meaning(script, ev) = row
  BY <1>2 DEF Concerns, Meaning, Event, Current
<1>6. Succeeded(b)' => Succeeded(b)
  <2>1. result'[b] = Append(result[b], TRUE) /\ result[b] \in Seq(BOOLEAN)
    BY <1>1, <1>3
  <2>2. PICK q \in Seq(BOOLEAN) : q = Append(result[b], TRUE)
    BY <2>1, AppendTrue
  <2>3. Len(q) = Len(result[b]) + 1 /\ \A n \in 1..Len(result[b]) : q[n] = result[b][n]
    BY <2>1, <2>2, AppendTrue, Zenon
  <2>4. /\ DOMAIN q = 1..Len(q) /\ DOMAIN result[b] = 1..Len(result[b])
        /\ Len(result[b]) \in Nat
    BY <2>1
  <2>5. DOMAIN result[b] \subseteq DOMAIN q
    BY <2>3, <2>4
  <2>. QED  BY <2>1, <2>2, <2>3, <2>4, <2>5, Zenon DEF Succeeded
<1>7. Heard(e)' = Heard(e) /\ (CanFail(b)' <=> CanFail(b))
  BY <1>1, ViewStays DEF CanFail
<1>8. Promised(b, e)' = IF events'[b] = events[b] \/ x # e THEN Promised(b, e) ELSE row
  <2>1. Promised(b, e)' = Latest(script, events'[b], e, Heard(e))
    BY <1>1, <1>7 DEF Promised
  <2>2. Latest(script, Append(events[b], ev), e, Heard(e)) =
          IF Concerns(script, ev, e) THEN Meaning(script, ev)
                                     ELSE Latest(script, events[b], e, Heard(e))
    BY <1>3, LatestAppend
  <2>3. events[b] \in Seq(EventRecord)
    BY <1>3
  <2>4. Append(events[b], ev) # events[b]
    BY <2>3
  <2>5. CASE events'[b] = events[b]
    BY <2>1, <2>5 DEF Promised
  <2>6. CASE events'[b] = Append(events[b], ev)
    BY <2>1, <2>2, <2>4, <2>6, <1>5 DEF Promised
  <2>. QED  BY <2>5, <2>6, <1>4
<1>9. ~ CanFail(b) => rows'[e] = rows[e]
  BY <1>1, ExecuteRow
<1>10. CanFail(b) \/ Succeeded(b) => Promised(b, e) = Visible(b, e)
  BY <1>1 DEF FollowOK, Running
<1>11. ASSUME CanFail(b) \/ Succeeded(b)
       PROVE  Promised(b, e)' = Visible(b, e)'
  <2>1. CASE x # e
    <3>1. rows'[e] = rows[e] /\ owner'[e] = owner[e] /\ pending'[e] = pending[e]
      BY <2>1, <1>1, <1>2, ExecuteRow
    <3>2. Visible(b, e)' = Visible(b, e)
      BY <3>1 DEF Visible
    <3>. QED  BY <3>2, <2>1, <1>8, <1>10, <1>11
  <2>2. CASE x = e
    <3>1. loaded[b] = Visible(b, e) /\ (Current(b).type # "create" => loaded[b] # NULL)
      BY <2>2, <1>1, <1>2 DEF FollowOK
    <3>2. IF CanFail(b) THEN rows'[e] = row
                        ELSE owner'[e] = b /\ pending'[e] = row
      BY <3>1, <2>2, <1>1, <1>2, ExecuteRow
    <3>3. CanFail(b) => owner'[e] = owner[e] /\ owner[e] # b
      BY <1>1, ExecuteRow, SoleView
    <3>4. Visible(b, e)' = row
      BY <3>2, <3>3 DEF Visible
    <3>5. events'[b] = events[b] => row = Promised(b, e)
      <4>1. events[b] \in Seq(EventRecord)
        BY <1>3
      <4>2. Append(events[b], ev) # events[b]
        BY <4>1
      <4>. QED  BY <4>2, <3>1, <1>2, <1>4, <1>10, <1>11
    <3>. QED  BY <3>4, <3>5, <2>2, <1>8
  <2>. QED  BY <2>1, <2>2
<1>. QED  BY <1>1, <1>3, <1>6, <1>7, <1>9, <1>11 DEF FollowOK, Running

\* The transaction is committed: the row is what the batch has seen.
LEMMA FinishFollows ==
  ASSUME Inv, LocksOK, NEW b \in Batches, NEW e \in Entities, FollowOK(b, e),
         Finish(b)
  PROVE  FollowOK(b, e)'
<1>. USE ScriptAssumption DEF ScriptAssumption
<1>1. PICK kept : kept = IF CanFail(b) \/ Succeeded(b) THEN events[b] ELSE << >>
  OBVIOUS
<1>2. /\ pc[b] = "commit" /\ UNCHANGED <<script, mode, result, log>>
      /\ rows'[e] = Visible(b, e)
      /\ events'[b] = kept /\ pc'[b] = IF kept = << >> THEN "done" ELSE "dispatch"
      /\ kept = << >> => reply'[b] = Outcome(b)
  <2>1. /\ pc \in [Batches -> Labels] /\ events \in [Batches -> Seq(EventRecord)]
        /\ reply \in [Batches -> {NULL, "ok", "failed", "error", "interrupted", "lost"}]
    BY DEF Inv, GlobalOK
  <2>2. /\ pc[b] = "commit" /\ UNCHANGED <<script, mode, result, log>>
        /\ rows' = [x \in Entities |-> IF owner[x] = b THEN pending[x] ELSE rows[x]]
        /\ events' = [events EXCEPT ![b] = kept]
        /\ pc' = [pc EXCEPT ![b] = IF kept = << >> THEN "done" ELSE "dispatch"]
        /\ kept = << >> => reply' = [reply EXCEPT ![b] = Outcome(b)]
    BY <1>1 DEF Finish, Goto, Answer
  <2>. QED  BY <2>1, <2>2 DEF Visible
<1>3. Heard(e)' = Heard(e)
  BY <1>2, ViewStays
<1>4. CASE CanFail(b) \/ Succeeded(b)
  <2>1. Promised(b, e) = Visible(b, e)
    BY <1>2, <1>4 DEF FollowOK, Running
  <2>2. Promised(b, e)' = Promised(b, e)
    BY <1>1, <1>2, <1>4, ViewStays
  <2>3. kept = << >> => Promised(b, e)' = Heard(e)
    BY <1>2, ViewStays
  <2>. QED  BY <2>1, <2>2, <2>3, <1>2, <1>3 DEF FollowOK, Running
<1>5. CASE ~ CanFail(b) /\ ~ Succeeded(b)
  <2>1. mode[b] # "raise"
    BY <1>2, <1>5 DEF Inv, BatchOK, RaiseOK, Running
  <2>2. mode[b] = "collect"
    BY <2>1, <1>5 DEF Inv, GlobalOK, CanFail
  <2>3. reply'[b] = "failed" /\ pc'[b] = "done"
    BY <1>1, <1>2, <1>5 DEF Outcome
  <2>4. CutShort(b)'
    BY <2>2, <2>3, <1>2 DEF CutShort
  <2>. QED  BY <2>3, <2>4 DEF FollowOK, Running
<1>. QED  BY <1>4, <1>5

\* An event is dispatched: it moves from what is promised to what is heard.
LEMMA DispatchFollows ==
  ASSUME Inv, LocksOK, NEW b \in Batches, NEW e \in Entities, FollowOK(b, e),
         Dispatch(b)
  PROVE  FollowOK(b, e)'
<1>1. /\ pc[b] = "dispatch" /\ UNCHANGED <<script, mode, rows>>
      /\ log' = Append(log, Head(events[b])) /\ events'[b] = Tail(events[b])
      /\ pc'[b] = (IF Len(events[b]) = 1 THEN "done" ELSE "dispatch")
  <2>1. pc \in [Batches -> Labels] /\ events \in [Batches -> Seq(EventRecord)]
    BY DEF Inv, GlobalOK
  <2>. QED  BY <2>1 DEF Dispatch, Goto, database
<1>2. events[b] \in Seq(EventRecord) /\ events[b] # << >> /\ log \in Seq(EventRecord)
  BY <1>1 DEF Inv, GlobalOK, BatchOK, StageOK
<1>3. PICK ev \in EventRecord : ev = Head(events[b])
  BY <1>2, HeadTailProperties
<1>4. Heard(e)' = IF Concerns(script, ev, e) THEN Meaning(script, ev) ELSE Heard(e)
  BY <1>1, <1>2, <1>3, LatestAppend DEF Heard
<1>5. Promised(b, e)' = Promised(b, e)
  BY <1>1, <1>2, <1>3, <1>4, LatestTail DEF Promised
<1>6. Promised(b, e) = rows[e]
  BY <1>1 DEF FollowOK
<1>7. ASSUME Len(events[b]) = 1 PROVE Promised(b, e)' = Heard(e)'
  <2>1. PICK t \in Seq(EventRecord) : t = Tail(events[b]) /\ Len(t) = Len(events[b]) - 1
    BY <1>2, HeadTailProperties
  <2>2. Len(t) = 0 /\ DOMAIN t = 1..Len(t)
    BY <2>1, <1>7
  <2>3. \A k \in DOMAIN t : ~ Concerns(script', t[k], e)
    BY <2>2
  <2>4. PICK heard : heard = Heard(e)'
    OBVIOUS
  <2>5. Latest(script', t, e, heard) = heard
    BY <2>3, LatestNone
  <2>. QED  BY <2>1, <2>4, <2>5, <1>1 DEF Promised
<1>. QED  BY <1>1, <1>5, <1>6, <1>7 DEF FollowOK, Running

\* A step of the only batch that is about a row.
LEMMA SoleFollows ==
  ASSUME Inv, LocksOK, NEW b \in Batches, NEW e \in Entities, FollowOK(b, e),
         Step(b), NoFailures, NoFailures'
  PROVE  FollowOK(b, e)'
<1>1. ~ Outage(b)
  BY DEF Outage, NoFailures, Inv, GlobalOK
<1>. QED
  BY <1>1, BeginFollows, LoadFollows, FailingFollows, BusyFollows, WriteFollows,
     FinishFollows, DispatchFollows DEF Step

\* A step of another one.
LEMMA OthersFollow ==
  ASSUME Inv, LocksOK, NEW b \in Batches, NEW e \in Entities, FollowOK(b, e),
         NEW c \in Batches, c # b, Step(c), c \notin Touching(e)
  PROVE  FollowOK(b, e)'
<1>1. /\ UNCHANGED <<script, mode>>
      /\ pc'[b] = pc[b] /\ result'[b] = result[b] /\ events'[b] = events[b]
      /\ reply'[b] = reply[b] /\ loaded'[b] = loaded[b]
      /\ rows'[e] = rows[e] /\ owner'[e] = owner[e] /\ pending'[e] = pending[e]
      /\ Heard(e)' = Heard(e)
  BY StepEffect, StepLeaves, RowLeft
<1>2. /\ Promised(b, e)' = Promised(b, e) /\ Visible(b, e)' = Visible(b, e)
      /\ Current(b)' = Current(b) /\ (CanFail(b)' <=> CanFail(b))
      /\ (Succeeded(b)' <=> Succeeded(b)) /\ (CutShort(b)' <=> CutShort(b))
  BY <1>1 DEF Promised, Visible, Current, CanFail, Succeeded, CutShort
<1>. QED  BY <1>1, <1>2 DEF FollowOK

FollowingInv == LocksOK /\ UntouchedOK /\ ListenersOK

\* At first everybody knows the rows.
LEMMA FollowingInit == Init => FollowingInv
<1>. SUFFICES ASSUME Init PROVE FollowingInv
  OBVIOUS
<1>. USE ScriptAssumption DEF ScriptAssumption, Init
<1>1. LocksOK /\ UntouchedOK
  BY DEF LocksOK, UntouchedOK
<1>2. ASSUME NEW e \in Entities, NEW b \in Batches PROVE FollowOK(b, e)
  <2>1. DOMAIN log = {} /\ DOMAIN events[b] = {} /\ rows[e] = InitialRows[e]
    OBVIOUS
  <2>2. Heard(e) = rows[e]
    BY <2>1, LatestNone DEF Heard
  <2>3. Promised(b, e) = Heard(e)
    BY <2>1, LatestNone DEF Promised
  <2>4. Visible(b, e) = rows[e]
    BY DEF Visible
  <2>5. pc[b] = "new"
    OBVIOUS
  <2>. QED  BY <2>2, <2>3, <2>4, <2>5 DEF FollowOK
<1>. QED  BY <1>1, <1>2 DEF FollowingInv, ListenersOK

LEMMA FollowingStep ==
  ASSUME Inv, FollowingInv, NEW b \in Batches, Step(b)
  PROVE  FollowingInv'
<1>1. LocksOK' /\ \A e : Touching(e)' = Touching(e)
  BY LocksInv, StepEffect DEF FollowingInv, Touching, Indices
<1>2. UntouchedOK'
  BY <1>1, RowLeft DEF FollowingInv, UntouchedOK
<1>3. ListenersOK'
  <2>. SUFFICES ASSUME NoFailures', NEW e \in Entities, NEW c \in Batches,
                       Touching(e) \subseteq {c}
                PROVE  FollowOK(c, e)'
    BY <1>1 DEF ListenersOK
  <2>1. NoFailures
    <3>1. faults \in [busy : 0..MaxBusy, outages : 0..MaxOutages,
                      crashes : 0..MaxCrashes]
      BY DEF Inv, GlobalOK
    <3>2. \/ faults' = faults
          \/ faults' = [faults EXCEPT !.busy = @ + 1]
          \/ faults' = [faults EXCEPT !.outages = @ + 1]
      BY DEF Step, Refused, Start, Load, Reject, Busy, Write, Violate, Victim, Finish,
             Dispatch, Outage
    <3>3. faults' # [faults EXCEPT !.outages = @ + 1]
      BY <3>1 DEF NoFailures
    <3>. QED  BY <3>1, <3>2, <3>3 DEF NoFailures
  <2>2. FollowOK(c, e)
    BY <2>1 DEF FollowingInv, ListenersOK
  <2>3. CASE c = b
    BY <2>1, <2>2, <2>3, SoleFollows DEF FollowingInv
  <2>4. CASE c # b
    BY <2>2, <2>4, OthersFollow DEF FollowingInv
  <2>. QED  BY <2>3, <2>4
<1>. QED  BY <1>1, <1>2, <1>3 DEF FollowingInv

\* After a crash nothing is claimed any more.
LEMMA FollowingCrash ==
  ASSUME Inv, FollowingInv, NEW lost, CrashWith(lost)
  PROVE  FollowingInv'
<1>1. /\ owner' = [e \in Entities |-> NULL] /\ UNCHANGED <<script, rows>>
      /\ faults' = [faults EXCEPT !.crashes = @ + 1]
  BY DEF CrashWith
<1>2. ~ NoFailures'
  <2>1. faults \in [busy : 0..MaxBusy, outages : 0..MaxOutages, crashes : 0..MaxCrashes]
    BY DEF Inv, GlobalOK
  <2>. QED  BY <2>1, <1>1 DEF NoFailures
<1>3. LocksOK' /\ UntouchedOK'
  BY <1>1 DEF FollowingInv, LocksOK, UntouchedOK, Touching, Indices
<1>. QED  BY <1>2, <1>3 DEF FollowingInv, ListenersOK

LEMMA FollowingStays ==
  ASSUME FollowingInv, UNCHANGED vars
  PROVE  FollowingInv'
<1>1. /\ UNCHANGED <<script, mode, rows, owner, pending, applied>>
      /\ UNCHANGED <<pc, attempt, loaded, done, result, events, reply, log, faults>>
  BY DEF vars, database, progress
<1>2. /\ \A e : Touching(e)' = Touching(e) /\ Heard(e)' = Heard(e)
      /\ \A b : CanFail(b)' <=> CanFail(b)
      /\ \A b : Succeeded(b)' <=> Succeeded(b)
      /\ \A b : CutShort(b)' <=> CutShort(b)
      /\ \A b : Current(b)' = Current(b)
      /\ \A b, e : Visible(b, e)' = Visible(b, e)
      /\ NoFailures' <=> NoFailures
  BY <1>1 DEF Touching, Indices, Heard, CanFail, Succeeded, CutShort, Current, Visible,
              NoFailures
<1>3. \A b, e : Promised(b, e)' = Promised(b, e)
  BY <1>1, <1>2 DEF Promised
<1>4. LocksOK' /\ UntouchedOK'
  BY <1>1, <1>2 DEF FollowingInv, LocksOK, UntouchedOK
<1>5. \A b \in Batches, e \in Entities : FollowOK(b, e)' <=> FollowOK(b, e)
  BY <1>1, <1>2, <1>3 DEF FollowOK
<1>6. ListenersOK'
  BY <1>2, <1>5 DEF FollowingInv, ListenersOK
<1>. QED  BY <1>4, <1>6 DEF FollowingInv

LEMMA FollowingAlways == BackgroundSpec => []FollowingInv
<1>1. BackgroundInit => FollowingInv
  BY FollowingInit DEF BackgroundInit
<1>2. ASSUME Inv, FollowingInv, [BackgroundNext]_backgroundVars
      PROVE  FollowingInv'
  <2>1. CASE UNCHANGED vars
    BY <1>2, <2>1, FollowingStays
  <2>2. ASSUME NEW b \in Batches, Step(b) PROVE FollowingInv'
    BY <1>2, <2>2, FollowingStep
  <2>3. ASSUME NEW lost, CrashWith(lost) PROVE FollowingInv'
    BY <1>2, <2>3, FollowingCrash
  <2>. QED  BY <1>2, <2>1, <2>2, <2>3, BackgroundStep DEF Next, Crash
<1>. QED  BY <1>1, <1>2, OperationsAlways, PTL DEF BackgroundSpec

\* A row that at most one batch is about, when all is done.
LEMMA InvReplay ==
  ASSUME Inv, FollowingInv, IsFiniteSet(Batches)
  PROVE  ReplayMatches
<1>. SUFFICES ASSUME \A b \in Batches : pc[b] = "done" /\ ~ CutShort(b), NoFailures,
                     NEW e \in Entities, Cardinality(Touching(e)) <= 1
              PROVE  Heard(e) = rows[e]
  BY ReplayIsHeard DEF ReplayMatches, NoFailures
<1>1. IsFiniteSet(Touching(e))
  BY FS_Subset DEF Touching
<1>2. Cardinality(Touching(e)) \in Nat
  BY <1>1, FS_CardinalityType
<1>3. Cardinality(Touching(e)) = 0 \/ Cardinality(Touching(e)) = 1
  BY <1>2
<1>4. CASE Touching(e) = {}
  <2>1. \A k \in DOMAIN log : ~ Concerns(script, log[k], e)
    BY <1>4, LogTouches
  <2>2. Heard(e) = InitialRows[e]
    BY <2>1, LatestNone DEF Heard
  <2>. QED  BY <2>2, <1>4 DEF FollowingInv, UntouchedOK
<1>5. CASE \E b : Touching(e) = {b}
  <2>1. PICK b : Touching(e) = {b}
    BY <1>5
  <2>2. b \in Batches
    BY <2>1 DEF Touching
  <2>3. FollowOK(b, e)
    BY <2>1, <2>2 DEF FollowingInv, ListenersOK
  <2>. QED  BY <2>2, <2>3 DEF FollowOK
<1>. QED  BY <1>1, <1>3, <1>4, <1>5, FS_EmptySet, FS_Singleton

\* A listener that follows the events of requests and of background tasks knows
\* the rows when they are processed, whatever was retried, rolled back or waited
\* for, and however the events of one batch come between those of another.
THEOREM ListenersKnow ==
  ASSUME IsFiniteSet(Batches)
  PROVE  BackgroundSpec => []ReplayMatches
BY InvReplay, OperationsAlways, FollowingAlways, PTL
-----------------------------------------------------------------------------
(* What a completed status says *)

\* The operations that have succeeded are done or committed; a batch that is
\* answered with "ok" is committed.
SuccessOK(b) ==
  /\ pc[b] \in Running /\ ~ CanFail(b) /\ Succeeded(b) => done[b] = 1..Len(result[b])
  /\ CanFail(b) => \A i \in DOMAIN result[b] : result[b][i] => <<b, i>> \in applied
  /\ pc[b] = "commit" /\ Succeeded(b) => Len(result[b]) = Len(script[b])
  /\ pc[b] = "dispatch" /\ Succeeded(b) =>
       \A i \in Indices(b) : <<b, i>> \in applied
  /\ reply[b] = "ok" => \A i \in Indices(b) : <<b, i>> \in applied

SuccessInv == \A b \in Batches : SuccessOK(b)

\* Nothing that is committed is undone.
LEMMA AppliedGrows ==
  ASSUME Inv, NEW b \in Batches, Step(b)
  PROVE  \A p : p \in applied => p \in applied'
BY StepEffect

\* What Append adds when an operation fails.
LEMMA AppendFalse ==
  ASSUME NEW r \in Seq(BOOLEAN)
  PROVE  \E q \in Seq(BOOLEAN) :
           /\ q = Append(r, FALSE)
           /\ DOMAIN q = DOMAIN r \cup {Len(r) + 1}
           /\ Len(r) + 1 \notin DOMAIN r
           /\ ~ q[Len(r) + 1]
           /\ \A n \in DOMAIN r : q[n] = r[n]
<1>1. PICK S, elt : S = BOOLEAN /\ elt = FALSE
  OBVIOUS
<1>2. r \in Seq(S) /\ elt \in S
  BY <1>1
<1>3. PICK q : q = Append(r, elt)
  OBVIOUS
<1>4. /\ q \in Seq(S)
      /\ DOMAIN q = DOMAIN r \cup {Len(r) + 1} /\ Len(r) + 1 \notin DOMAIN r
      /\ q[Len(r) + 1] = elt /\ \A n \in DOMAIN r : q[n] = r[n]
  BY <1>2, <1>3
<1>. QED  BY <1>1, <1>3, <1>4, Zenon

\* A failing operation.
LEMMA FailureSuccess ==
  ASSUME Inv, NEW b \in Batches, SuccessOK(b), NEW aborts \in BOOLEAN,
         pc[b] \in {"op", "write"}, Failure(b, aborts), UNCHANGED <<script, mode>>
  PROVE  SuccessOK(b)'
<1>1. /\ pc \in [Batches -> Labels] /\ result \in [Batches -> Seq(BOOLEAN)]
      /\ reply \in [Batches -> {NULL, "ok", "failed", "error", "interrupted", "lost"}]
  BY DEF Inv, GlobalOK
<1>2. /\ (CanFail(b)' <=> CanFail(b)) /\ Indices(b)' = Indices(b)
      /\ applied' = applied
  BY FailureEffect DEF CanFail, Indices
<1>3. CASE mode[b] = "raise" /\ Goto(b, "done") /\ Answer(b, "error")
  <2>1. pc'[b] = "done" /\ reply'[b] = "error" /\ ~ CanFail(b)
    BY <1>1, <1>3 DEF Goto, Answer, CanFail
  <2>. QED  BY <2>1, <1>2 DEF SuccessOK, Running
<1>4. CASE /\ result' = [result EXCEPT ![b] = Append(@, FALSE)]
           /\ UNCHANGED reply
           /\ \E l \in {"op", "commit"} : Goto(b, l)
  <2>1. result'[b] = Append(result[b], FALSE) /\ result[b] \in Seq(BOOLEAN)
        /\ pc'[b] \in {"op", "commit"}
    BY <1>1, <1>4 DEF Goto
  <2>2. PICK q \in Seq(BOOLEAN) :
          /\ q = Append(result[b], FALSE)
          /\ DOMAIN q = DOMAIN result[b] \cup {Len(result[b]) + 1}
          /\ Len(result[b]) + 1 \notin DOMAIN result[b]
          /\ ~ q[Len(result[b]) + 1]
          /\ \A n \in DOMAIN result[b] : q[n] = result[b][n]
    BY <2>1, AppendFalse
  <2>3. /\ DOMAIN q = DOMAIN result[b] \cup {Len(result[b]) + 1}
        /\ Len(result[b]) + 1 \notin DOMAIN result[b]
        /\ ~ q[Len(result[b]) + 1]
        /\ \A n \in DOMAIN result[b] : q[n] = result[b][n]
    BY <2>2, Zenon
  <2>4. ~ Succeeded(b)'
    <3>1. \E n \in DOMAIN q : ~ q[n]
      BY <2>3
    <3>. QED  BY <2>1, <2>2, <3>1 DEF Succeeded
  <2>5. CanFail(b) => \A i \in DOMAIN q : q[i] => <<b, i>> \in applied
    <3>1. CanFail(b) => \A i \in DOMAIN result[b] : result[b][i] => <<b, i>> \in applied
      BY DEF SuccessOK
    <3>. QED  BY <2>3, <3>1, Zenon
  <2>. QED  BY <2>1, <2>2, <2>4, <2>5, <1>2, <1>4 DEF SuccessOK
<1>. QED  BY <1>3, <1>4 DEF Failure, Advance

\* The operation is executed.
LEMMA WriteSuccess ==
  ASSUME Inv, NEW b \in Batches, SuccessOK(b), Write(b)
  PROVE  SuccessOK(b)'
<1>1. /\ pc[b] = "write" /\ Execute(b) /\ UNCHANGED <<script, mode, reply>>
      /\ result' = [result EXCEPT ![b] = Append(@, TRUE)]
      /\ pc' = [pc EXCEPT ![b] = IF Len(result[b]) + 1 = Len(script[b])
                                 THEN "commit" ELSE "op"]
  BY DEF Write, Advance, Goto
<1>2. /\ pc \in [Batches -> Labels] /\ result \in [Batches -> Seq(BOOLEAN)]
      /\ done \in [Batches -> SUBSET Nat]
  BY DEF Inv, GlobalOK
<1>3. PICK q \in Seq(BOOLEAN), n \in Nat :
        /\ result'[b] = q /\ n = Len(result[b]) /\ Len(q) = n + 1
        /\ DOMAIN q = 1..(n + 1) /\ DOMAIN result[b] = 1..n
        /\ q[n + 1] /\ \A i \in 1..n : q[i] = result[b][i]
  <2>1. result[b] \in Seq(BOOLEAN) /\ result'[b] = Append(result[b], TRUE)
    BY <1>1, <1>2
  <2>2. PICK q \in Seq(BOOLEAN) : q = Append(result[b], TRUE)
    BY <2>1, AppendTrue
  <2>3. /\ Len(q) = Len(result[b]) + 1
        /\ \A i \in 1..Len(result[b]) : q[i] = result[b][i]
        /\ q[Len(result[b]) + 1]
    BY <2>1, <2>2, AppendTrue, Zenon
  <2>4. /\ DOMAIN q = 1..Len(q) /\ DOMAIN result[b] = 1..Len(result[b])
        /\ Len(result[b]) \in Nat
    BY <2>1
  <2>. QED  BY <2>1, <2>2, <2>3, <2>4, Zenon
<1>4. 1..(n + 1) = 1..n \cup {n + 1}
  BY <1>3
<1>5. (CanFail(b)' <=> CanFail(b)) /\ Indices(b)' = Indices(b)
  BY <1>1 DEF CanFail, Indices
<1>6. \/ CanFail(b) /\ applied' = applied \cup {<<b, n + 1>>}
      \/ ~ CanFail(b) /\ done'[b] = done[b] \cup {n + 1} /\ applied' = applied
  <2>1. \/ CanFail(b) /\ applied' = applied \cup {<<b, n + 1>>}
        \/ /\ ~ CanFail(b) /\ done' = [done EXCEPT ![b] = @ \cup {n + 1}]
           /\ applied' = applied
    BY <1>1, <1>3 DEF Execute
  <2>. QED  BY <2>1, <1>2
<1>7. Succeeded(b)' => Succeeded(b)
  <2>1. (\A i \in DOMAIN q : q[i]) => (\A i \in DOMAIN result[b] : result[b][i])
    BY <1>3, <1>4, Zenon
  <2>. QED  BY <2>1, <1>3 DEF Succeeded
<1>8. ~ CanFail(b) /\ Succeeded(b)' => done'[b] = 1..Len(q)
  <2>1. ~ CanFail(b) /\ Succeeded(b) => done[b] = 1..n
    BY <1>1, <1>3 DEF SuccessOK, Running
  <2>. QED  BY <2>1, <1>3, <1>4, <1>6, <1>7
<1>9. CanFail(b) => \A i \in DOMAIN q : q[i] => <<b, i>> \in applied'
  <2>1. CanFail(b) => \A i \in 1..n : result[b][i] => <<b, i>> \in applied
    BY <1>3, Zenon DEF SuccessOK
  <2>2. CanFail(b) => \A i : <<b, i>> \in applied' <=> <<b, i>> \in applied \/ i = n + 1
    BY <1>6
  <2>. QED  BY <2>1, <2>2, <1>3, <1>4, Zenon
<1>10. pc'[b] \in {"op", "commit"} /\ (pc'[b] = "commit" => Len(q) = Len(script[b]))
  BY <1>1, <1>2, <1>3
<1>11. reply[b] # "ok"
  BY <1>1, ScriptAssumption DEF Inv, BatchOK, StageOK, Running, ScriptAssumption
<1>12. (pc'[b] \in Running /\ ~ CanFail(b)' /\ Succeeded(b)' =>
          done'[b] = 1..Len(result'[b]))
       /\ (pc'[b] = "commit" /\ Succeeded(b)' => Len(result'[b]) = Len(script'[b]))
  BY <1>1, <1>3, <1>5, <1>8, <1>10
<1>13. CanFail(b)' => \A i \in DOMAIN result'[b] : result'[b][i] => <<b, i>> \in applied'
  BY <1>3, <1>5, <1>9, Zenon
<1>. QED  BY <1>1, <1>10, <1>11, <1>12, <1>13 DEF SuccessOK

\* The other steps of the batch.
LEMMA StepSuccess ==
  ASSUME Inv, NEW b \in Batches, SuccessOK(b), Step(b)
  PROVE  SuccessOK(b)'
<1>1. /\ pc \in [Batches -> Labels] /\ result \in [Batches -> Seq(BOOLEAN)]
      /\ done \in [Batches -> SUBSET Nat]
      /\ reply \in [Batches -> {NULL, "ok", "failed", "error", "interrupted", "lost"}]
      /\ StageOK(b)
  BY DEF Inv, GlobalOK, BatchOK
<1>2. UNCHANGED <<script, mode>> /\ \A p : p \in applied => p \in applied'
  BY StepEffect, AppliedGrows
<1>3. (CanFail(b)' <=> CanFail(b)) /\ Indices(b)' = Indices(b)
  BY <1>2 DEF CanFail, Indices
<1>4. CASE Refused(b) \/ Start(b)
  <2>1. /\ UNCHANGED <<applied, done, result>> /\ pc[b] = "new"
        /\ (Succeeded(b)' <=> Succeeded(b))
    BY <1>4 DEF Refused, Start, database, Succeeded
  <2>2. \/ pc'[b] = "done" /\ reply'[b] = "error"
        \/ pc'[b] = "op" /\ reply' = reply
        \/ pc'[b] = "commit" /\ reply' = reply /\ script[b] = << >>
    BY <1>1, <1>4 DEF Refused, Start, Goto, Answer
  <2>3. script[b] = << >> => Len(result[b]) = Len(script[b])
    BY <1>1, <2>1 DEF StageOK
  <2>. QED  BY <2>1, <2>2, <2>3, <1>2, <1>3 DEF SuccessOK, Running
<1>5. CASE Load(b)
  <2>1. CASE Failure(b, FALSE)
    BY <2>1, <1>2, <1>5, FailureSuccess DEF Load
  <2>2. CASE ~ Failure(b, FALSE)
    <3>1. /\ UNCHANGED <<applied, done, result, reply>> /\ pc[b] = "op"
          /\ pc'[b] = "write"
      BY <1>1, <1>5, <2>2 DEF Load, Goto, database
    <3>2. Succeeded(b)' <=> Succeeded(b)
      BY <3>1 DEF Succeeded
    <3>. QED  BY <3>1, <3>2, <1>2, <1>3 DEF SuccessOK, Running
  <2>. QED  BY <2>1, <2>2
<1>6. CASE Reject(b) \/ Violate(b) \/ Victim(b)
  <2>1. Victim(b) => pc[b] = "write"
    BY DEF Victim, Deadlocked, Blocked
  <2>. QED  BY <2>1, <1>2, <1>6, FailureSuccess DEF Reject, Violate, Victim
<1>7. CASE Write(b)
  BY <1>7, WriteSuccess
<1>8. CASE Busy(b)
  <2>1. applied' = applied /\ done'[b] = {}
    BY <1>1, <1>8 DEF Busy, Rollback, Release
  <2>2. \/ pc'[b] = "done" /\ reply'[b] = "error" /\ result' = result
        \/ /\ ~ CanFail(b) /\ result'[b] = << >> /\ pc' = pc /\ pc[b] = "op"
           /\ reply' = reply
    BY <1>1, <1>8 DEF Busy, Goto, Answer
  <2>3. CASE pc'[b] = "done" /\ reply'[b] = "error" /\ result' = result
    BY <2>1, <2>3, <1>2, <1>3 DEF SuccessOK, Running
  <2>4. CASE /\ ~ CanFail(b) /\ result'[b] = << >> /\ pc' = pc /\ pc[b] = "op"
             /\ reply' = reply
    <3>1. Len(result'[b]) = 0 /\ 1..0 = {}
      BY <2>4
    <3>2. done'[b] = 1..Len(result'[b])
      BY <3>1, <2>1
    <3>. QED  BY <3>2, <2>1, <2>4, <1>2, <1>3 DEF SuccessOK
  <2>. QED  BY <2>2, <2>3, <2>4
<1>9. CASE Finish(b)
  <2>1. PICK kept : kept = IF CanFail(b) \/ Succeeded(b) THEN events[b] ELSE << >>
    OBVIOUS
  <2>2. /\ pc[b] = "commit" /\ result' = result /\ pc'[b] \in {"dispatch", "done"}
        /\ applied' = applied \cup ({b} \X done[b])
        /\ reply'[b] = Outcome(b) \/ reply'[b] = reply[b]
    <3>1. /\ pc[b] = "commit" /\ result' = result
          /\ applied' = applied \cup ({b} \X done[b])
          /\ pc' = [pc EXCEPT ![b] = IF kept = << >> THEN "done" ELSE "dispatch"]
          /\ reply' = [reply EXCEPT ![b] = Outcome(b)] \/ UNCHANGED reply
      BY <2>1, <1>9 DEF Finish, Goto, Answer
    <3>. QED  BY <3>1, <1>1
  <2>3. Succeeded(b)' <=> Succeeded(b)
    BY <2>2 DEF Succeeded
  <2>4. ASSUME Succeeded(b) PROVE \A i \in Indices(b) : <<b, i>> \in applied'
    <3>1. Len(result[b]) = Len(script[b])
      BY <2>2, <2>4 DEF SuccessOK
    <3>2. DOMAIN result[b] = Indices(b) /\ 1..Len(result[b]) = Indices(b)
      BY <3>1, Scripted DEF Inv
    <3>3. CASE CanFail(b)
      BY <3>2, <3>3, <2>2, <2>4 DEF SuccessOK, Succeeded
    <3>4. CASE ~ CanFail(b)
      BY <3>2, <3>4, <2>2, <2>4 DEF SuccessOK, Running
    <3>. QED  BY <3>3, <3>4
  <2>5. reply[b] # "ok"
    BY <2>2, <1>1, ScriptAssumption DEF StageOK, Running, ScriptAssumption
  <2>6. reply'[b] = "ok" => Succeeded(b)
    BY <2>2, <2>5 DEF Outcome
  <2>7. CanFail(b)' =>
          \A i \in DOMAIN result'[b] : result'[b][i] => <<b, i>> \in applied'
    BY <2>2, <1>2, <1>3 DEF SuccessOK
  <2>. QED  BY <2>2, <2>3, <2>4, <2>6, <2>7, <1>3 DEF SuccessOK, Running
<1>10. CASE Dispatch(b) \/ Outage(b)
  <2>1. /\ pc[b] = "dispatch" /\ UNCHANGED <<applied, result>>
        /\ pc'[b] \in {"dispatch", "done"}
        /\ \/ reply'[b] \in {reply[b], "interrupted"}
           \/ reply'[b] = Outcome(b)
    BY <1>1, <1>10 DEF Dispatch, Outage, Goto, Answer, database
  <2>2. Succeeded(b)' <=> Succeeded(b)
    BY <2>1 DEF Succeeded
  <2>3. Outcome(b) = "ok" => Succeeded(b)
    BY DEF Outcome
  <2>. QED  BY <2>1, <2>2, <2>3, <1>2, <1>3 DEF SuccessOK, Running
<1>. QED  BY <1>4, <1>5, <1>6, <1>7, <1>8, <1>9, <1>10 DEF Step

\* A step of another batch, or of none.
LEMMA OthersSuccess ==
  ASSUME NEW b, SuccessOK(b), UNCHANGED <<script, mode>>,
         pc'[b] = pc[b], result'[b] = result[b], done'[b] = done[b],
         reply'[b] = reply[b],
         \A i : <<b, i>> \in applied' <=> <<b, i>> \in applied
  PROVE  SuccessOK(b)'
<1>1. /\ (CanFail(b)' <=> CanFail(b)) /\ Indices(b)' = Indices(b)
      /\ (Succeeded(b)' <=> Succeeded(b))
  BY DEF CanFail, Indices, Succeeded
<1>. QED  BY <1>1 DEF SuccessOK

LEMMA SuccessStep ==
  ASSUME Inv, SuccessInv, NEW c \in Batches, Step(c),
         NEW b \in Batches
  PROVE  SuccessOK(b)'
<1>1. CASE b = c
  BY <1>1, StepSuccess DEF SuccessInv
<1>2. CASE b # c
  BY <1>2, StepEffect, StepLeaves, OthersSuccess DEF SuccessInv
<1>. QED  BY <1>1, <1>2

\* A crash: what is not answered is lost.
LEMMA SuccessCrash ==
  ASSUME Inv, NEW lost, InProgress \subseteq lost, CrashWith(lost),
         NEW b \in Batches, SuccessOK(b)
  PROVE  SuccessOK(b)'
<1>1. /\ pc' = [c \in Batches |-> IF c \in lost THEN "done" ELSE pc[c]]
      /\ reply' = [c \in Batches |-> IF c \in lost /\ reply[c] = NULL
                                     THEN "lost" ELSE reply[c]]
      /\ done' = [c \in Batches |-> {}]
      /\ UNCHANGED <<script, mode, result, applied>>
  BY DEF CrashWith
<1>2. pc'[b] = "done" \/ (pc[b] = "new" /\ pc'[b] = "new")
  <2>1. b \notin lost => pc[b] \in {"new", "done"}
    BY DEF InProgress
  <2>. QED  BY <2>1, <1>1
<1>3. /\ (CanFail(b)' <=> CanFail(b)) /\ Indices(b)' = Indices(b)
      /\ (Succeeded(b)' <=> Succeeded(b))
  BY <1>1 DEF CanFail, Indices, Succeeded
<1>4. pc[b] = "new" => done'[b] = 1..Len(result[b])
  <2>1. pc[b] = "new" => result[b] = << >>
    BY DEF Inv, BatchOK, StageOK
  <2>2. Len(<< >>) = 0 /\ 1..0 = {}
    OBVIOUS
  <2>. QED  BY <2>1, <2>2, <1>1
<1>5. reply'[b] = "ok" => reply[b] = "ok"
  BY <1>1
<1>. QED  BY <1>1, <1>2, <1>3, <1>4, <1>5 DEF SuccessOK, Running

LEMMA SuccessAlways == BackgroundSpec => []SuccessInv
<1>1. BackgroundInit => SuccessInv
  <2>. SUFFICES ASSUME Init, NEW b \in Batches PROVE SuccessOK(b)
    BY DEF BackgroundInit, SuccessInv
  <2>1. /\ pc[b] = "new" /\ done[b] = {} /\ result[b] = << >> /\ reply[b] = NULL
        /\ NULL # "ok"
    BY ScriptAssumption DEF Init, ScriptAssumption
  <2>2. Len(<< >>) = 0 /\ 1..0 = {} /\ DOMAIN << >> = {}
    OBVIOUS
  <2>. QED  BY <2>1, <2>2 DEF SuccessOK
<1>2. ASSUME Inv, SuccessInv, [BackgroundNext]_backgroundVars
      PROVE  SuccessInv'
  <2>. SUFFICES \A b \in Batches : SuccessOK(b)'
    BY DEF SuccessInv
  <2>1. CASE UNCHANGED vars
    BY <1>2, <2>1, OthersSuccess DEF vars, database, progress, SuccessInv
  <2>2. ASSUME NEW c \in Batches, Step(c) PROVE \A b \in Batches : SuccessOK(b)'
    BY <1>2, <2>2, SuccessStep
  <2>3. ASSUME NEW lost, InProgress \subseteq lost, CrashWith(lost)
        PROVE  \A b \in Batches : SuccessOK(b)'
    BY <1>2, <2>3, SuccessCrash DEF SuccessInv
  <2>. QED  BY <1>2, <2>1, <2>2, <2>3, BackgroundStep DEF Next, Crash
<1>. QED  BY <1>1, <1>2, OperationsAlways, PTL DEF BackgroundSpec

\* A status that says "completed" is about a batch that is over, and gives its
\* answer.
CompletedOK ==
  \A b \in Batches :
    status[b] # NULL /\ status[b].state = "completed" =>
      /\ pc[b] = "done"
      /\ reply[b] \in {"ok", "failed"}
      /\ status[b].result = reply[b]

\* A batch that is over stays so, and its answer too.
LEMMA OverStays ==
  ASSUME Inv, [BackgroundNext]_backgroundVars, NEW b \in Batches,
         pc[b] = "done", reply[b] \in {"ok", "failed"}
  PROVE  pc'[b] = "done" /\ reply'[b] = reply[b]
<1>1. CASE UNCHANGED vars
  BY <1>1 DEF vars, progress
<1>2. ASSUME NEW c \in Batches, Step(c) PROVE pc'[b] = "done" /\ reply'[b] = reply[b]
  <2>1. CASE c = b
    <3>1. ~ Victim(b)
      BY DEF Victim, Deadlocked, Blocked
    <3>. QED  BY <3>1, <2>1, <1>2 DEF Step, Refused, Start, Load, Reject, Busy, Write,
                                      Violate, Finish, Dispatch, Outage
  <2>2. CASE c # b
    BY <2>2, <1>2, StepLeaves
  <2>. QED  BY <2>1, <2>2
<1>3. ASSUME NEW lost, CrashWith(lost) PROVE pc'[b] = "done" /\ reply'[b] = reply[b]
  <2>1. reply[b] # NULL
    BY ScriptAssumption DEF ScriptAssumption
  <2>. QED  BY <2>1, <1>3 DEF CrashWith
<1>. QED  BY <1>1, <1>2, <1>3, BackgroundStep DEF Next, Crash

LEMMA CompletedInv ==
  ASSUME Inv, TasksOK, CompletedOK, [BackgroundNext]_backgroundVars
  PROVE  CompletedOK'
<1>. SUFFICES ASSUME NEW b \in Batches, status'[b] # NULL,
                     status'[b].state = "completed"
              PROVE  /\ pc'[b] = "done" /\ reply'[b] \in {"ok", "failed"}
                     /\ status'[b].result = reply'[b]
  BY DEF CompletedOK
<1>1. status \in [Batches -> Statuses \cup {NULL}]
  BY DEF TasksOK
<1>2. CASE status'[b] = status[b]
  BY <1>2, OverStays DEF CompletedOK
<1>3. CASE status'[b] # status[b]
  <2>1. PICK c \in Batches : TaskStep(c) \/ Expire(c)
    BY <1>3 DEF BackgroundNext, backgroundVars, taskVars, Process, BackgroundCrash
  <2>2. /\ ~ AddTask(c) /\ ~ Abandon(c) /\ UNCHANGED vars
        /\ \E st : status' = [status EXCEPT ![c] = st]
    BY <2>1, <1>3 DEF TaskStep, AddTask, Accept, Begin, Report, Complete, Abandon,
                      Expire, SetStatus
  <2>3. c = b
    BY <2>2, <1>1, <1>3
  <2>4. Complete(b)
    <3>1. /\ ~ Accept(b) /\ ~ Begin(b) /\ ~ Report(b)
      <4>1. ASSUME NEW state \in {"pending", "in_progress"}, NEW i,
                   SetStatus(b, Status(state, i, NULL))
            PROVE  FALSE
        BY <4>1, <1>1 DEF SetStatus, Status
      <4>. QED  BY <4>1 DEF Accept, Begin, Report
    <3>2. ~ Expire(b)
      BY <1>1 DEF Expire, SetStatus
    <3>. QED  BY <3>1, <3>2, <2>1, <2>2, <2>3 DEF TaskStep
  <2>5. /\ pc[b] = "done" /\ reply[b] \in {"ok", "failed"} /\ UNCHANGED <<pc, reply>>
        /\ status'[b] = Status("completed", Len(script[b]), reply[b])
    BY <2>2, <2>4, <1>1 DEF Complete, SetStatus, vars, progress
  <2>. QED  BY <2>5 DEF Status
<1>. QED  BY <1>2, <1>3

LEMMA CompletedAlways == BackgroundSpec => []CompletedOK
<1>1. BackgroundInit => CompletedOK
  BY DEF BackgroundInit, CompletedOK
<1>. QED  BY <1>1, CompletedInv, OperationsAlways, TasksAlways, PTL DEF BackgroundSpec

\* A client that sees "completed" finds every operation of an "ok" committed, and
\* the listeners know the rows that only this batch is about.
THEOREM CompletedTrue == BackgroundSpec => []CompletedIsTrue
<1>1. ASSUME Inv, TasksOK, FollowingInv, CompletedOK, SuccessInv
      PROVE  CompletedIsTrue
  <2>. SUFFICES ASSUME NEW b \in Batches, status[b] # NULL, Rank(status[b]) = 3
                PROVE  /\ status[b].result = "ok" =>
                            \A i \in Indices(b) : <<b, i>> \in applied
                       /\ ~ CutShort(b) /\ NoFailures =>
                            \A e \in Entities :
                              Touching(e) = {b} => Replay(e) = rows[e]
    BY DEF CompletedIsTrue, NoFailures
  <2>1. status[b].state = "completed"
    <3>1. status[b] \in Statuses
      BY <1>1 DEF TasksOK
    <3>. QED  BY <3>1, Ranks DEF Statuses, States
  <2>2. pc[b] = "done" /\ status[b].result = reply[b]
    BY <2>1, <1>1 DEF CompletedOK
  <2>3. status[b].result = "ok" => \A i \in Indices(b) : <<b, i>> \in applied
    BY <2>2, <1>1 DEF SuccessInv, SuccessOK
  <2>4. ASSUME ~ CutShort(b), NoFailures, NEW e \in Entities, Touching(e) = {b}
        PROVE  Replay(e) = rows[e]
    <3>1. FollowOK(b, e)
      BY <2>4, <1>1 DEF FollowingInv, ListenersOK
    <3>. QED  BY <3>1, <2>2, <2>4, <1>1, ReplayIsHeard DEF FollowOK
  <2>. QED  BY <2>3, <2>4
<1>. QED
  BY <1>1, OperationsAlways, TasksAlways, FollowingAlways, CompletedAlways,
     SuccessAlways, PTL
=============================================================================
