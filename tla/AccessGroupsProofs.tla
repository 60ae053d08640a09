------------------------ MODULE AccessGroupsProofs ------------------------
(***************************************************************************)
(* That the copies of access groups are current once everything has been   *)
(* handled, and that no user keeps a group that was deleted, for any       *)
(* nodes, clients, users, groups and bounds.                               *)
(*                                                                         *)
(* The invariant says of a node that has read a group: when its copy is as *)
(* of the last change of the row, it has the row; when it is as of an      *)
(* older change, the last one is on its way to the node.  In both cases a  *)
(* change that was lost may stand in for it.  Of a user it says: a name    *)
(* that is not there is going to be taken out by a request that is at it.  *)
(***************************************************************************)
EXTENDS AccessGroups, ListProofs, SequenceTheorems

\* What the provers need to know of the data; names of users are left out.
Tasks == [message : Messages, read : Nat \cup {NULL}]

CopyTypes ==
  /\ row \in [Groups -> [there : BOOLEAN, change : Changes]]
  /\ changes \in Changes
  /\ assigns \in Nat
  /\ request = [c \in Clients |-> request[c]]
  /\ phase \in [Nodes -> {"down", "loading", "up", "deaf"}]
  /\ unread \in [Nodes -> SUBSET Scopes]
  /\ copy \in [Nodes -> [Groups -> Nat]]
  /\ asof \in [Nodes -> [Groups -> Changes]]
  /\ lost \in [Nodes -> [Groups -> SUBSET Changes]]
  /\ queue \in [Nodes -> Seq(Messages)]
  /\ handlers \in [Nodes -> SUBSET Tasks]

\* What is loaded when; nothing is as of a change that is still to come.
OrderOK ==
  /\ \A g \in Groups : row[g].change <= changes
  /\ \A n \in Nodes : unread[n] # {} => phase[n] \in {"down", "loading"}
  /\ \A n \in Nodes, g \in Groups : asof[n][g] <= changes

\* A message tells of the last change of its group, or of an older one.
MessageOK(m) ==
  /\ m \in Messages
  /\ m.change <= row[m.group].change
  /\ m.change = row[m.group].change => (row[m.group].there <=> m.topic = "updated")

FlightOK == \A n \in Nodes : \A m \in InFlight(n) : MessageOK(m)

\* What a task has read is not older than its message.
TaskOK(t) ==
  t.read # NULL => /\ t.message.topic = "updated"
                   /\ t.message.change <= t.read
                   /\ t.read <= row[t.message.group].change

TasksOK == \A n \in Nodes : \A t \in handlers[n] : TaskOK(t)

Loaded(n, g) == phase[n] # "down" /\ g[2] \notin unread[n]

Missed(n, g, k) == \E l \in lost[n][g] : l >= k

OnItsWay(n, g) == \E m \in InFlight(n) : m.group = g /\ m.change = row[g].change

CopyOK(n, g) ==
  /\ asof[n][g] >= row[g].change =>
       copy[n][g] = Version(g) \/ Missed(n, g, asof[n][g])
  /\ asof[n][g] < row[g].change => OnItsWay(n, g) \/ Missed(n, g, row[g].change)

CopiesOK == \A n \in Nodes, g \in Groups : Loaded(n, g) => CopyOK(n, g)

Inv == CopyTypes /\ OrderOK /\ FlightOK /\ TasksOK /\ CopiesOK
-----------------------------------------------------------------------------
(* Lemmas *)

\* The copy of a group is not touched, and of its last change nothing is lost
\* that is not counted as lost.
Kept(n, g) ==
  /\ Loaded(n, g)
  /\ copy'[n][g] = copy[n][g] /\ asof'[n][g] = asof[n][g]
  /\ lost[n][g] \subseteq lost'[n][g]
  /\ \A m \in InFlight(n) : m.group = g /\ m.change = row[g].change =>
       m \in InFlight(n)' \/ m.change \in lost'[n][g]

LEMMA KeepsCopy ==
  ASSUME CopyTypes, CopyTypes', NEW n \in Nodes, NEW g \in Groups, CopyOK(n, g),
         row'[g] = row[g], Kept(n, g)
  PROVE  CopyOK(n, g)'
<1>1. /\ row[g].change \in Int /\ asof[n][g] \in Int
      /\ \A l \in lost'[n][g] : l \in Int
  BY DEF CopyTypes, Changes
<1>2. Version(g)' = Version(g)
  BY DEF Version
<1>3. \A k \in Int : Missed(n, g, k) => Missed(n, g, k)'
  BY DEF Missed, Kept
<1>4. OnItsWay(n, g) => OnItsWay(n, g)' \/ Missed(n, g, row[g].change)'
  BY <1>1 DEF OnItsWay, Missed, Kept
<1>. QED  BY <1>1, <1>2, <1>3, <1>4 DEF CopyOK, Missed, Kept

\* A step that changes no row keeps the invariant when it tells of nothing new,
\* and each copy that is loaded is made right or is kept.
LEMMA StepKeeps ==
  ASSUME Inv, CopyTypes', UNCHANGED <<row, changes>>,
         \A n \in Nodes : /\ unread'[n] # {} => phase'[n] \in {"down", "loading"}
                          /\ InFlight(n)' \subseteq InFlight(n)
                          /\ \A t \in handlers'[n] : t \in handlers[n] \/ TaskOK(t),
         \A n \in Nodes, g \in Groups :
           /\ asof'[n][g] <= changes
           /\ Loaded(n, g)' => CopyOK(n, g)' \/ Kept(n, g)
  PROVE  Inv'
<1>1. CopyTypes /\ OrderOK /\ FlightOK /\ TasksOK /\ CopiesOK
  BY DEF Inv
<1>2. OrderOK'
  BY <1>1 DEF OrderOK
<1>3. FlightOK'
  BY <1>1 DEF FlightOK, MessageOK
<1>4. TasksOK'
  BY <1>1 DEF TasksOK, TaskOK
<1>5. ASSUME NEW n \in Nodes, NEW g \in Groups, Loaded(n, g)'
      PROVE  CopyOK(n, g)'
  <2>1. CASE Kept(n, g)
    <3>1. CopyOK(n, g)
      BY <2>1, <1>1 DEF Kept, CopiesOK
    <3>. QED  BY <3>1, <2>1, <1>1, KeepsCopy
  <2>. QED  BY <1>5, <2>1
<1>. QED  BY <1>2, <1>3, <1>4, <1>5 DEF Inv, CopiesOK

\* A step that leaves the nodes alone, and requests that are to dispatch.
LEMMA QuietKeeps ==
  ASSUME Inv, UNCHANGED <<row, changes, nodes>>, assigns' \in Nat,
         request' = [c \in Clients |-> request'[c]],
         \A c \in Clients : \/ request'[c] = request[c]
                            \/ ~ At(c, "changed") /\ ~ At(c, "changed")'
  PROVE  Inv'
<1>1. CopyTypes /\ OrderOK
  BY DEF Inv
<1>2. CopyTypes'
  BY <1>1 DEF CopyTypes, nodes
<1>3. ASSUME NEW n \in Nodes
      PROVE  InFlight(n)' = InFlight(n)
  BY DEF InFlight, At, nodes
<1>4. \A n \in Nodes, g \in Groups : Loaded(n, g)' => Kept(n, g)
  BY <1>3 DEF Loaded, Kept, nodes
<1>. QED  BY <1>1, <1>2, <1>3, <1>4, StepKeeps DEF OrderOK, nodes

\* A task that ends leaves the copy right: what it sets is the row when it is of
\* the last change, and a later change that it may undo is counted as lost.
LEMMA ApplyKeeps ==
  ASSUME Inv, NEW n \in Nodes, NEW t \in handlers[n], NEW v \in Nat,
         Apply(n, t, v),
         t.message.change = row[t.message.group].change => v = Version(t.message.group)
  PROVE  Inv'
<1>. DEFINE g == t.message.group
            change == t.message.change
<1>1. CopyTypes /\ OrderOK /\ FlightOK /\ TasksOK /\ CopiesOK
  BY DEF Inv
<1>2. /\ g \in Groups /\ change \in Changes /\ change \in Int
      /\ t.message \in InFlight(n) /\ MessageOK(t.message)
  <2>1. t.message \in InFlight(n)
    BY DEF InFlight
  <2>2. MessageOK(t.message)
    BY <2>1, <1>1 DEF FlightOK
  <2>. QED  BY <2>1, <2>2 DEF MessageOK, Messages, Changes
<1>3. /\ UNCHANGED <<row, changes, names, assigns, request, phase, unread, queue>>
      /\ handlers' = [handlers EXCEPT ![n] = @ \ {t}]
      /\ copy' = [copy EXCEPT ![n][g] = v]
      /\ IF asof[n][g] <= change
         THEN asof' = [asof EXCEPT ![n][g] = change] /\ UNCHANGED lost
         ELSE lost' = [lost EXCEPT ![n][g] = @ \cup {asof[n][g]}] /\ UNCHANGED asof
  BY DEF Apply, database
<1>4. CopyTypes' /\ OrderOK'
  <2>1. copy' \in [Nodes -> [Groups -> Nat]]
    BY <1>1, <1>2, <1>3 DEF CopyTypes
  <2>2. /\ asof' \in [Nodes -> [Groups -> Changes]]
        /\ \A m \in Nodes, h \in Groups :
             asof'[m][h] = asof[m][h] \/ asof'[m][h] = change
    <3>1. asof \in [Nodes -> [Groups -> Changes]]
      BY <1>1 DEF CopyTypes
    <3>2. CASE asof[n][g] <= change
      <4>1. asof' = [asof EXCEPT ![n][g] = change]
        BY <3>2, <1>3
      <4>. QED  BY <3>1, <4>1, <1>2
    <3>3. CASE ~ (asof[n][g] <= change)
      BY <3>1, <3>3, <1>3
    <3>. QED  BY <3>2, <3>3
  <2>3. lost' \in [Nodes -> [Groups -> SUBSET Changes]]
    <3>1. CASE asof[n][g] <= change
      BY <3>1, <1>1, <1>3 DEF CopyTypes
    <3>2. CASE ~ (asof[n][g] <= change)
      <4>1. asof[n][g] \in Changes
        BY <1>1, <1>2 DEF CopyTypes
      <4>2. lost \in [Nodes -> [Groups -> SUBSET Changes]]
        BY <1>1 DEF CopyTypes
      <4>3. lost' = [lost EXCEPT ![n][g] = @ \cup {asof[n][g]}]
        BY <3>2, <1>3
      <4>. QED  BY <4>1, <4>2, <4>3, <1>2
    <3>. QED  BY <3>1, <3>2
  <2>4. handlers' \in [Nodes -> SUBSET Tasks]
    BY <1>1, <1>3 DEF CopyTypes
  <2>5. CopyTypes'
    BY <2>1, <2>2, <2>3, <2>4, <1>1, <1>3 DEF CopyTypes
  <2>6. change <= changes
    <3>1. change <= row[g].change
      BY <1>2 DEF MessageOK
    <3>2. row[g].change <= changes /\ row[g].change \in Int /\ changes \in Int
      BY <1>1, <1>2 DEF CopyTypes, OrderOK, Changes
    <3>. QED  BY <3>1, <3>2, <1>2
  <2>7. \A m \in Nodes, h \in Groups : asof'[m][h] <= changes'
    BY <2>2, <2>6, <1>1, <1>3 DEF OrderOK
  <2>. QED  BY <2>5, <2>7, <1>1, <1>3 DEF OrderOK
<1>5. ASSUME NEW m \in Nodes
      PROVE  /\ InFlight(m)' \subseteq InFlight(m)
             /\ InFlight(m) \subseteq InFlight(m)' \cup {t.message}
             /\ m # n => InFlight(m)' = InFlight(m)
  BY <1>1, <1>3 DEF InFlight, At, CopyTypes
<1>6. FlightOK' /\ TasksOK'
  BY <1>1, <1>3, <1>5 DEF FlightOK, MessageOK, TasksOK, TaskOK, CopyTypes
<1>7. ASSUME NEW m \in Nodes, NEW h \in Groups, Loaded(m, h)'
      PROVE  CopyOK(m, h)'
  <2>1. Loaded(m, h) /\ CopyOK(m, h)
    BY <1>1, <1>3, <1>7 DEF Loaded, CopiesOK
  <2>2. CASE m # n \/ h # g
    <3>1. /\ row'[h] = row[h] /\ copy'[m][h] = copy[m][h] /\ asof'[m][h] = asof[m][h]
          /\ lost'[m][h] = lost[m][h]
      BY <2>2, <1>1, <1>2, <1>3 DEF CopyTypes
    <3>2. \A x \in InFlight(m) : x.group = h => x \in InFlight(m)'
      BY <2>2, <1>5
    <3>3. Kept(m, h)
      BY <3>1, <3>2, <2>1 DEF Kept
    <3>. QED  BY <3>1, <3>3, <2>1, <1>1, <1>4, KeepsCopy
  <2>3. CASE m = n /\ h = g
    <3>1. /\ row'[g] = row[g] /\ row[g].change \in Int /\ asof[n][g] \in Int
          /\ copy'[n][g] = v /\ Version(g)' = Version(g) /\ change <= row[g].change
      <4>1. row'[g] = row[g] /\ Version(g)' = Version(g)
        BY <1>3 DEF Version
      <4>2. row[g].change \in Int /\ asof[n][g] \in Int
        <5>1. row[g].change \in Changes /\ asof[n][g] \in Changes
          BY <1>1, <1>2 DEF CopyTypes
        <5>. QED  BY <5>1 DEF Changes
      <4>3. copy'[n][g] = v
        BY <1>1, <1>2, <1>3 DEF CopyTypes
      <4>4. change <= row[g].change
        BY <1>2 DEF MessageOK
      <4>. QED  BY <4>1, <4>2, <4>3, <4>4
    <3>2. CASE asof[n][g] <= change
      <4>1. asof'[n][g] = change /\ lost'[n][g] = lost[n][g]
        BY <3>2, <1>1, <1>2, <1>3 DEF CopyTypes
      <4>2. change < row[g].change =>
              OnItsWay(n, g)' \/ Missed(n, g, row[g].change)'
        <5>1. ASSUME change < row[g].change, OnItsWay(n, g)
              PROVE  OnItsWay(n, g)'
          <6>1. PICK x \in InFlight(n) : x.group = g /\ x.change = row[g].change
            BY <5>1 DEF OnItsWay
          <6>2. x \in InFlight(n)'
            BY <6>1, <5>1, <3>1, <1>2, <1>5
          <6>. QED  BY <6>1, <6>2, <3>1 DEF OnItsWay
        <5>2. Missed(n, g, row[g].change) => Missed(n, g, row[g].change)'
          BY <4>1, <3>1 DEF Missed
        <5>3. change < row[g].change => OnItsWay(n, g) \/ Missed(n, g, row[g].change)
          BY <3>1, <3>2, <2>1, <2>3, <1>2 DEF CopyOK
        <5>. QED  BY <5>1, <5>2, <5>3
      <4>. QED  BY <4>1, <4>2, <3>1, <2>3, <1>2 DEF CopyOK
    <3>3. CASE ~ (asof[n][g] <= change)
      <4>1. asof'[n][g] = asof[n][g] /\ asof[n][g] \in lost'[n][g]
            /\ lost[n][g] \subseteq lost'[n][g]
        BY <3>3, <1>1, <1>2, <1>3 DEF CopyTypes
      <4>2. Missed(n, g, asof[n][g])'
        BY <4>1, <3>1 DEF Missed
      <4>3. asof[n][g] < row[g].change =>
              OnItsWay(n, g)' \/ Missed(n, g, row[g].change)'
        <5>1. ASSUME asof[n][g] < row[g].change, OnItsWay(n, g)
              PROVE  OnItsWay(n, g)'
          <6>1. PICK x \in InFlight(n) : x.group = g /\ x.change = row[g].change
            BY <5>1 DEF OnItsWay
          <6>2. x \in InFlight(n)'
            BY <6>1, <5>1, <3>1, <3>3, <1>2, <1>5
          <6>. QED  BY <6>1, <6>2, <3>1 DEF OnItsWay
        <5>2. Missed(n, g, row[g].change) => Missed(n, g, row[g].change)'
          BY <4>1, <3>1 DEF Missed
        <5>. QED  BY <5>1, <5>2, <2>1, <2>3 DEF CopyOK
      <4>. QED  BY <4>1, <4>2, <4>3, <3>1, <2>3 DEF CopyOK
    <3>. QED  BY <3>2, <3>3
  <2>. QED  BY <2>2, <2>3
<1>. QED  BY <1>4, <1>6, <1>7 DEF Inv, CopiesOK
-----------------------------------------------------------------------------
(* The steps *)

\* The change of a group, with those that it takes with it.
LEMMA ChangeKeeps ==
  ASSUME Inv, NEW c \in Clients, NEW g \in Groups, NEW topic \in {"updated", "deleted"},
         request[c] = NULL, Proceeds(c, Change(topic, g)),
         changes + assigns <= MaxRequests, changes' = changes + 1,
         row' \in [Groups -> [there : BOOLEAN, change : Changes]],
         row'[g].change = changes + 1, row'[g].there <=> topic = "updated",
         lost' \in [Nodes -> [Groups -> SUBSET Changes]],
         \A n \in Nodes, h \in Groups : lost[n][h] \subseteq lost'[n][h],
         \A h \in Groups : \/ h = g
                           \/ row'[h] = row[h]
                           \/ /\ row'[h].change = changes + 1
                              /\ \A n \in Nodes : changes + 1 \in lost'[n][h],
         UNCHANGED <<assigns, phase, unread, copy, queue, handlers, asof>>
  PROVE  Inv'
<1>0. PICK message : message = [topic |-> topic, group |-> g, change |-> changes + 1]
  OBVIOUS
<1>1. CopyTypes /\ OrderOK /\ FlightOK /\ TasksOK /\ CopiesOK
  BY DEF Inv
<1>2. changes \in Int /\ changes + 1 \in Changes
  BY <1>1, GroupsAssumption DEF CopyTypes, Changes, GroupsAssumption
<1>3. message \in Messages /\ request' = [request EXCEPT ![c] = Change(topic, g)]
  BY <1>0, <1>2 DEF Messages, Proceeds
<1>4. CopyTypes'
  BY <1>1, <1>2, <1>3 DEF CopyTypes
<1>5. \A n \in Nodes : InFlight(n)' = InFlight(n) \cup {message}
  <2>1. Change(topic, g) # NULL
    <3>1. Change(topic, g) \in Requests
      BY <1>0, <1>3 DEF Change, Requests
    <3>. QED  BY <3>1, GroupsAssumption DEF GroupsAssumption
  <2>2. /\ request'[c].step = "changed" /\ request'[c].message = message
        /\ request'[c] # NULL
        /\ \A d \in Clients : d # c => request'[d] = request[d]
    BY <2>1, <1>0, <1>1, <1>3 DEF CopyTypes, Change
  <2>3. {request'[d].message : d \in {x \in Clients : At(x, "changed")'}} =
        {request[d].message : d \in {x \in Clients : At(x, "changed")}} \cup {message}
    <3>1. /\ ~ At(c, "changed") /\ At(c, "changed")'
          /\ \A d \in Clients : d # c => (At(d, "changed")' <=> At(d, "changed"))
      BY <2>2 DEF At
    <3>2. PICK ds : ds = {x \in Clients : At(x, "changed")}
      OBVIOUS
    <3>3. {x \in Clients : At(x, "changed")'} = ds \cup {c} /\ c \notin ds
      BY <3>1, <3>2
    <3>4. {request'[d].message : d \in ds \cup {c}} =
          {request[d].message : d \in ds} \cup {message}
      BY <2>2, <3>2, <3>3
    <3>. QED  BY <3>2, <3>3, <3>4
  <2>. QED  BY <2>3 DEF InFlight
<1>6. \A h \in Groups : /\ row[h].change \in Int /\ row'[h].change \in Int
                        /\ row[h].change <= changes /\ row'[h].change <= changes + 1
                        /\ row[h].change <= row'[h].change
                        /\ row'[h] = row[h] \/ row'[h].change = changes + 1
  BY <1>1, <1>2 DEF CopyTypes, OrderOK, Changes
<1>7. OrderOK'
  <2>1. \A n \in Nodes, h \in Groups : asof[n][h] \in Int
    BY <1>1 DEF CopyTypes, Changes
  <2>. QED  BY <2>1, <1>1, <1>2, <1>6 DEF OrderOK
<1>8. FlightOK'
  <2>1. MessageOK(message)'
    BY <1>0, <1>2, <1>3 DEF MessageOK
  <2>2. ASSUME NEW m \in Messages, MessageOK(m)
        PROVE  MessageOK(m)'
    <3>1. m.group \in Groups /\ m.change \in Int
      BY DEF Messages, Changes
    <3>. QED  BY <2>2, <3>1, <1>2, <1>6 DEF MessageOK
  <2>. QED  BY <2>1, <2>2, <1>1, <1>5 DEF FlightOK, MessageOK
<1>9. TasksOK'
  <2>1. ASSUME NEW t \in Tasks, TaskOK(t)
        PROVE  TaskOK(t)'
    <3>1. t.message.group \in Groups /\ t.read \in Nat \cup {NULL}
      BY DEF Tasks, Messages
    <3>. QED  BY <2>1, <3>1, <1>6 DEF TaskOK
  <2>. QED  BY <2>1, <1>1 DEF TasksOK, CopyTypes
<1>10. ASSUME NEW n \in Nodes, NEW h \in Groups, Loaded(n, h)'
       PROVE  CopyOK(n, h)'
  <2>1. /\ Loaded(n, h) /\ CopyOK(n, h)
        /\ asof'[n][h] = asof[n][h] /\ asof[n][h] \in Int /\ asof[n][h] <= changes
    BY <1>1, <1>10 DEF Loaded, CopiesOK, CopyTypes, OrderOK, Changes
  <2>2. CASE h = g
    <3>1. message \in InFlight(n)' /\ message.group = g /\ message.change = row'[g].change
      BY <1>0, <1>5
    <3>2. OnItsWay(n, g)'
      BY <3>1 DEF OnItsWay
    <3>. QED  BY <3>2, <2>1, <2>2, <1>2 DEF CopyOK
  <2>3. CASE h # g /\ row'[h] = row[h]
    <3>1. Kept(n, h)
      BY <2>1, <1>5 DEF Kept
    <3>. QED  BY <3>1, <2>1, <2>3, <1>1, <1>4, KeepsCopy
  <2>4. CASE h # g /\ row'[h].change = changes + 1 /\ changes + 1 \in lost'[n][h]
    <3>1. Missed(n, h, row[h].change)'
      BY <2>4, <1>2 DEF Missed
    <3>. QED  BY <3>1, <2>1, <2>4, <1>2 DEF CopyOK
  <2>. QED  BY <2>2, <2>3, <2>4
<1>. QED  BY <1>4, <1>7, <1>8, <1>9, <1>10 DEF Inv, CopiesOK

LEMMA RequestKeeps ==
  ASSUME Inv, NEW c \in Clients, Request(c)
  PROVE  Inv'
<1>1. CopyTypes /\ OrderOK
  BY DEF Inv
<1>2. changes \in Int /\ (changes + assigns <= MaxRequests => changes + 1 \in Changes)
  BY <1>1, GroupsAssumption DEF CopyTypes, Changes, GroupsAssumption
<1>3. ASSUME NEW g \in Groups, Save(c, g)
      PROVE  Inv'
  <2>1. /\ request[c] = NULL /\ Proceeds(c, Change("updated", g))
        /\ changes + assigns <= MaxRequests /\ changes' = changes + 1
        /\ row' = [row EXCEPT ![g] = [there |-> TRUE, change |-> changes + 1]]
        /\ UNCHANGED <<assigns, phase, unread, copy, queue, handlers, asof, lost>>
    BY <1>3 DEF Save, Begin, nodes
  <2>2. /\ row' \in [Groups -> [there : BOOLEAN, change : Changes]]
        /\ row'[g].change = changes + 1 /\ row'[g].there
        /\ \A h \in Groups : h = g \/ row'[h] = row[h]
    BY <2>1, <1>1, <1>2 DEF CopyTypes
  <2>3. /\ lost' \in [Nodes -> [Groups -> SUBSET Changes]]
        /\ \A n \in Nodes, h \in Groups : lost[n][h] \subseteq lost'[n][h]
    BY <2>1, <1>1 DEF CopyTypes
  <2>. QED  BY <2>1, <2>2, <2>3, ChangeKeeps
<1>4. ASSUME NEW g \in Groups, Delete(c, g)
      PROVE  Inv'
  <2>1. /\ request[c] = NULL /\ Proceeds(c, Change("deleted", g))
        /\ changes + assigns <= MaxRequests /\ changes' = changes + 1
        /\ row' = [h \in Groups |-> IF h = g \/ h \in Cascade(g)
                                    THEN [there |-> FALSE, change |-> changes + 1]
                                    ELSE row[h]]
        /\ lost' = [n \in Nodes |-> [h \in Groups |->
                     lost[n][h] \cup (IF h \in Cascade(g) THEN {changes + 1} ELSE {})]]
        /\ UNCHANGED <<assigns, phase, unread, copy, queue, handlers, asof>>
    BY <1>4 DEF Delete, Begin, Misses
  <2>2. /\ row' \in [Groups -> [there : BOOLEAN, change : Changes]]
        /\ row'[g].change = changes + 1 /\ ~ row'[g].there
        /\ \A h \in Groups :
             \/ h = g
             \/ row'[h] = row[h]
             \/ h \in Cascade(g) /\ row'[h].change = changes + 1
    <3>1. PICK gone : gone = [there |-> FALSE, change |-> changes + 1]
      OBVIOUS
    <3>2. /\ gone \in [there : BOOLEAN, change : Changes]
          /\ gone.change = changes + 1 /\ ~ gone.there
      BY <3>1, <2>1, <1>2
    <3>3. row \in [Groups -> [there : BOOLEAN, change : Changes]]
      BY <1>1 DEF CopyTypes
    <3>4. row' = [h \in Groups |-> IF h = g \/ h \in Cascade(g) THEN gone ELSE row[h]]
      BY <3>1, <2>1
    <3>5. row' \in [Groups -> [there : BOOLEAN, change : Changes]]
      BY <3>2, <3>3, <3>4, Zenon
    <3>6. row'[g] = gone /\ \A h \in Groups :
            row'[h] = IF h = g \/ h \in Cascade(g) THEN gone ELSE row[h]
      BY <3>4, Zenon
    <3>7. \A h \in Groups :
            \/ h = g
            \/ row'[h] = row[h]
            \/ h \in Cascade(g) /\ row'[h].change = changes + 1
      BY <3>2, <3>6
    <3>8. row'[g].change = changes + 1 /\ ~ row'[g].there
      BY <3>2, <3>6, Zenon
    <3>. QED  BY <3>5, <3>7, <3>8, Zenon
  <2>3. /\ lost' \in [Nodes -> [Groups -> SUBSET Changes]]
        /\ \A n \in Nodes, h \in Groups :
             /\ lost[n][h] \subseteq lost'[n][h]
             /\ h \in Cascade(g) => changes + 1 \in lost'[n][h]
    BY <2>1, <1>1, <1>2 DEF CopyTypes
  <2>. QED  BY <2>1, <2>2, <2>3, ChangeKeeps
<1>5. ASSUME NEW u \in Users, NEW list \in Lists, Validate(c, u, list)
      PROVE  Inv'
  <2>1. /\ request[c] = NULL /\ assigns' = assigns + 1
        /\ UNCHANGED <<row, changes, nodes>>
        /\ request' = [request EXCEPT ![c] =
             [step |-> "assign", user |-> u,
              list |-> Filtered(list, Existing)]]
    BY <1>5 DEF Validate, Begin, Proceeds
  <2>2. /\ request' = [d \in Clients |-> request'[d]]
        /\ request'[c].step = "assign"
        /\ \A d \in Clients : d # c => request'[d] = request[d]
    BY <2>1, <1>1 DEF CopyTypes
  <2>3. ~ At(c, "changed") /\ ~ At(c, "changed")' /\ assigns' \in Nat
    BY <2>1, <2>2, <1>1 DEF At, CopyTypes
  <2>. QED  BY <2>1, <2>2, <2>3, QuietKeeps
<1>. QED  BY <1>3, <1>4, <1>5 DEF Request

LEMMA ProceedKeeps ==
  ASSUME Inv, NEW c \in Clients, Proceed(c)
  PROVE  Inv'
<1>1. CopyTypes /\ OrderOK /\ FlightOK
  BY DEF Inv
<1>2. CASE Dispatch(c)
  <2>1. PICK m : m = request[c].message
    OBVIOUS
  <2>2. m \in Messages
    <3>1. PICK n \in Nodes : TRUE
      BY GroupsAssumption DEF GroupsAssumption
    <3>2. m \in InFlight(n)
      BY <1>2, <2>1 DEF Dispatch, InFlight
    <3>. QED  BY <3>1, <3>2, <1>1 DEF FlightOK, MessageOK
  <2>3. PICK r : /\ Proceeds(c, r) /\ (r = NULL \/ r = [step |-> "clean"])
    BY <1>2 DEF Dispatch
  <2>4. /\ At(c, "changed") /\ UNCHANGED <<row, changes, assigns>>
        /\ UNCHANGED <<phase, unread, copy, handlers, asof>>
        /\ request' = [request EXCEPT ![c] = r]
        /\ queue' = [n \in Nodes |-> IF phase[n] = "up" THEN Append(queue[n], m)
                                                        ELSE queue[n]]
        /\ lost' = [n \in Nodes |-> [g \in Groups |-> lost[n][g] \cup
                     (IF phase[n] # "up" /\ g = m.group THEN {m.change} ELSE {})]]
    BY <1>2, <2>1, <2>3 DEF Dispatch, Misses, Proceeds, database
  <2>5. /\ ~ At(c, "changed")'
        /\ \A d \in Clients : d # c => request'[d] = request[d]
    BY <2>3, <2>4, <1>1 DEF At, CopyTypes
  <2>6. ASSUME NEW n \in Nodes
        PROVE  /\ queue'[n] \in Seq(Messages)
               /\ phase[n] = "up" => ToSet(queue'[n]) = ToSet(queue[n]) \cup {m}
               /\ phase[n] # "up" => queue'[n] = queue[n]
    BY <2>2, <2>4, <1>1, QueueSets DEF CopyTypes
  <2>7. CopyTypes'
    <3>1. m.change \in Changes
      BY <2>2 DEF Messages
    <3>. QED  BY <2>4, <2>6, <3>1, <1>1 DEF CopyTypes
  <2>8. ASSUME NEW n \in Nodes
        PROVE  /\ InFlight(n)' \subseteq InFlight(n)
               /\ InFlight(n) \subseteq InFlight(n)' \cup {m}
               /\ phase[n] = "up" => InFlight(n) = InFlight(n)'
    <3>1. PICK ds : ds = {x \in Clients : At(x, "changed")'}
      OBVIOUS
    <3>2. {x \in Clients : At(x, "changed")} = ds \cup {c} /\ c \notin ds
      BY <3>1, <2>4, <2>5 DEF At
    <3>3. {request[d].message : d \in ds \cup {c}} =
          {request'[d].message : d \in ds} \cup {m}
      BY <3>1, <3>2, <2>1, <2>5
    <3>4. /\ InFlight(n) = {request'[d].message : d \in ds} \cup {m}
                           \cup ToSet(queue[n]) \cup {t.message : t \in handlers[n]}
          /\ InFlight(n)' = {request'[d].message : d \in ds}
                           \cup ToSet(queue'[n]) \cup {t.message : t \in handlers[n]}
      BY <3>1, <3>2, <3>3, <2>4 DEF InFlight
    <3>. QED  BY <3>4, <2>6
  <2>9. ASSUME NEW n \in Nodes, NEW g \in Groups, Loaded(n, g)'
        PROVE  Kept(n, g)
    BY <2>4, <2>8, <2>9 DEF Kept, Loaded
  <2>. QED  BY <2>4, <2>7, <2>8, <2>9, <1>1, StepKeeps DEF OrderOK
<1>3. CASE ReadNames(c) \/ CleanUp(c) \/ Assign(c)
  <2>1. /\ At(c, "clean") \/ At(c, "cleaning") \/ At(c, "assign")
        /\ UNCHANGED <<row, changes, assigns, nodes>>
    BY <1>3 DEF ReadNames, CleanUp, Assign, database
  <2>2. PICK r : /\ Proceeds(c, r)
                 /\ r = NULL \/ r = [step |-> "cleaning", seen |-> Existing]
    BY <1>3 DEF ReadNames, CleanUp, Assign
  <2>3. /\ request' = [d \in Clients |-> request'[d]] /\ request'[c] = r
        /\ \A d \in Clients : d # c => request'[d] = request[d]
    BY <2>2, <1>1 DEF CopyTypes, Proceeds
  <2>4. ~ At(c, "changed") /\ ~ At(c, "changed")' /\ assigns' \in Nat
    BY <2>1, <2>2, <2>3, <1>1 DEF At, CopyTypes
  <2>. QED  BY <2>1, <2>3, <2>4, QuietKeeps
<1>. QED  BY <1>2, <1>3 DEF Proceed

\* The requests of clients end, and what they were to dispatch is lost.
LEMMA BreaksKeeps ==
  ASSUME Inv, NEW clients \in SUBSET Clients, Breaks(clients),
         UNCHANGED <<row, changes, assigns, copy, asof>>,
         \A n \in Nodes : \/ /\ phase'[n] = phase[n] /\ queue'[n] = queue[n]
                             /\ handlers'[n] = handlers[n]
                          \/ phase'[n] = "down" /\ queue'[n] = << >> /\ handlers'[n] = {},
         UNCHANGED unread,
         phase' \in [Nodes -> {"down", "loading", "up", "deaf"}],
         queue' \in [Nodes -> Seq(Messages)],
         handlers' \in [Nodes -> SUBSET Tasks]
  PROVE  Inv'
<1>. DEFINE told(g) == {request[c].message.change :
                          c \in {d \in clients : /\ At(d, "changed")
                                                 /\ request[d].message.group = g}}
<1>1. CopyTypes /\ OrderOK /\ FlightOK
  BY DEF Inv
<1>2. /\ request' = [c \in Clients |-> IF c \in clients THEN NULL ELSE request[c]]
      /\ lost' = [n \in Nodes |-> [g \in Groups |-> lost[n][g] \cup told(g)]]
  BY DEF Breaks, Misses
<1>3. ASSUME NEW n \in Nodes, NEW g \in Groups
      PROVE  told(g) \subseteq Changes
  <2>1. ASSUME NEW c \in clients, At(c, "changed")
        PROVE  request[c].message.change \in Changes
    <3>1. request[c].message \in InFlight(n)
      BY <2>1 DEF InFlight
    <3>. QED  BY <3>1, <1>1 DEF FlightOK, MessageOK, Messages
  <2>. QED  BY <2>1
<1>4. CopyTypes'
  <2>1. lost' \in [Nodes -> [Groups -> SUBSET Changes]]
    <3>. HIDE DEF told
    <3>1. lost \in [Nodes -> [Groups -> SUBSET Changes]]
      BY <1>1 DEF CopyTypes
    <3>2. ASSUME NEW n \in Nodes, NEW g \in Groups
          PROVE  lost[n][g] \cup told(g) \in SUBSET Changes
      BY <3>1, <1>3
    <3>. QED  BY <3>2, <1>2
  <2>. QED  BY <2>1, <1>1, <1>2 DEF CopyTypes
<1>5. /\ \A c \in Clients : At(c, "changed")' => At(c, "changed") /\ c \notin clients
      /\ \A c \in Clients \ clients : request'[c] = request[c]
  BY <1>2 DEF At
<1>6. ASSUME NEW n \in Nodes
      PROVE  InFlight(n)' \subseteq InFlight(n)
  <2>1. ToSet(queue'[n]) \subseteq ToSet(queue[n]) /\ handlers'[n] \subseteq handlers[n]
    BY DEF ToSet
  <2>. QED  BY <2>1, <1>5 DEF InFlight
<1>7. ASSUME NEW n \in Nodes, NEW g \in Groups, Loaded(n, g)'
      PROVE  Kept(n, g)
  <2>1. phase'[n] = phase[n] /\ queue'[n] = queue[n] /\ handlers'[n] = handlers[n]
    BY <1>7 DEF Loaded
  <2>2. lost'[n][g] = lost[n][g] \cup told(g)
    BY <1>2
  <2>3. ASSUME NEW m \in InFlight(n), m.group = g
        PROVE  m \in InFlight(n)' \/ m.change \in lost'[n][g]
    <3>1. CASE m \in ToSet(queue[n]) \/ m \in {t.message : t \in handlers[n]}
      BY <3>1, <2>1 DEF InFlight
    <3>2. CASE \E c \in Clients : At(c, "changed") /\ m = request[c].message
      <4>1. PICK c \in Clients : At(c, "changed") /\ m = request[c].message
        BY <3>2
      <4>2. CASE c \in clients
        BY <4>1, <4>2, <2>2, <2>3
      <4>3. CASE c \notin clients
        <5>1. request'[c] = request[c] /\ At(c, "changed")'
          BY <4>1, <4>3, <1>5 DEF At
        <5>. QED  BY <5>1, <4>1 DEF InFlight
      <4>. QED  BY <4>2, <4>3
    <3>. QED  BY <3>1, <3>2 DEF InFlight
  <2>. QED  BY <1>7, <2>1, <2>2, <2>3 DEF Kept, Loaded
<1>8. ASSUME NEW n \in Nodes
      PROVE  /\ unread'[n] # {} => phase'[n] \in {"down", "loading"}
             /\ \A t \in handlers'[n] : t \in handlers[n]
  BY <1>1 DEF OrderOK
<1>. QED  BY <1>1, <1>4, <1>6, <1>7, <1>8, StepKeeps DEF OrderOK

\* What a dispatch or a node was about to tell is lost when it fails.
LEMMA FaultKeeps ==
  ASSUME Inv, Fault
  PROVE  Inv'
<1>1. CopyTypes /\ OrderOK /\ FlightOK
  BY DEF Inv
<1>2. ASSUME NEW c \in Clients, DispatchFails(c)
      PROVE  Inv'
  <2>1. /\ Breaks({c}) /\ {c} \in SUBSET Clients
        /\ UNCHANGED <<row, changes, assigns, copy, asof, unread, phase, queue, handlers>>
    BY <1>2 DEF DispatchFails, database
  <2>2. /\ phase' \in [Nodes -> {"down", "loading", "up", "deaf"}]
        /\ queue' \in [Nodes -> Seq(Messages)]
        /\ handlers' \in [Nodes -> SUBSET Tasks]
    BY <2>1, <1>1 DEF CopyTypes
  <2>3. /\ UNCHANGED <<row, changes, assigns, copy, asof>> /\ UNCHANGED unread
        /\ \A n \in Nodes : /\ phase'[n] = phase[n] /\ queue'[n] = queue[n]
                            /\ handlers'[n] = handlers[n]
    BY <2>1
  <2>. QED  BY <2>1, <2>2, <2>3, BreaksKeeps
<1>3. ASSUME NEW n \in Nodes, Crash(n)
      PROVE  Inv'
  <2>1. PICK clients : clients = {c \in Clients : request[c] # NULL /\ Home[c] = n}
    OBVIOUS
  <2>2. /\ Breaks(clients) /\ clients \in SUBSET Clients
        /\ UNCHANGED <<row, changes, assigns, copy, asof, unread>>
        /\ phase' = [phase EXCEPT ![n] = "down"]
        /\ queue' = [queue EXCEPT ![n] = << >>]
        /\ handlers' = [handlers EXCEPT ![n] = {}]
    BY <1>3, <2>1 DEF Crash, database
  <2>3. /\ phase' \in [Nodes -> {"down", "loading", "up", "deaf"}]
        /\ queue' \in [Nodes -> Seq(Messages)]
        /\ handlers' \in [Nodes -> SUBSET Tasks]
    <3>1. << >> \in Seq(Messages)
      OBVIOUS
    <3>. QED  BY <2>2, <3>1, <1>1 DEF CopyTypes
  <2>4. /\ phase'[n] = "down" /\ queue'[n] = << >> /\ handlers'[n] = {}
        /\ \A m \in Nodes : m # n => /\ phase'[m] = phase[m] /\ queue'[m] = queue[m]
                                     /\ handlers'[m] = handlers[m]
    BY <2>2, <1>1 DEF CopyTypes
  <2>5. UNCHANGED <<row, changes, assigns, copy, asof>> /\ UNCHANGED unread
    BY <2>2
  <2>6. \A m \in Nodes : \/ /\ phase'[m] = phase[m] /\ queue'[m] = queue[m]
                            /\ handlers'[m] = handlers[m]
                         \/ phase'[m] = "down" /\ queue'[m] = << >> /\ handlers'[m] = {}
    BY <2>4
  <2>. QED  BY <2>2, <2>3, <2>5, <2>6, BreaksKeeps
<1>4. ASSUME NEW n \in Nodes, Disconnect(n)
      PROVE  Inv'
  <2>1. /\ UNCHANGED <<row, changes, assigns, request, unread, copy, handlers, asof>>
        /\ phase[n] = "up" /\ phase' = [phase EXCEPT ![n] = "deaf"]
        /\ queue' = [queue EXCEPT ![n] = << >>]
        /\ lost' = [m \in Nodes |-> [g \in Groups |-> lost[m][g] \cup
                     {x.change : x \in {y \in ToSet(queue[n]) : m = n /\ y.group = g}}]]
    BY <1>4 DEF Disconnect, Misses, database
  <2>2. /\ queue[n] \in Seq(Messages) /\ ToSet(queue[n]) \subseteq Messages
        /\ ToSet(<< >>) = {}
    BY <1>1 DEF CopyTypes, ToSet
  <2>3. CopyTypes'
    <3>1. lost' \in [Nodes -> [Groups -> SUBSET Changes]]
      <4>1. lost \in [Nodes -> [Groups -> SUBSET Changes]]
        BY <1>1 DEF CopyTypes
      <4>2. \A x \in ToSet(queue[n]) : x.change \in Changes
        BY <2>2 DEF Messages
      <4>. QED  BY <2>1, <4>1, <4>2
    <3>2. << >> \in Seq(Messages)
      OBVIOUS
    <3>. QED  BY <2>1, <3>1, <3>2, <1>1 DEF CopyTypes
  <2>4. ASSUME NEW m \in Nodes
        PROVE  /\ ToSet(queue'[m]) \subseteq ToSet(queue[m])
               /\ m # n => queue'[m] = queue[m]
               /\ InFlight(m)' \subseteq InFlight(m)
               /\ InFlight(m) \subseteq InFlight(m)' \cup ToSet(queue[m])
    <3>1. m # n => queue'[m] = queue[m]
      BY <2>1, <1>1 DEF CopyTypes
    <3>2. ToSet(queue'[m]) \subseteq ToSet(queue[m])
      BY <2>1, <2>2, <3>1, <1>1 DEF CopyTypes
    <3>. QED  BY <2>1, <3>1, <3>2 DEF InFlight, At
  <2>5. ASSUME NEW m \in Nodes, NEW g \in Groups, Loaded(m, g)'
        PROVE  Kept(m, g)
    <3>1. Loaded(m, g)
      BY <2>1, <2>5, <1>1 DEF Loaded, CopyTypes
    <3>2. lost'[m][g] = lost[m][g] \cup
            {x.change : x \in {y \in ToSet(queue[n]) : m = n /\ y.group = g}}
      BY <2>1
    <3>3. ASSUME NEW x \in InFlight(m), x.group = g
          PROVE  x \in InFlight(m)' \/ x.change \in lost'[m][g]
      <4>1. CASE m = n
        <5>1. CASE x \in ToSet(queue[n])
          BY <4>1, <5>1, <3>2, <3>3
        <5>2. CASE x \notin ToSet(queue[n])
          BY <4>1, <5>2, <2>4
        <5>. QED  BY <5>1, <5>2
      <4>2. CASE m # n
        BY <4>2, <2>1, <2>4 DEF InFlight, At
      <4>. QED  BY <4>1, <4>2
    <3>. QED  BY <2>1, <3>1, <3>2, <3>3 DEF Kept
  <2>6. ASSUME NEW m \in Nodes
        PROVE  /\ unread'[m] # {} => phase'[m] \in {"down", "loading"}
               /\ \A t \in handlers'[m] : t \in handlers[m]
    BY <2>1, <1>1 DEF OrderOK, CopyTypes
  <2>. QED  BY <2>1, <2>3, <2>4, <2>5, <2>6, <1>1, StepKeeps DEF OrderOK
<1>. QED  BY <1>2, <1>3, <1>4 DEF Fault

\* A message that is taken from the queue is in a task then.
LEMMA ReceiveKeeps ==
  ASSUME Inv, NEW n \in Nodes, Receive(n)
  PROVE  Inv'
<1>1. CopyTypes /\ OrderOK
  BY DEF Inv
<1>2. PICK m : m = Head(queue[n])
  OBVIOUS
<1>3. PICK t : t = [message |-> m, read |-> NULL]
  OBVIOUS
<1>4. /\ UNCHANGED <<row, changes, assigns, request, phase, unread, copy, asof, lost>>
      /\ queue[n] # << >> /\ queue' = [queue EXCEPT ![n] = Tail(queue[n])]
      /\ handlers' = [handlers EXCEPT ![n] = handlers[n] \cup {t}]
  BY <1>2, <1>3, <1>1 DEF Receive, database, CopyTypes
<1>5. /\ m \in Messages /\ Tail(queue[n]) \in Seq(Messages)
      /\ ToSet(queue[n]) = ToSet(Tail(queue[n])) \cup {m}
  <2>1. queue[n] \in Seq(Messages)
    BY <1>1 DEF CopyTypes
  <2>2. m \in Messages
    BY <2>1, <1>2, <1>4
  <2>. QED  BY <2>1, <2>2, <1>2, <1>4, QueueSets
<1>6. t \in Tasks /\ t.message = m /\ t.read = NULL
  BY <1>3, <1>5 DEF Tasks
<1>7. CopyTypes'
  BY <1>1, <1>4, <1>5, <1>6 DEF CopyTypes
<1>8. ASSUME NEW k \in Nodes
      PROVE  InFlight(k)' = InFlight(k)
  <2>1. CASE k = n
    <3>1. queue'[n] = Tail(queue[n]) /\ handlers'[n] = handlers[n] \cup {t}
      BY <1>1, <1>4 DEF CopyTypes
    <3>2. {x.message : x \in handlers[n] \cup {t}} =
          {x.message : x \in handlers[n]} \cup {m}
      BY <1>6
    <3>. QED  BY <2>1, <3>1, <3>2, <1>4, <1>5 DEF InFlight, At
  <2>2. CASE k # n
    BY <2>2, <1>1, <1>4 DEF InFlight, At, CopyTypes
  <2>. QED  BY <2>1, <2>2
<1>9. ASSUME NEW k \in Nodes
      PROVE  /\ unread'[k] # {} => phase'[k] \in {"down", "loading"}
             /\ \A x \in handlers'[k] : x \in handlers[k] \/ TaskOK(x)
  BY <1>1, <1>4, <1>6 DEF OrderOK, CopyTypes, TaskOK
<1>10. ASSUME NEW k \in Nodes, NEW g \in Groups, Loaded(k, g)'
       PROVE  Kept(k, g)
  BY <1>10, <1>4, <1>8 DEF Loaded, Kept
<1>. QED  BY <1>1, <1>4, <1>7, <1>8, <1>9, <1>10, StepKeeps DEF OrderOK

\* A task sets the copy to what it has read, or takes a deleted group out of it.
LEMMA HandleKeeps ==
  ASSUME Inv, NEW n \in Nodes, NEW t \in handlers[n], Handle(n, t)
  PROVE  Inv'
<1>. DEFINE g == t.message.group
<1>1. CopyTypes /\ OrderOK /\ FlightOK /\ TasksOK
  BY DEF Inv
<1>2. t \in Tasks /\ MessageOK(t.message) /\ TaskOK(t)
  <2>1. t.message \in InFlight(n)
    BY DEF InFlight
  <2>. QED  BY <2>1, <1>1 DEF CopyTypes, FlightOK, TasksOK
<1>3. /\ g \in Groups /\ t.message.change \in Int /\ t.message.change >= 1
      /\ row[g].change \in Int /\ t.message.change <= row[g].change
      /\ t.message.change = row[g].change =>
           (row[g].there <=> t.message.topic = "updated")
  <2>1. t.message \in Messages
    BY <1>2 DEF MessageOK
  <2>2. g \in Groups /\ t.message.change \in Changes
    BY <2>1 DEF Messages
  <2>3. row[g].change \in Changes
    BY <2>2, <1>1 DEF CopyTypes
  <2>. QED  BY <2>2, <2>3, <1>2 DEF MessageOK, Changes
<1>4. CASE Forget(n, t)
  <2>1. Apply(n, t, 0) /\ t.message.topic = "deleted"
    BY <1>4 DEF Forget
  <2>2. t.message.change = row[g].change => Version(g) = 0
    BY <2>1, <1>3 DEF Version
  <2>. QED  BY <2>1, <2>2, ApplyKeeps
<1>5. CASE Store(n, t)
  <2>1. Apply(n, t, t.read) /\ t.read # NULL
    BY <1>5 DEF Store
  <2>2. t.read \in Nat
    BY <2>1, <1>2 DEF Tasks
  <2>3. t.message.change = row[g].change => t.read = Version(g)
    BY <2>1, <2>2, <1>2, <1>3 DEF TaskOK, Version
  <2>. QED  BY <2>1, <2>2, <2>3, ApplyKeeps
<1>6. CASE Read(n, t)
  <2>1. PICK v : v = Version(g)
    OBVIOUS
  <2>2. PICK u : u = [t EXCEPT !.read = v]
    OBVIOUS
  <2>3. PICK new : new = (handlers[n] \ {t}) \cup (IF v = 0 THEN {} ELSE {u})
    OBVIOUS
  <2>4. /\ t.message.topic = "updated" /\ t.read = NULL
        /\ handlers' = [handlers EXCEPT ![n] = new]
        /\ UNCHANGED <<row, changes, assigns, request, phase, unread, copy, queue, asof,
                       lost>>
    <3>1. handlers' = [handlers EXCEPT ![n] = (@ \ {t}) \cup
                         (IF v = 0 THEN {} ELSE {u})]
      BY <1>6, <2>1, <2>2 DEF Read
    <3>2. n \in DOMAIN handlers
      BY <1>1 DEF CopyTypes
    <3>3. handlers' = [handlers EXCEPT ![n] = new]
      BY <3>1, <3>2, <2>3
    <3>. QED  BY <3>3, <1>6 DEF Read, database
  <2>5. /\ v \in Nat /\ (v # 0 => v = row[g].change)
        /\ t.message.change = row[g].change => v # 0
    BY <2>1, <2>4, <1>3 DEF Version
  <2>6. u \in Tasks /\ u.message = t.message /\ u.read = v
    BY <2>2, <2>5, <1>2 DEF Tasks
  <2>7. v # 0 => TaskOK(u)
    BY <2>4, <2>5, <2>6, <1>3 DEF TaskOK
  <2>8. /\ new \subseteq Tasks
        /\ \A x \in new : x \in handlers[n] \/ TaskOK(x)
        /\ {x.message : x \in new} \subseteq {x.message : x \in handlers[n]}
        /\ \A x \in handlers[n] : \/ x.message \in {y.message : y \in new}
                                  \/ v = 0 /\ x = t
    BY <2>3, <2>6, <2>7, <1>1 DEF CopyTypes
  <2>9. CopyTypes'
    BY <2>4, <2>8, <1>1 DEF CopyTypes
  <2>10. handlers'[n] = new /\ \A k \in Nodes : k # n => handlers'[k] = handlers[k]
    BY <2>4, <1>1 DEF CopyTypes
  <2>11. ASSUME NEW k \in Nodes
         PROVE  /\ unread'[k] # {} => phase'[k] \in {"down", "loading"}
                /\ InFlight(k)' \subseteq InFlight(k)
                /\ \A x \in handlers'[k] : x \in handlers[k] \/ TaskOK(x)
    <3>1. {x.message : x \in handlers'[k]} \subseteq {x.message : x \in handlers[k]}
      BY <2>8, <2>10
    <3>2. InFlight(k)' \subseteq InFlight(k)
      BY <2>4, <3>1 DEF InFlight, At
    <3>3. \A x \in handlers'[k] : x \in handlers[k] \/ TaskOK(x)
      BY <2>8, <2>10
    <3>. QED  BY <2>4, <3>2, <3>3, <1>1 DEF OrderOK
  <2>12. ASSUME NEW k \in Nodes, NEW h \in Groups, Loaded(k, h)'
         PROVE  Kept(k, h)
    <3>1. ASSUME NEW x \in InFlight(k), x.group = h, x.change = row[h].change
          PROVE  x \in InFlight(k)'
      <4>1. CASE x \in {y.message : y \in handlers[k]}
        <5>1. PICK y \in handlers[k] : x = y.message
          BY <4>1
        <5>2. ~ (v = 0 /\ y = t)
          BY <5>1, <3>1, <2>5
        <5>3. x \in {z.message : z \in handlers'[k]}
          BY <5>1, <5>2, <2>8, <2>10
        <5>. QED  BY <5>3 DEF InFlight
      <4>2. CASE x \notin {y.message : y \in handlers[k]}
        BY <4>2, <2>4 DEF InFlight, At
      <4>. QED  BY <4>1, <4>2
    <3>. QED  BY <2>4, <2>12, <3>1 DEF Loaded, Kept
  <2>. QED  BY <2>4, <2>9, <2>11, <2>12, <1>1, StepKeeps DEF OrderOK
<1>. QED  BY <1>4, <1>5, <1>6 DEF Handle

\* A node that starts has the rows of what it has read.
LEMMA StartKeeps ==
  ASSUME Inv, NEW n \in Nodes, Start(n)
  PROVE  Inv'
<1>1. CopyTypes /\ OrderOK
  BY DEF Inv
<1>2. /\ UNCHANGED <<row, changes, assigns, request, queue, handlers>>
      /\ \A k \in Nodes : InFlight(k)' = InFlight(k)
  BY DEF Start, Boot, Load, Subscribe, Reconnect, database, InFlight, At
<1>3. CASE Boot(n)
  <2>1. /\ phase' = [phase EXCEPT ![n] = "loading"]
        /\ unread' = [unread EXCEPT ![n] = Scopes]
        /\ copy' = [copy EXCEPT ![n] = [g \in Groups |-> 0]]
        /\ UNCHANGED <<asof, lost>>
    BY <1>3 DEF Boot
  <2>2. CopyTypes'
    BY <2>1, <1>1, <1>2 DEF CopyTypes
  <2>3. ASSUME NEW k \in Nodes
        PROVE  unread'[k] # {} => phase'[k] \in {"down", "loading"}
    BY <2>1, <1>1 DEF CopyTypes, OrderOK
  <2>4. ASSUME NEW k \in Nodes, NEW g \in Groups, Loaded(k, g)'
        PROVE  Kept(k, g)
    <3>1. g[2] \in Scopes
      BY GroupsAssumption DEF GroupsAssumption
    <3>2. k # n
      BY <2>1, <2>4, <3>1, <1>1 DEF Loaded, CopyTypes
    <3>. QED  BY <2>1, <2>4, <3>2, <1>1, <1>2 DEF Loaded, Kept, CopyTypes
  <2>. QED  BY <2>1, <2>2, <2>3, <2>4, <1>1, <1>2, StepKeeps DEF OrderOK
<1>4. ASSUME NEW s \in Scopes, Load(n, s)
      PROVE  Inv'
  <2>1. /\ UNCHANGED phase
        /\ unread' = [unread EXCEPT ![n] = unread[n] \ {s}]
        /\ copy' = [copy EXCEPT ![n] = [g \in Groups |->
                      IF g[2] = s THEN Version(g) ELSE copy[n][g]]]
        /\ asof' = [asof EXCEPT ![n] = [g \in Groups |->
                      IF g[2] = s THEN changes ELSE asof[n][g]]]
        /\ lost' = [lost EXCEPT ![n] = [g \in Groups |->
                      IF g[2] = s THEN {} ELSE lost[n][g]]]
        /\ phase[n] = "loading"
    BY <1>1, <1>4 DEF Load, CopyTypes
  <2>2. \A g \in Groups : Version(g) \in Nat /\ row[g].change \in Int
    BY <1>1 DEF CopyTypes, Version, Changes
  <2>3. CopyTypes'
    <3>1. copy' \in [Nodes -> [Groups -> Nat]]
      BY <2>1, <2>2, <1>1 DEF CopyTypes
    <3>2. asof' \in [Nodes -> [Groups -> Changes]]
      BY <2>1, <1>1 DEF CopyTypes
    <3>3. lost' \in [Nodes -> [Groups -> SUBSET Changes]]
      BY <2>1, <1>1 DEF CopyTypes
    <3>4. unread' \in [Nodes -> SUBSET Scopes]
      BY <2>1, <1>1 DEF CopyTypes
    <3>. QED  BY <2>1, <3>1, <3>2, <3>3, <3>4, <1>1, <1>2 DEF CopyTypes
  <2>4. ASSUME NEW k \in Nodes
        PROVE  unread'[k] # {} => phase'[k] \in {"down", "loading"}
    BY <2>1, <1>1 DEF CopyTypes, OrderOK
  <2>5. ASSUME NEW k \in Nodes, NEW g \in Groups
        PROVE  /\ asof'[k][g] <= changes
               /\ Loaded(k, g)' => CopyOK(k, g)' \/ Kept(k, g)
    <3>1. CASE k = n /\ g[2] = s
      <4>1. /\ asof'[k][g] = changes /\ copy'[k][g] = Version(g) /\ row'[g] = row[g]
            /\ changes \in Int /\ row[g].change <= changes
            /\ Version(g)' = Version(g)
        BY <3>1, <2>1, <1>1, <1>2 DEF CopyTypes, OrderOK, Changes, Version
      <4>. QED  BY <4>1, <2>2 DEF CopyOK
    <3>2. CASE ~ (k = n /\ g[2] = s)
      <4>1. /\ copy'[k][g] = copy[k][g] /\ asof'[k][g] = asof[k][g]
            /\ lost'[k][g] = lost[k][g]
            /\ g[2] \notin unread'[k] => g[2] \notin unread[k]
        BY <3>2, <2>1, <1>1 DEF CopyTypes
      <4>. QED  BY <4>1, <2>1, <1>1, <1>2 DEF Loaded, Kept, OrderOK
    <3>. QED  BY <3>1, <3>2
  <2>. QED  BY <2>3, <2>4, <2>5, <1>2, StepKeeps
<1>5. CASE Subscribe(n) \/ Reconnect(n)
  <2>1. /\ UNCHANGED <<unread, copy, asof, lost>>
        /\ phase' = [phase EXCEPT ![n] = "up"]
        /\ unread[n] = {}
        /\ phase[n] # "down"
    BY <1>1, <1>5 DEF Subscribe, Reconnect, OrderOK
  <2>2. CopyTypes'
    BY <2>1, <1>1, <1>2 DEF CopyTypes
  <2>3. ASSUME NEW k \in Nodes
        PROVE  unread'[k] # {} => phase'[k] \in {"down", "loading"}
    BY <2>1, <1>1 DEF CopyTypes, OrderOK
  <2>4. ASSUME NEW k \in Nodes, NEW g \in Groups, Loaded(k, g)'
        PROVE  Kept(k, g)
    BY <2>1, <2>4, <1>1, <1>2 DEF Loaded, Kept, CopyTypes
  <2>. QED  BY <2>1, <2>2, <2>3, <2>4, <1>1, <1>2, StepKeeps DEF OrderOK
<1>. QED  BY <1>3, <1>4, <1>5 DEF Start

\* The invariant holds at first, and no step ends it.
LEMMA Initially ==
  ASSUME Init
  PROVE  Inv
<1>1. 1 \in Changes /\ 1 \in Nat
  BY GroupsAssumption DEF Changes, GroupsAssumption
<1>2. \A g \in Groups : row[g] = [there |-> TRUE, change |-> 1] /\ Version(g) = 1
  BY DEF Init, Version
<1>3. CopyTypes
  <2>1. row \in [Groups -> [there : BOOLEAN, change : Changes]]
    BY <1>1 DEF Init
  <2>2. copy \in [Nodes -> [Groups -> Nat]]
    BY <1>1, <1>2 DEF Init
  <2>3. /\ asof \in [Nodes -> [Groups -> Changes]]
        /\ lost \in [Nodes -> [Groups -> SUBSET Changes]]
    BY <1>1 DEF Init
  <2>4. /\ phase \in [Nodes -> {"down", "loading", "up", "deaf"}]
        /\ unread \in [Nodes -> SUBSET Scopes]
        /\ queue \in [Nodes -> Seq(Messages)]
        /\ handlers \in [Nodes -> SUBSET Tasks]
    BY DEF Init
  <2>. QED  BY <2>1, <2>2, <2>3, <2>4, <1>1 DEF CopyTypes, Init
<1>4. OrderOK
  BY <1>2 DEF OrderOK, Init
<1>5. ASSUME NEW n \in Nodes
      PROVE  InFlight(n) = {}
  BY DEF InFlight, At, Init, ToSet
<1>6. CopiesOK
  BY <1>2, <1>1 DEF CopiesOK, CopyOK, Init
<1>. QED  BY <1>3, <1>4, <1>5, <1>6 DEF Inv, FlightOK, TasksOK, Init

LEMMA Inductive ==
  ASSUME Inv, [Next]_vars
  PROVE  Inv'
<1>1. CASE UNCHANGED vars
  <2>1. UNCHANGED <<row, changes, assigns, nodes, request>>
    BY <1>1 DEF vars, database
  <2>2. assigns' \in Nat /\ request' = [c \in Clients |-> request'[c]]
    BY <2>1 DEF Inv, CopyTypes
  <2>. QED  BY <2>1, <2>2, QuietKeeps
<1>2. CASE Next
  BY <1>2, RequestKeeps, ProceedKeeps, ReceiveKeeps, HandleKeeps, StartKeeps, FaultKeeps
  DEF Next
<1>. QED  BY <1>1, <1>2
-----------------------------------------------------------------------------
(* The lists of names *)

\* What is kept of a list is from the list.
LEMMA CleanedUpKeeps ==
  ASSUME NEW S, NEW list \in Seq(S), NEW existing
  PROVE  /\ CleanedUp(list, existing) \in Seq(S)
         /\ ToSet(CleanedUp(list, existing)) \subseteq ToSet(list)
<1>. DEFINE n == Len(list)
            L == ToSet(list)
            V == [kept : Seq(L), skip : BOOLEAN]
            first == [kept |-> << >>, skip |-> FALSE]
            Pass(v, i) == IF v.skip \/ list[i] \in existing
                          THEN [kept |-> Append(v.kept, list[i]), skip |-> FALSE]
                          ELSE [kept |-> v.kept, skip |-> TRUE]
            step == [v \in V |-> [i \in 1..n |-> Pass(v, i)]]
<1>1. n \in Nat /\ \A i \in 1..n : list[i] \in L
  BY DEF ToSet
<1>2. first \in V
  OBVIOUS
<1>3. step \in Steps(n, V)
  <2>1. ASSUME NEW v \in V, NEW i \in 1..n PROVE Pass(v, i) \in V
    <3>1. v.kept \in Seq(L) /\ Append(v.kept, list[i]) \in Seq(L)
      BY <1>1
    <3>. QED  BY <3>1
  <2>. HIDE DEF Pass, V
  <2>. QED  BY <2>1 DEF Steps
<1>. HIDE DEF L
<1>4. PICK loop : IsLoop(loop, n, V, first, step)
  <2>1. n \in Nat
    BY <1>1
  <2>. HIDE DEF V, first, step, n
  <2>. QED  BY <2>1, <1>2, <1>3, LoopExists
<1>5. \A i \in 1..n : loop[i] = Pass(loop[i - 1], i)
  <2>1. ASSUME NEW i \in 1..n PROVE loop[i] = Pass(loop[i - 1], i)
    <3>1. loop[i - 1] \in V
      <4>1. i - 1 \in 0..n
        BY <1>1
      <4>. HIDE DEF V, n
      <4>. QED  BY <1>4, <4>1 DEF IsLoop
    <3>. HIDE DEF Pass, V
    <3>. QED  BY <1>4, <3>1 DEF IsLoop
  <2>. QED  BY <2>1
<1>. DEFINE Loop(f) ==
       f = [i \in 0..n |->
              IF i = 0
              THEN [kept |-> << >>, skip |-> FALSE]
              ELSE IF f[i - 1].skip \/ list[i] \in existing
                   THEN [kept |-> Append(f[i - 1].kept, list[i]), skip |-> FALSE]
                   ELSE [kept |-> f[i - 1].kept, skip |-> TRUE]]
<1>6. Loop(loop)
  <2>. DEFINE body(i) == IF i = 0 THEN first ELSE Pass(loop[i - 1], i)
  <2>1. loop = [i \in 0..n |-> loop[i]]
    <3>. HIDE DEF V, n
    <3>. QED  BY <1>4 DEF IsLoop
  <2>2. ASSUME NEW i \in 0..n PROVE loop[i] = body(i)
    <3>1. i = 0 \/ i \in 1..n
      BY <1>1
    <3>2. CASE i = 0
      <4>. HIDE DEF V, n, Pass, first
      <4>. QED  BY <1>4, <3>2 DEF IsLoop
    <3>3. CASE i \in 1..n
      <4>1. i # 0
        BY <1>1, <3>3
      <4>. HIDE DEF V, n, Pass, first
      <4>. QED  BY <1>5, <3>3, <4>1
    <3>. QED  BY <3>1, <3>2, <3>3
  <2>3. loop = [i \in 0..n |-> body(i)]
    <3>. HIDE DEF body, n
    <3>. QED  BY <2>1, <2>2
  <2>. HIDE DEF n
  <2>. QED  BY <2>3
<1>7. PICK f : f = (CHOOSE g : Loop(g))
  OBVIOUS
<1>8. Loop(f)
  <2>. HIDE DEF Loop
  <2>. QED  BY <1>6, <1>7
<1>9. 0..n \subseteq {i \in 0..n : f[i] \in V}
  <2>. DEFINE T == {i \in 0..n : f[i] \in V}
  <2>1. 0 \in T
    BY <1>1, <1>8
  <2>2. ASSUME NEW i \in 1..n, i - 1 \in T PROVE i \in T
    <3>1. f[i] = Pass(f[i - 1], i)
      <4>1. i \in 0..n /\ i # 0
        BY <1>1
      <4>. HIDE DEF n
      <4>. QED  BY <1>8, <4>1
    <3>2. f[i - 1] \in V
      BY <2>2
    <3>3. step[f[i - 1]][i] = Pass(f[i - 1], i)
      <4>. HIDE DEF V, Pass
      <4>. QED  BY <3>2
    <3>4. f[i] \in V
      <4>. HIDE DEF V, Pass, step
      <4>. QED  BY <1>3, <3>1, <3>2, <3>3 DEF Steps
    <3>. QED  BY <3>4
  <2>. HIDE DEF T
  <2>3. \A i \in 1..n : i - 1 \in T => i \in T
    BY <2>2
  <2>. QED  BY <1>1, <2>1, <2>3, EachPass DEF T
<1>10. f[n] \in V
  BY <1>1, <1>9
<1>11. CleanedUp(list, existing) = f[n].kept
  BY <1>7 DEF CleanedUp
<1>12. CleanedUp(list, existing) \in Seq(L)
  BY <1>10, <1>11
<1>13. L \subseteq S
  BY DEF L, ToSet
<1>14. CleanedUp(list, existing) \in Seq(S)
  BY <1>12, <1>13, SeqMonotonic
<1>15. ToSet(CleanedUp(list, existing)) \subseteq L
  BY <1>12 DEF ToSet
<1>. QED  BY <1>14, <1>15 DEF L
LEMMA FilteredKeeps ==
  ASSUME NEW S, NEW list \in Seq(S), NEW existing
  PROVE  /\ Filtered(list, existing) \in Seq(S)
         /\ ToSet(Filtered(list, existing)) \subseteq ToSet(list)
<1>. DEFINE n == Len(list)
            L == ToSet(list)
            V == Seq(L)
            first == << >>
            Pass(v, i) == IF list[i] \in existing THEN Append(v, list[i]) ELSE v
            step == [v \in V |-> [i \in 1..n |-> Pass(v, i)]]
<1>1. n \in Nat /\ \A i \in 1..n : list[i] \in L
  BY DEF ToSet
<1>2. first \in V
  OBVIOUS
<1>3. step \in Steps(n, V)
  <2>1. ASSUME NEW v \in V, NEW i \in 1..n PROVE Pass(v, i) \in V
    <3>1. v \in Seq(L) /\ Append(v, list[i]) \in Seq(L)
      BY <1>1
    <3>. QED  BY <3>1
  <2>. HIDE DEF Pass, V
  <2>. QED  BY <2>1 DEF Steps
<1>. HIDE DEF L
<1>4. PICK loop : IsLoop(loop, n, V, first, step)
  <2>1. n \in Nat
    BY <1>1
  <2>. HIDE DEF V, first, step, n
  <2>. QED  BY <2>1, <1>2, <1>3, LoopExists
<1>5. \A i \in 1..n : loop[i] = Pass(loop[i - 1], i)
  <2>1. ASSUME NEW i \in 1..n PROVE loop[i] = Pass(loop[i - 1], i)
    <3>1. loop[i - 1] \in V
      <4>1. i - 1 \in 0..n
        BY <1>1
      <4>. HIDE DEF V, n
      <4>. QED  BY <1>4, <4>1 DEF IsLoop
    <3>. HIDE DEF Pass, V
    <3>. QED  BY <1>4, <3>1 DEF IsLoop
  <2>. QED  BY <2>1
<1>. DEFINE Loop(f) ==
       f = [i \in 0..n |->
              IF i = 0 THEN << >>
              ELSE IF list[i] \in existing THEN Append(f[i - 1], list[i])
                                           ELSE f[i - 1]]
<1>6. Loop(loop)
  <2>. DEFINE body(i) == IF i = 0 THEN first ELSE Pass(loop[i - 1], i)
  <2>1. loop = [i \in 0..n |-> loop[i]]
    <3>. HIDE DEF V, n
    <3>. QED  BY <1>4 DEF IsLoop
  <2>2. ASSUME NEW i \in 0..n PROVE loop[i] = body(i)
    <3>1. i = 0 \/ i \in 1..n
      BY <1>1
    <3>2. CASE i = 0
      <4>. HIDE DEF V, n, Pass, first
      <4>. QED  BY <1>4, <3>2 DEF IsLoop
    <3>3. CASE i \in 1..n
      <4>1. i # 0
        BY <1>1, <3>3
      <4>. HIDE DEF V, n, Pass, first
      <4>. QED  BY <1>5, <3>3, <4>1
    <3>. QED  BY <3>1, <3>2, <3>3
  <2>3. loop = [i \in 0..n |-> body(i)]
    <3>. HIDE DEF body, n
    <3>. QED  BY <2>1, <2>2
  <2>. HIDE DEF n
  <2>. QED  BY <2>3
<1>7. PICK f : f = (CHOOSE g : Loop(g))
  OBVIOUS
<1>8. Loop(f)
  <2>. HIDE DEF Loop
  <2>. QED  BY <1>6, <1>7
<1>9. 0..n \subseteq {i \in 0..n : f[i] \in V}
  <2>. DEFINE T == {i \in 0..n : f[i] \in V}
  <2>1. 0 \in T
    BY <1>1, <1>8
  <2>2. ASSUME NEW i \in 1..n, i - 1 \in T PROVE i \in T
    <3>1. f[i] = Pass(f[i - 1], i)
      <4>1. i \in 0..n /\ i # 0
        BY <1>1
      <4>. HIDE DEF n
      <4>. QED  BY <1>8, <4>1
    <3>2. f[i - 1] \in V
      BY <2>2
    <3>3. step[f[i - 1]][i] = Pass(f[i - 1], i)
      <4>. HIDE DEF V, Pass
      <4>. QED  BY <3>2
    <3>4. f[i] \in V
      <4>. HIDE DEF V, Pass, step
      <4>. QED  BY <1>3, <3>1, <3>2, <3>3 DEF Steps
    <3>. QED  BY <3>4
  <2>. HIDE DEF T
  <2>3. \A i \in 1..n : i - 1 \in T => i \in T
    BY <2>2
  <2>. QED  BY <1>1, <2>1, <2>3, EachPass DEF T
<1>10. f[n] \in V
  BY <1>1, <1>9
<1>11. Filtered(list, existing) = f[n]
  BY <1>7 DEF Filtered
<1>12. Filtered(list, existing) \in Seq(L)
  BY <1>10, <1>11
<1>13. L \subseteq S
  BY DEF L, ToSet
<1>14. Filtered(list, existing) \in Seq(S)
  BY <1>12, <1>13, SeqMonotonic
<1>15. ToSet(Filtered(list, existing)) \subseteq L
  BY <1>12 DEF ToSet
<1>. QED  BY <1>14, <1>15 DEF L
-----------------------------------------------------------------------------
(* Requests and users *)

\* What a request has in hand; its node serves.
RequestOK(c) ==
  request[c] # NULL =>
    /\ Serving(Home[c])
    /\ request[c] \in Requests
    /\ request[c].step = "cleaning" => request[c].seen # {}

RequestsOK == \A c \in Clients : RequestOK(c)

\* The request of c is going to take the name out of users' lists.
Cleans(c, x) ==
  /\ request[c] # NULL
  /\ \/ CleansUp(request[c])
     \/ request[c].step = "clean"
     \/ request[c].step = "cleaning" /\ x \notin request[c].seen

Cleaning(x) == \E c \in Clients : Cleans(c, x)

\* A name that a user has is there, or a request is going to take it out.
NamesOK ==
  /\ names \in [Users -> Seq(Names)]
  /\ \A u \in Users \ excused : \A x \in ToSet(names[u]) : x \in Existing \/ Cleaning(x)

\* What the change of one client's request does to the others': nothing.
LEMMA OneRequest ==
  ASSUME CopyTypes, NEW c \in Clients, NEW r, Proceeds(c, r)
  PROVE  /\ request'[c] = r
         /\ \A d \in Clients : d # c => request'[d] = request[d]
BY DEF CopyTypes, Proceeds

LEMMA RequestsKept ==
  ASSUME CopyTypes, RequestsOK, NEW c \in Clients, NEW r, Proceeds(c, r),
         UNCHANGED phase,
         r # NULL =>
           /\ request[c] # NULL \/ Serving(Home[c])
           /\ r \in Requests
           /\ r.step = "cleaning" => r.seen # {}
  PROVE  RequestsOK'
<1>1. request'[c] = r /\ \A d \in Clients : d # c => request'[d] = request[d]
  BY OneRequest
<1>2. ASSUME NEW d \in Clients PROVE RequestOK(d)'
  <2>1. Serving(Home[d])' = Serving(Home[d])
    BY DEF Serving
  <2>2. CASE d = c
    BY <2>1, <2>2, <1>1 DEF RequestOK, RequestsOK
  <2>3. CASE d # c
    BY <2>1, <2>3, <1>1 DEF RequestOK, RequestsOK
  <2>. QED  BY <2>2, <2>3
<1>. QED  BY <1>2 DEF RequestsOK

\* A step that changes no user's list.
LEMMA NamesKept ==
  ASSUME NamesOK, UNCHANGED names, excused \subseteq excused',
         \A x \in Names : x \in Existing \/ Cleaning(x)
                          => x \in Existing' \/ Cleaning(x)' \/ excused' = Users
  PROVE  NamesOK'
<1>1. \A u \in Users : \A x \in ToSet(names[u]) : x \in Names
  BY DEF NamesOK, ToSet
<1>. QED  BY <1>1 DEF NamesOK

\* ... when the rows of groups of the studio stay, and it proceeds with a request.
LEMMA NamesProceed ==
  ASSUME CopyTypes, NamesOK, UNCHANGED <<row, names>>, excused \subseteq excused',
         NEW c \in Clients, NEW r, Proceeds(c, r),
         \A x \in Names : Cleans(c, x) => \/ x \in Existing \/ Cleans(c, x)'
                                          \/ excused' = Users
  PROVE  NamesOK'
<1>1. request'[c] = r /\ \A d \in Clients : d # c => request'[d] = request[d]
  BY OneRequest
<1>2. Existing' = Existing
  BY DEF Existing
<1>3. ASSUME NEW x \in Names, Cleaning(x)
      PROVE  x \in Existing \/ Cleaning(x)' \/ excused' = Users
  <2>1. PICK d \in Clients : Cleans(d, x)
    BY <1>3 DEF Cleaning
  <2>2. CASE d = c
    BY <2>1, <2>2 DEF Cleaning
  <2>3. CASE d # c
    <3>1. Cleans(d, x)'
      BY <2>1, <2>3, <1>1 DEF Cleans
    <3>. QED  BY <3>1 DEF Cleaning
  <2>. QED  BY <2>2, <2>3
<1>. QED  BY <1>2, <1>3, NamesKept

\* Groups are made and deleted: what deletes a group of the studio cleans up.
LEMMA RequestLists ==
  ASSUME Inv, RequestsOK, NamesOK, NEW c \in Clients, Request(c)
  PROVE  RequestsOK' /\ NamesOK'
<1>1. CopyTypes /\ OrderOK
  BY DEF Inv
<1>2. ASSUME NEW g \in Groups, Save(c, g)
      PROVE  RequestsOK' /\ NamesOK'
  <2>1. PICK r : r = Change("updated", g)
    OBVIOUS
  <2>2. r \in Requests /\ r.step = "changed"
    <3>1. changes + 1 \in Changes
      BY <1>1, <1>2, GroupsAssumption DEF Save, CopyTypes, Changes, GroupsAssumption
    <3>. QED  BY <2>1, <3>1 DEF Change, Messages, Requests
  <2>3. /\ Proceeds(c, r) /\ request[c] = NULL /\ Serving(Home[c])
        /\ row' = [row EXCEPT ![g] = [there |-> TRUE, change |-> changes + 1]]
        /\ UNCHANGED <<names, phase, excused>>
    BY <1>2, <2>1 DEF Save, Begin, nodes
  <2>4. RequestsOK'
    BY <2>2, <2>3, <1>1, RequestsKept
  <2>5. ASSUME NEW x \in Names, x \in Existing
        PROVE  x \in Existing'
    <3>1. <<x, Studio>> \in Groups
      BY GroupsAssumption DEF GroupsAssumption
    <3>. QED  BY <2>3, <2>5, <3>1, <1>1 DEF CopyTypes, Existing
  <2>6. ASSUME NEW x \in Names, Cleaning(x)
        PROVE  Cleaning(x)'
    <3>1. PICK d \in Clients : Cleans(d, x)
      BY <2>6 DEF Cleaning
    <3>2. d # c
      BY <3>1, <2>3 DEF Cleans
    <3>3. request'[d] = request[d]
      BY <3>2, <2>3, <1>1, OneRequest
    <3>4. Cleans(d, x)'
      BY <3>1, <3>3 DEF Cleans
    <3>. QED  BY <3>4 DEF Cleaning
  <2>. QED  BY <2>3, <2>4, <2>5, <2>6, NamesKept
<1>3. ASSUME NEW g \in Groups, Delete(c, g)
      PROVE  RequestsOK' /\ NamesOK'
  <2>1. PICK r : r = Change("deleted", g)
    OBVIOUS
  <2>2. /\ r.step = "changed" /\ r.message.topic = "deleted" /\ r.message.group = g
        /\ r \in Requests /\ r # NULL
    <3>1. changes + 1 \in Changes
      BY <1>1, <1>3, GroupsAssumption DEF Delete, CopyTypes, Changes, GroupsAssumption
    <3>2. [topic |-> "deleted", group |-> g, change |-> changes + 1] \in Messages
      BY <3>1 DEF Messages
    <3>3. r \in Requests
      BY <2>1, <3>2 DEF Change, Requests
    <3>. QED  BY <2>1, <3>3, GroupsAssumption DEF Change, GroupsAssumption
  <2>3. /\ Proceeds(c, r) /\ request[c] = NULL /\ Serving(Home[c])
        /\ row' = [h \in Groups |-> IF h = g \/ h \in Cascade(g)
                                    THEN [there |-> FALSE, change |-> changes + 1]
                                    ELSE row[h]]
        /\ UNCHANGED <<names, phase, excused>>
    BY <1>3, <2>1 DEF Delete, Begin
  <2>4. RequestsOK'
    BY <2>2, <2>3, <1>1, RequestsKept
  <2>5. request'[c] = r /\ \A d \in Clients : d # c => request'[d] = request[d]
    BY <2>3, <1>1, OneRequest
  <2>6. ASSUME NEW x \in Names, Cleaning(x)
        PROVE  Cleaning(x)'
    <3>1. PICK d \in Clients : Cleans(d, x)
      BY <2>6 DEF Cleaning
    <3>2. d # c
      BY <3>1, <2>3 DEF Cleans
    <3>3. Cleans(d, x)'
      BY <3>1, <3>2, <2>5 DEF Cleans
    <3>. QED  BY <3>3 DEF Cleaning
  <2>7. ASSUME NEW x \in Names, x \in Existing
        PROVE  x \in Existing' \/ Cleaning(x)'
    <3>1. <<x, Studio>> \in Groups
      BY GroupsAssumption DEF GroupsAssumption
    <3>2. CASE g[2] = Studio
      <4>1. CleansUp(r)
        BY <3>2, <2>2 DEF CleansUp
      <4>2. Cleans(c, x)'
        BY <4>1, <2>2, <2>5 DEF Cleans
      <4>. QED  BY <4>2 DEF Cleaning
    <3>3. CASE g[2] # Studio
      <4>1. <<x, Studio>> # g /\ Cascade(g) = {}
        BY <3>3 DEF Cascade
      <4>2. row'[<<x, Studio>>] = row[<<x, Studio>>]
        BY <4>1, <3>1, <2>3
      <4>. QED  BY <4>2, <2>7 DEF Existing
    <3>. QED  BY <3>2, <3>3
  <2>. QED  BY <2>3, <2>4, <2>6, <2>7, NamesKept
<1>4. ASSUME NEW u \in Users, NEW list \in Lists, Validate(c, u, list)
      PROVE  RequestsOK' /\ NamesOK'
  <2>1. PICK r : r = [step |-> "assign", user |-> u, list |-> Filtered(list, Existing)]
    OBVIOUS
  <2>2. Filtered(list, Existing) \in Seq(Names)
    BY FilteredKeeps, GroupsAssumption DEF GroupsAssumption
  <2>3. r.step = "assign" /\ r \in Requests
    BY <2>1, <2>2 DEF Requests
  <2>4. /\ Proceeds(c, r) /\ request[c] = NULL /\ Serving(Home[c])
        /\ UNCHANGED <<row, names, phase, excused>>
    BY <1>4, <2>1 DEF Validate, Begin, nodes
  <2>5. RequestsOK'
    BY <2>3, <2>4, <1>1, RequestsKept
  <2>6. \A x \in Names : ~ Cleans(c, x)
    BY <2>4 DEF Cleans
  <2>. QED  BY <2>4, <2>5, <2>6, <1>1, NamesProceed
<1>. QED  BY <1>2, <1>3, <1>4 DEF Request

\* A clean-up takes out of every list what it has not seen, or the user is
\* excused; what a user is given is there, or the user is excused.
LEMMA ProceedLists ==
  ASSUME Inv, RequestsOK, NamesOK, NEW c \in Clients, Proceed(c)
  PROVE  RequestsOK' /\ NamesOK'
<1>1. CopyTypes
  BY DEF Inv
<1>2. CASE Dispatch(c)
  <2>1. PICK r : r = IF CleansUp(request[c]) THEN [step |-> "clean"] ELSE NULL
    OBVIOUS
  <2>2. /\ Proceeds(c, r) /\ At(c, "changed")
        /\ UNCHANGED <<row, names, phase, excused>>
    BY <1>2, <2>1 DEF Dispatch, database
  <2>3. request[c] # NULL /\ (r # NULL => r.step = "clean" /\ r \in Requests)
    BY <2>1, <2>2 DEF At, Requests
  <2>4. RequestsOK'
    BY <2>2, <2>3, <1>1, RequestsKept
  <2>5. ASSUME NEW x \in Names, Cleans(c, x), r # NULL
        PROVE  Cleans(c, x)'
    <3>1. request'[c] = r
      BY <2>2, <1>1, OneRequest
    <3>. QED  BY <2>3, <2>5, <3>1 DEF Cleans
  <2>6. ASSUME NEW x \in Names, Cleans(c, x)
        PROVE  r # NULL
    <3>1. CleansUp(request[c])
      BY <2>2, <2>6 DEF Cleans, At
    <3>2. [step |-> "clean"] \in Requests
      BY DEF Requests
    <3>. QED  BY <2>1, <3>1, <3>2, GroupsAssumption DEF GroupsAssumption
  <2>. QED  BY <2>2, <2>4, <2>5, <2>6, <1>1, NamesProceed
<1>3. CASE ReadNames(c)
  <2>1. At(c, "clean") /\ UNCHANGED <<row, names, phase>>
    BY <1>3 DEF ReadNames, database, nodes
  <2>2. CASE Existing = {}
    <3>1. Proceeds(c, NULL) /\ excused' = Users
      BY <1>3, <2>2 DEF ReadNames
    <3>2. RequestsOK'
      BY <2>1, <3>1, <1>1, RequestsKept
    <3>3. NamesOK'
      BY <2>1, <3>1 DEF NamesOK
    <3>. QED  BY <3>2, <3>3
  <2>3. CASE Existing # {}
    <3>1. PICK r : r = [step |-> "cleaning", seen |-> Existing]
      OBVIOUS
    <3>2. Proceeds(c, r) /\ UNCHANGED excused
      BY <1>3, <2>3, <3>1 DEF ReadNames
    <3>3. /\ r.step = "cleaning" /\ r.seen = Existing
          /\ r \in Requests /\ r # NULL
      <4>1. Existing \in SUBSET Names
        BY DEF Existing
      <4>2. r \in Requests
        BY <3>1, <4>1 DEF Requests
      <4>. QED  BY <3>1, <4>2, GroupsAssumption DEF GroupsAssumption
    <3>4. RequestsOK'
      BY <2>1, <2>3, <3>2, <3>3, <1>1, RequestsKept DEF At
    <3>5. ASSUME NEW x \in Names, x \notin Existing
          PROVE  Cleans(c, x)'
      <4>1. request'[c] = r
        BY <3>2, <1>1, OneRequest
      <4>. QED  BY <4>1, <3>3, <3>5 DEF Cleans
    <3>. QED  BY <2>1, <3>2, <3>4, <3>5, <1>1, NamesProceed
  <2>. QED  BY <2>2, <2>3
<1>4. CASE CleanUp(c)
  <2>1. PICK seen : seen = request[c].seen
    OBVIOUS
  <2>2. /\ At(c, "cleaning") /\ Proceeds(c, NULL) /\ UNCHANGED <<row, phase>>
        /\ names' = [u \in Users |-> CleanedUp(names[u], seen)]
        /\ excused' = excused \cup
             {u \in Users : ~ ToSet(CleanedUp(names[u], seen)) \subseteq seen}
    BY <1>4, <2>1 DEF CleanUp, nodes
  <2>3. RequestsOK'
    BY <2>2, <1>1, RequestsKept
  <2>4. ASSUME NEW u \in Users
        PROVE  /\ names'[u] \in Seq(Names)
               /\ ToSet(names'[u]) \subseteq ToSet(names[u])
               /\ u \notin excused' => u \notin excused /\ ToSet(names'[u]) \subseteq seen
    <3>1. names[u] \in Seq(Names)
      BY DEF NamesOK
    <3>2. names'[u] = CleanedUp(names[u], seen)
      BY <2>2
    <3>3. /\ CleanedUp(names[u], seen) \in Seq(Names)
          /\ ToSet(CleanedUp(names[u], seen)) \subseteq ToSet(names[u])
      BY <3>1, CleanedUpKeeps
    <3>. QED  BY <2>2, <3>2, <3>3
  <2>5. names' \in [Users -> Seq(Names)]
    BY <2>2, <2>4
  <2>6. request'[c] = NULL /\ \A d \in Clients : d # c => request'[d] = request[d]
    BY <2>2, <1>1, OneRequest
  <2>7. ASSUME NEW u \in Users \ excused', NEW x \in ToSet(names'[u])
        PROVE  x \in Existing' \/ Cleaning(x)'
    <3>1. x \in ToSet(names[u]) /\ u \notin excused /\ x \in seen
      BY <2>4, <2>7
    <3>2. x \in Existing \/ Cleaning(x)
      BY <3>1 DEF NamesOK
    <3>3. CASE x \in Existing
      BY <3>3, <2>2 DEF Existing
    <3>4. CASE Cleaning(x)
      <4>1. PICK d \in Clients : Cleans(d, x)
        BY <3>4 DEF Cleaning
      <4>2. d # c
        BY <4>1, <3>1, <2>1, <2>2 DEF Cleans, CleansUp, At
      <4>3. Cleans(d, x)'
        BY <4>1, <4>2, <2>6 DEF Cleans
      <4>. QED  BY <4>3 DEF Cleaning
    <3>. QED  BY <3>2, <3>3, <3>4
  <2>. QED  BY <2>3, <2>5, <2>7 DEF NamesOK
<1>5. CASE Assign(c)
  <2>1. PICK w : w = request[c].user
    OBVIOUS
  <2>2. PICK list : list = request[c].list
    OBVIOUS
  <2>3. /\ At(c, "assign") /\ Proceeds(c, NULL) /\ UNCHANGED <<row, phase>>
        /\ names' = [names EXCEPT ![w] = list]
        /\ excused' = IF ToSet(list) \subseteq Existing THEN excused \ {w}
                                                        ELSE excused \cup {w}
    BY <1>5, <2>1, <2>2 DEF Assign, nodes
  <2>4. w \in Users /\ list \in Seq(Names)
    <3>1. request[c] \in Requests /\ request[c].step = "assign"
      BY <2>3 DEF RequestsOK, RequestOK, At
    <3>. QED  BY <2>1, <2>2, <3>1 DEF Requests
  <2>5. RequestsOK'
    BY <2>3, <1>1, RequestsKept
  <2>6. names' \in [Users -> Seq(Names)]
    BY <2>3, <2>4 DEF NamesOK
  <2>7. names'[w] = list /\ \A u \in Users : u # w => names'[u] = names[u]
    BY <2>3, <2>4 DEF NamesOK
  <2>8. request'[c] = NULL /\ \A d \in Clients : d # c => request'[d] = request[d]
    BY <2>3, <1>1, OneRequest
  <2>9. ASSUME NEW u \in Users \ excused', NEW x \in ToSet(names'[u])
        PROVE  x \in Existing' \/ Cleaning(x)'
    <3>1. Existing' = Existing
      BY <2>3 DEF Existing
    <3>2. CASE u = w
      <4>1. ToSet(list) \subseteq Existing
        BY <2>3, <2>9, <3>2
      <4>. QED  BY <4>1, <3>1, <3>2, <2>7, <2>9
    <3>3. CASE u # w
      <4>1. x \in Existing \/ Cleaning(x)
        BY <2>3, <2>7, <2>9, <3>3 DEF NamesOK
      <4>2. ASSUME Cleaning(x) PROVE Cleaning(x)'
        <5>1. PICK d \in Clients : Cleans(d, x)
          BY <4>2 DEF Cleaning
        <5>2. d # c
          BY <5>1, <2>3 DEF Cleans, CleansUp, At
        <5>3. Cleans(d, x)'
          BY <5>1, <5>2, <2>8 DEF Cleans
        <5>. QED  BY <5>3 DEF Cleaning
      <4>. QED  BY <4>1, <4>2, <3>1
    <3>. QED  BY <3>2, <3>3
  <2>. QED  BY <2>5, <2>6, <2>9 DEF NamesOK
<1>. QED  BY <1>2, <1>3, <1>4, <1>5 DEF Proceed

\* Requests that break off before a clean-up excuse every user.
LEMMA BreaksLists ==
  ASSUME Inv, RequestsOK, NamesOK, NEW clients \in SUBSET Clients, Breaks(clients),
         UNCHANGED <<row, names>>,
         \A c \in clients : request[c] # NULL,
         \A c \in Clients \ clients :
           request[c] # NULL /\ Serving(Home[c]) => Serving(Home[c])'
  PROVE  RequestsOK' /\ NamesOK'
<1>1. /\ request' = [c \in Clients |-> IF c \in clients THEN NULL ELSE request[c]]
      /\ excused' = IF \E c \in clients : \/ CleansUp(request[c])
                                          \/ request[c].step \in {"clean", "cleaning"}
                    THEN Users ELSE excused
  BY DEF Breaks
<1>2. ASSUME NEW c \in Clients PROVE RequestOK(c)'
  <2>1. CASE c \in clients
    BY <2>1, <1>1 DEF RequestOK
  <2>2. CASE c \notin clients
    BY <2>2, <1>1 DEF RequestOK, RequestsOK
  <2>. QED  BY <2>1, <2>2
<1>3. Existing' = Existing
  BY DEF Existing
<1>4. ASSUME NEW x \in Names, Cleaning(x), excused' # Users
      PROVE  Cleaning(x)'
  <2>1. PICK d \in Clients : Cleans(d, x)
    BY <1>4 DEF Cleaning
  <2>2. d \notin clients
    BY <2>1, <1>1, <1>4 DEF Cleans
  <2>3. Cleans(d, x)'
    BY <2>1, <2>2, <1>1 DEF Cleans
  <2>. QED  BY <2>3 DEF Cleaning
<1>5. RequestsOK' /\ UNCHANGED names
  BY <1>2 DEF RequestsOK
<1>6. CASE excused' = Users
  <2>1. names' \in [Users -> Seq(Names)]
    BY <1>5 DEF NamesOK
  <2>2. Users \ excused' = {}
    BY <1>6
  <2>. QED  BY <2>1, <2>2, <1>5 DEF NamesOK
<1>7. CASE excused' # Users
  <2>1. excused \subseteq excused'
    BY <1>1, <1>7
  <2>2. \A x \in Names : x \in Existing \/ Cleaning(x)
                        => x \in Existing' \/ Cleaning(x)' \/ excused' = Users
    BY <1>3, <1>4, <1>7
  <2>. QED  BY <2>1, <2>2, <1>5, NamesKept
<1>. QED  BY <1>6, <1>7

\* A step of a node, beside its end, leaves the requests and the lists alone.
LEMMA NodeLists ==
  ASSUME RequestsOK, NamesOK, UNCHANGED <<row, names, request, excused>>,
         \A n \in Nodes : Serving(n) => Serving(n)'
  PROVE  RequestsOK' /\ NamesOK'
<1>1. Existing' = Existing /\ \A x \in Names : Cleaning(x)' = Cleaning(x)
  BY DEF Existing, Cleaning, Cleans
<1>2. NamesOK'
  BY <1>1, NamesKept
<1>3. \A c \in Clients : Home[c] \in Nodes
  BY GroupsAssumption DEF GroupsAssumption
<1>. QED  BY <1>2, <1>3 DEF RequestsOK, RequestOK

LEMMA ListsInductive ==
  ASSUME Inv, RequestsOK, NamesOK, [Next]_vars
  PROVE  RequestsOK' /\ NamesOK'
<1>1. phase \in [Nodes -> {"down", "loading", "up", "deaf"}]
  BY DEF Inv, CopyTypes
<1>2. CASE UNCHANGED vars
  BY <1>2, NodeLists DEF vars, database, nodes, Serving
<1>3. ASSUME NEW c \in Clients, Request(c) \/ Proceed(c)
      PROVE  RequestsOK' /\ NamesOK'
  BY <1>3, RequestLists, ProceedLists
<1>4. ASSUME NEW n \in Nodes, Receive(n) \/ Start(n)
      PROVE  RequestsOK' /\ NamesOK'
  <2>1. UNCHANGED <<row, names, request, excused>>
    BY <1>4 DEF Receive, Start, Boot, Load, Subscribe, Reconnect, database
  <2>2. \A m \in Nodes : Serving(m) => Serving(m)'
    BY <1>4, <1>1 DEF Receive, Start, Boot, Load, Subscribe, Reconnect, Serving
  <2>. QED  BY <2>1, <2>2, NodeLists
<1>5. ASSUME NEW n \in Nodes, NEW t \in handlers[n], Handle(n, t)
      PROVE  RequestsOK' /\ NamesOK'
  <2>1. UNCHANGED <<row, names, request, excused, phase>>
    BY <1>5 DEF Handle, Forget, Read, Store, Apply, database
  <2>. QED  BY <2>1, NodeLists DEF Serving
<1>6. ASSUME NEW c \in Clients, DispatchFails(c)
      PROVE  RequestsOK' /\ NamesOK'
  <2>1. /\ Breaks({c}) /\ UNCHANGED <<row, names, phase>> /\ request[c] # NULL
    BY <1>6 DEF DispatchFails, database, At
  <2>. QED  BY <2>1, BreaksLists DEF Serving
<1>7. ASSUME NEW n \in Nodes, Crash(n)
      PROVE  RequestsOK' /\ NamesOK'
  <2>1. PICK clients : clients = {c \in Clients : request[c] # NULL /\ Home[c] = n}
    OBVIOUS
  <2>2. /\ Breaks(clients) /\ UNCHANGED <<row, names>>
        /\ phase' = [phase EXCEPT ![n] = "down"]
    BY <1>7, <2>1 DEF Crash, database
  <2>3. ASSUME NEW c \in Clients \ clients, Serving(Home[c]), request[c] # NULL
        PROVE  Serving(Home[c])'
    BY <2>1, <2>2, <2>3, <1>1 DEF Serving
  <2>. QED  BY <2>1, <2>2, <2>3, BreaksLists
<1>8. ASSUME NEW n \in Nodes, Disconnect(n)
      PROVE  RequestsOK' /\ NamesOK'
  <2>1. UNCHANGED <<row, names, request, excused>>
    BY <1>8 DEF Disconnect, database
  <2>2. \A m \in Nodes : Serving(m) => Serving(m)'
    BY <1>8, <1>1 DEF Disconnect, Serving
  <2>. QED  BY <2>1, <2>2, NodeLists
<1>. QED  BY <1>2, <1>3, <1>4, <1>5, <1>6, <1>7, <1>8 DEF Next, Fault
-----------------------------------------------------------------------------
(* Nodes and what they have *)

\* A node that does not listen has no messages, one that has not loaded has no
\* tasks, and no copy of what it has not read.
NodeOK(n) ==
  /\ queue[n] # << >> => phase[n] = "up"
  /\ handlers[n] # {} => Serving(n)
  /\ \A g \in Groups :
       /\ copy[n][g] <= changes
       /\ phase[n] = "loading" /\ g[2] \in unread[n] => copy[n][g] = 0

NodesOK == \A n \in Nodes : NodeOK(n)

\* What a step leaves alone of a node.
SameNode(n) ==
  /\ queue'[n] = queue[n] /\ handlers'[n] = handlers[n] /\ copy'[n] = copy[n]
  /\ phase'[n] = phase[n] /\ unread'[n] = unread[n]

LEMMA SameNodeKeeps ==
  ASSUME Inv, Inv', NodesOK, NEW n \in Nodes, SameNode(n), changes <= changes'
  PROVE  NodeOK(n)'
<1>1. changes \in Int /\ changes' \in Int /\ \A g \in Groups : copy[n][g] \in Int
  BY DEF Inv, CopyTypes, Changes
<1>. QED  BY <1>1 DEF NodesOK, NodeOK, SameNode, Serving

LEMMA NodesInductive ==
  ASSUME Inv, Inv', NodesOK, [Next]_vars
  PROVE  NodesOK'
<1>1. CopyTypes /\ OrderOK /\ TasksOK /\ FlightOK
  BY DEF Inv
<1>2. changes \in Int /\ \A g \in Groups : Version(g) \in Nat /\ Version(g) <= changes
  BY <1>1 DEF CopyTypes, OrderOK, Version, Changes
<1>3. CASE UNCHANGED vars
  BY <1>3, <1>2, SameNodeKeeps DEF vars, database, nodes, SameNode, NodesOK
<1>4. ASSUME NEW c \in Clients, Request(c) \/ ReadNames(c) \/ CleanUp(c) \/ Assign(c)
                                \/ DispatchFails(c)
      PROVE  NodesOK'
  <2>1. changes' = changes \/ changes' = changes + 1
    BY <1>4 DEF Request, Save, Delete, Validate, ReadNames, CleanUp, Assign,
                DispatchFails, database
  <2>2. UNCHANGED <<phase, unread, copy, queue, handlers>>
    BY <1>4 DEF Request, Save, Delete, Validate, ReadNames, CleanUp, Assign,
                DispatchFails, nodes
  <2>. QED  BY <2>1, <2>2, <1>2, SameNodeKeeps DEF SameNode, NodesOK
<1>5. ASSUME NEW c \in Clients, Dispatch(c)
      PROVE  NodesOK'
  <2>1. /\ UNCHANGED <<phase, unread, copy, handlers, changes>>
        /\ \A n \in Nodes : phase[n] # "up" => queue'[n] = queue[n]
    BY <1>5 DEF Dispatch, database
  <2>. QED  BY <2>1 DEF NodesOK, NodeOK, Serving
<1>6. ASSUME NEW n \in Nodes, Receive(n)
      PROVE  NodesOK'
  <2>1. /\ UNCHANGED <<phase, unread, copy, changes>> /\ phase[n] = "up"
        /\ \A m \in Nodes : m # n => queue'[m] = queue[m] /\ handlers'[m] = handlers[m]
    BY <1>6, <1>1 DEF Receive, database, CopyTypes
  <2>. QED  BY <2>1 DEF NodesOK, NodeOK, Serving
<1>7. ASSUME NEW n \in Nodes, NEW t \in handlers[n], Handle(n, t)
      PROVE  NodesOK'
  <2>1. Serving(n)
    BY DEF NodesOK, NodeOK
  <2>2. t \in Tasks /\ TaskOK(t)
    BY <1>1 DEF CopyTypes, TasksOK
  <2>3. t.message.group \in Groups
    BY <2>2 DEF Tasks, Messages
  <2>4. UNCHANGED <<phase, unread, changes, queue>>
    BY <1>7 DEF Handle, Forget, Read, Store, Apply, database
  <2>5. \A m \in Nodes : m # n => handlers'[m] = handlers[m] /\ copy'[m] = copy[m]
    BY <1>7, <1>1 DEF Handle, Forget, Read, Store, Apply, CopyTypes
  <2>6. \A m \in Nodes : m # n => NodeOK(m)'
    BY <2>4, <2>5, <1>2, SameNodeKeeps DEF SameNode
  <2>7. ASSUME NEW v \in Nat, v <= changes, Apply(n, t, v)
        PROVE  \A g \in Groups : copy'[n][g] <= changes
    <3>1. \A g \in Groups : copy'[n][g] = v \/ copy'[n][g] = copy[n][g]
      BY <2>3, <2>7, <1>1 DEF Apply, CopyTypes
    <3>. QED  BY <3>1, <2>7 DEF NodesOK, NodeOK
  <2>8. \A g \in Groups : copy'[n][g] <= changes
    <3>1. CASE Forget(n, t)
      <4>1. 0 <= changes
        BY <1>1 DEF CopyTypes, Changes
      <4>. QED  BY <3>1, <4>1, <2>7 DEF Forget
    <3>2. CASE Store(n, t)
      <4>1. t.read \in Nat /\ t.read <= row[t.message.group].change
        BY <3>2, <2>2 DEF Store, Tasks, TaskOK
      <4>2. /\ row[t.message.group].change <= changes
            /\ row[t.message.group].change \in Int
        BY <2>3, <1>1 DEF OrderOK, CopyTypes, Changes
      <4>3. t.read <= changes
        BY <4>1, <4>2, <1>2
      <4>. QED  BY <3>2, <4>1, <4>3, <2>7 DEF Store
    <3>3. CASE Read(n, t)
      BY <3>3 DEF Read, NodesOK, NodeOK
    <3>. QED  BY <3>1, <3>2, <3>3, <1>7 DEF Handle
  <2>9. NodeOK(n)'
    BY <2>1, <2>4, <2>8 DEF NodesOK, NodeOK, Serving
  <2>. QED  BY <2>6, <2>9 DEF NodesOK
<1>8. ASSUME NEW n \in Nodes, Start(n)
      PROVE  NodesOK'
  <2>1. UNCHANGED <<changes, queue, handlers>>
    BY <1>8 DEF Start, Boot, Load, Subscribe, Reconnect, database
  <2>2. \A m \in Nodes : m # n => copy'[m] = copy[m] /\ phase'[m] = phase[m]
                                  /\ unread'[m] = unread[m]
    BY <1>8, <1>1 DEF Start, Boot, Load, Subscribe, Reconnect, CopyTypes
  <2>3. \A m \in Nodes : m # n => NodeOK(m)'
    BY <2>1, <2>2, <1>2, SameNodeKeeps DEF SameNode
  <2>4. CASE Boot(n)
    <3>1. /\ phase[n] = "down" /\ phase'[n] = "loading"
          /\ \A g \in Groups : copy'[n][g] = 0
      BY <2>4, <1>1 DEF Boot, CopyTypes
    <3>2. queue[n] = << >> /\ handlers[n] = {}
      BY <3>1 DEF NodesOK, NodeOK, Serving
    <3>3. 0 <= changes
      BY <1>1 DEF CopyTypes, Changes
    <3>. QED  BY <2>1, <3>1, <3>2, <3>3, <2>3 DEF NodesOK, NodeOK
  <2>5. ASSUME NEW s \in Scopes, Load(n, s)
        PROVE  NodesOK'
    <3>1. /\ phase[n] = "loading" /\ phase'[n] = "loading"
          /\ unread'[n] = unread[n] \ {s}
          /\ \A g \in Groups : copy'[n][g] = IF g[2] = s THEN Version(g)
                                                         ELSE copy[n][g]
      BY <2>5, <1>1 DEF Load, CopyTypes
    <3>. QED  BY <2>1, <3>1, <2>3, <1>2 DEF NodesOK, NodeOK, Serving
  <2>6. CASE Subscribe(n) \/ Reconnect(n)
    <3>1. phase'[n] = "up" /\ UNCHANGED <<unread, copy>>
      BY <2>6, <1>1 DEF Subscribe, Reconnect, CopyTypes
    <3>. QED  BY <2>1, <3>1, <2>3 DEF NodesOK, NodeOK, Serving
  <2>. QED  BY <2>4, <2>5, <2>6, <1>8 DEF Start
<1>9. ASSUME NEW n \in Nodes, Crash(n) \/ Disconnect(n)
      PROVE  NodesOK'
  <2>1. UNCHANGED <<changes, unread, copy>>
    BY <1>9 DEF Crash, Disconnect, database
  <2>2. /\ queue'[n] = << >>
        /\ \/ phase'[n] = "down" /\ handlers'[n] = {}
           \/ phase'[n] = "deaf"
        /\ \A m \in Nodes : m # n => queue'[m] = queue[m] /\ phase'[m] = phase[m]
                                     /\ handlers'[m] = handlers[m]
    BY <1>9, <1>1 DEF Crash, Disconnect, CopyTypes
  <2>. QED  BY <2>1, <2>2 DEF NodesOK, NodeOK, Serving
<1>. QED  BY <1>3, <1>4, <1>5, <1>6, <1>7, <1>8, <1>9 DEF Next, Proceed, Fault

LEMMA ListsInitially ==
  ASSUME Init
  PROVE  RequestsOK /\ NamesOK /\ NodesOK
<1>1. RequestsOK
  BY DEF Init, RequestsOK, RequestOK
<1>2. \A x \in Names : x \in Existing
  BY GroupsAssumption DEF Init, Existing, GroupsAssumption
<1>3. names \in [Users -> Seq(Names)]
  BY GroupsAssumption DEF Init, GroupsAssumption
<1>4. \A u \in Users : \A x \in ToSet(names[u]) : x \in Names
  BY <1>3 DEF ToSet
<1>5. NodesOK
  BY DEF Init, NodesOK, NodeOK, Serving, Version
<1>. QED  BY <1>1, <1>2, <1>3, <1>4, <1>5 DEF NamesOK
-----------------------------------------------------------------------------
\* A node that was told of every change, and whose tasks have undone none, has the
\* current row of every group of which nothing is on its way: in whatever order
\* requests of any number of clients dispatch, messages are handled, and nodes
\* die and start.
THEOREM CurrentWhenSettled == Spec => []CopyIsCurrent
<1>1. Inv => CopyIsCurrent
  <2>1. SUFFICES ASSUME Inv, NEW n \in Nodes, NEW g \in Groups, Settled(n, g),
                        \A k \in lost[n][g] : k < asof[n][g]
                 PROVE  copy[n][g] = Version(g)
    BY DEF CopyIsCurrent
  <2>2. /\ row[g].change \in Int /\ asof[n][g] \in Int
        /\ \A k \in lost[n][g] : k \in Int
    BY <2>1 DEF Inv, CopyTypes, Changes
  <2>3. Loaded(n, g)
    BY <2>1 DEF Settled, Serving, Loaded, Inv, OrderOK
  <2>4. CopyOK(n, g) /\ ~ OnItsWay(n, g)
    BY <2>1, <2>3 DEF Inv, CopiesOK, Settled, OnItsWay
  <2>5. /\ ~ Missed(n, g, asof[n][g])
        /\ asof[n][g] < row[g].change => ~ Missed(n, g, row[g].change)
    BY <2>1, <2>2 DEF Missed
  <2>. QED  BY <2>2, <2>4, <2>5 DEF CopyOK
<1>2. Init => Inv
  BY Initially
<1>3. Inv /\ [Next]_vars => Inv'
  BY Inductive
<1>. QED  BY <1>1, <1>2, <1>3, PTL DEF Spec

\* No user has a group that was deleted once no deletion is in progress, with the
\* exceptions that the code leaves open: in whatever order any number of clients
\* delete, clean up and assign, and wherever they break off.
THEOREM DeletedNamesGo == Spec => []NoDeletedNames
<1>. DEFINE All == Inv /\ RequestsOK /\ NamesOK
<1>1. All => NoDeletedNames
  <2>1. SUFFICES ASSUME NamesOK,
                        \A c \in Clients : request[c] # NULL =>
                          \/ request[c].step = "assign"
                          \/ request[c].step = "changed" /\ ~ CleansUp(request[c])
                 PROVE  \A u \in Users \ excused : ToSet(names[u]) \subseteq Existing
    BY DEF NoDeletedNames
  <2>2. \A x : ~ Cleaning(x)
    BY <2>1 DEF Cleaning, Cleans, CleansUp
  <2>. QED  BY <2>1, <2>2 DEF NamesOK
<1>2. Init => All
  BY Initially, ListsInitially
<1>3. All /\ [Next]_vars => All'
  BY Inductive, ListsInductive
<1>. QED  BY <1>1, <1>2, <1>3, PTL DEF Spec

\* Types, and that a node that has died or has not loaded has no requests, messages
\* or tasks, and no copy of what it has not read.
THEOREM TypesHold == Spec => []TypeOK
<1>. DEFINE All == Inv /\ RequestsOK /\ NamesOK /\ NodesOK
<1>1. All => TypeOK
  <2>1. SUFFICES ASSUME Inv, RequestsOK, NamesOK, NodesOK
                 PROVE  TypeOK
    OBVIOUS
  <2>2. CopyTypes /\ OrderOK
    BY <2>1 DEF Inv
  <2>3. ASSUME NEW c \in Clients, request[c] # NULL
        PROVE  /\ Serving(Home[c])
               /\ request[c] \in Requests
               /\ request[c].step = "cleaning" => request[c].seen # {}
    BY <2>1, <2>3 DEF RequestsOK, RequestOK
  <2>4. ASSUME NEW n \in Nodes
        PROVE  /\ unread[n] # {} => phase[n] \in {"down", "loading"}
               /\ queue[n] # << >> => phase[n] = "up"
               /\ handlers[n] # {} => Serving(n)
               /\ \A t \in handlers[n] : t.message \in Messages
    BY <2>1, <2>2 DEF OrderOK, NodesOK, NodeOK, CopyTypes, Tasks
  <2>5. ASSUME NEW n \in Nodes, NEW g \in Groups
        PROVE  /\ copy[n][g] \in 0..changes
               /\ asof[n][g] \in 1..changes
               /\ phase[n] = "loading" /\ g[2] \in unread[n] => copy[n][g] = 0
    BY <2>1, <2>2 DEF OrderOK, NodesOK, NodeOK, CopyTypes, Changes
  <2>6. names \in [Users -> Seq(Names)]
    BY <2>1 DEF NamesOK
  <2>. QED  BY <2>2, <2>3, <2>4, <2>5, <2>6 DEF TypeOK, CopyTypes, OrderOK
<1>2. Init => All
  BY Initially, ListsInitially
<1>3. All /\ [Next]_vars => All'
  BY Inductive, ListsInductive, NodesInductive
<1>. QED  BY <1>1, <1>2, <1>3, PTL DEF Spec
=============================================================================
