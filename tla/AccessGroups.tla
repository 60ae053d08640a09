---------------------------- MODULE AccessGroups ----------------------------
(***************************************************************************)
(* Access groups: rows of Postgres that each node of the server keeps a    *)
(* copy of in memory, and names in the records of users.  A request that   *)
(* changes a group dispatches an event; the messaging loop of each node    *)
(* gets it from Redis and starts a task, the global hook, that brings the  *)
(* copy up to date.  Translated from api/access/access_groups.py,          *)
(* ayon_server/access/access_groups.py, ayon_server/api/messaging.py,      *)
(* EventStream.dispatch and the start of the server in api/lifespan.py.    *)
(*                                                                         *)
(* What a group permits is left out; the version of a row is the number of *)
(* the change that made it.  Bounds: requests, and faults (a node dies, a  *)
(* dispatch fails, a node loses Redis).                                    *)
(***************************************************************************)
EXTENDS Integers, SequencesExt

CONSTANTS
  Nodes, Clients, Users,
  Home,           \* the node that a client is connected to
  Names,          \* names of groups
  Projects,       \* projects, whose groups override those of the studio
  Studio,         \* the scope of the studio: "_"
  Groups,         \* groups that there are at first: a name and a scope
  InitialNames,   \* what users have at first: a list of names for each
  Lists,          \* lists of names that are assigned to users
  MaxRequests, MaxFaults,
  NULL

Scopes == Projects \cup {Studio}

\* The numbers of changes; what was there at first is of change 1.
Changes == 1..MaxRequests + 1

\* What events say of a group.
Messages == [topic : {"updated", "deleted"}, group : Groups, change : Changes]

\* What a request is at: a change to be told of, a clean-up, an assignment.
Requests ==
  [step : {"changed"}, message : Messages]
    \cup [step : {"clean"}]
    \cup [step : {"cleaning"}, seen : SUBSET Names]
    \cup [step : {"assign"}, user : Users, list : Seq(Names)]

ASSUME GroupsAssumption ==
  /\ Home \in [Clients -> Nodes]
  /\ Studio \notin Projects
  /\ Groups \subseteq Names \X Scopes
  /\ \A x \in Names : <<x, Studio>> \in Groups
  /\ Lists \subseteq Seq(Names)
  /\ InitialNames \in [Users -> Seq(Names)]
  /\ MaxRequests \in Nat /\ MaxFaults \in Nat
  /\ NULL \notin Nat \cup Requests

VARIABLES
  row,       \* of a group: whether it is there, and its last change
  changes,   \* the number of changes so far
  names,     \* the groups of a user: a list in the user's record
  assigns,   \* the number of assignments so far
  request,   \* what each client's request is at, or NULL
  phase,     \* of a node: down, loading, up, or deaf (it has lost Redis)
  unread,    \* of a node that is loading: the scopes to be read
  copy,      \* AccessGroups.access_groups: of each group the version, or 0
  queue,     \* messages that Redis has for the node
  handlers,  \* its tasks that handle events
  faults,
  \* History: the change that the copy is as of, the changes that are not sure to
  \* be in it, and the users whose list has not been cleaned up.
  asof, lost, excused

database == <<row, changes, names, assigns>>
nodes == <<phase, unread, copy, queue, handlers, asof, lost>>
vars == <<database, request, nodes, faults, excused>>
-----------------------------------------------------------------------------
Version(g) == IF row[g].there THEN row[g].change ELSE 0

\* public.access_groups
Existing == {x \in Names : row[<<x, Studio>>].there}

Serving(n) == phase[n] \in {"up", "deaf"}

Proceeds(c, r) == request' = [request EXCEPT ![c] = r]

At(c, step) == request[c] # NULL /\ request[c].step = step

\* The changes of groups that each node is not told of, beside those before.
Misses(untold) ==
  lost' = [n \in Nodes |-> [g \in Groups |-> lost[n][g] \cup untold[n][g]]]

\* Python's loop over a list that removes names from it: the name that follows
\* a removed one is not looked at.
CleanedUp(list, existing) ==
  LET loop[i \in 0..Len(list)] ==
        IF i = 0
        THEN [kept |-> << >>, skip |-> FALSE]
        ELSE IF loop[i - 1].skip \/ list[i] \in existing
             THEN [kept |-> Append(loop[i - 1].kept, list[i]), skip |-> FALSE]
             ELSE [kept |-> loop[i - 1].kept, skip |-> TRUE]
  IN  loop[Len(list)].kept

\* [g for g in groups if g in existing_access_groups]
Filtered(list, existing) ==
  LET loop[i \in 0..Len(list)] ==
        IF i = 0 THEN << >>
        ELSE IF list[i] \in existing THEN Append(loop[i - 1], list[i])
                                     ELSE loop[i - 1]
  IN  loop[Len(list)]

Init ==
  /\ row = [g \in Groups |-> [there |-> TRUE, change |-> 1]]
  /\ changes = 1
  /\ names = InitialNames
  /\ assigns = 0
  /\ request = [c \in Clients |-> NULL]
  /\ phase = [n \in Nodes |-> "up"]
  /\ unread = [n \in Nodes |-> {}]
  /\ copy = [n \in Nodes |-> [g \in Groups |-> Version(g)]]
  /\ queue = [n \in Nodes |-> << >>]
  /\ handlers = [n \in Nodes |-> {}]
  /\ asof = [n \in Nodes |-> [g \in Groups |-> 1]]
  /\ lost = [n \in Nodes |-> [g \in Groups |-> {}]]
  /\ faults = 0
  /\ excused = {}
-----------------------------------------------------------------------------
(* Requests *)

\* A request of c is taken by its node.
Begin(c, r) ==
  /\ request[c] = NULL
  /\ Serving(Home[c])
  /\ Proceeds(c, r)

\* The request has changed the group, and is to dispatch the event.
Change(topic, g) ==
  [step |-> "changed",
   message |-> [topic |-> topic, group |-> g, change |-> changes + 1]]

\* save_access_group: the row is inserted or updated.  A group of a project
\* refers to one of the studio.
Save(c, g) ==
  /\ changes + assigns <= MaxRequests
  /\ g[2] = Studio \/ g[1] \in Existing
  /\ Begin(c, Change("updated", g))
  /\ changes' = changes + 1
  /\ row' = [row EXCEPT ![g] = [there |-> TRUE, change |-> changes + 1]]
  /\ UNCHANGED <<names, assigns, nodes, faults, excused>>

\* The groups of projects that a group of the studio takes with it.
Cascade(g) ==
  {h \in Groups : g[2] = Studio /\ h[1] = g[1] /\ h # g /\ row[h].there}

\* delete_access_group: the row is deleted, with those that refer to it, of
\* which no event tells.
Delete(c, g) ==
  /\ changes + assigns <= MaxRequests
  /\ row[g].there
  /\ Begin(c, Change("deleted", g))
  /\ changes' = changes + 1
  /\ row' = [h \in Groups |-> IF h = g \/ h \in Cascade(g)
                              THEN [there |-> FALSE, change |-> changes + 1]
                              ELSE row[h]]
  /\ Misses([n \in Nodes |-> [h \in Groups |->
               IF h \in Cascade(g) THEN {changes + 1} ELSE {}]])
  /\ UNCHANGED <<names, assigns, phase, unread, copy, queue, handlers, asof,
                 faults, excused>>

\* Mutant: it is the groups of projects that are followed by a clean-up.
CleansUp_Project(r) ==
  /\ r.step = "changed"
  /\ r.message.topic = "deleted"
  /\ r.message.group[2] # Studio

\* After the response: clean_up_user_access_groups, of a group of the studio.
CleansUp(r) ==
  /\ r.step = "changed"
  /\ r.message.topic = "deleted"
  /\ r.message.group[2] = Studio

\* EventStream.dispatch: the event is stored, and published to those who listen.
Dispatch(c) ==
  /\ At(c, "changed")
  /\ LET r == request[c]
     IN  /\ Proceeds(c, IF CleansUp(r) THEN [step |-> "clean"] ELSE NULL)
         /\ queue' = [n \in Nodes |-> IF phase[n] = "up"
                                      THEN Append(queue[n], r.message)
                                      ELSE queue[n]]
         /\ Misses([n \in Nodes |-> [g \in Groups |->
                      IF phase[n] # "up" /\ g = r.message.group
                      THEN {r.message.change} ELSE {}]])
  /\ UNCHANGED <<database, phase, unread, copy, handlers, asof, faults, excused>>

\* Requests end without a dispatch or a clean-up.
Breaks(clients) ==
  /\ faults < MaxFaults
  /\ faults' = faults + 1
  /\ request' = [c \in Clients |-> IF c \in clients THEN NULL ELSE request[c]]
  /\ excused' = IF \E c \in clients : \/ CleansUp(request[c])
                                      \/ request[c].step \in {"clean", "cleaning"}
                THEN Users ELSE excused
  /\ Misses([n \in Nodes |-> [g \in Groups |->
       {request[c].message.change :
         c \in {d \in clients : /\ At(d, "changed")
                                /\ request[d].message.group = g}}]])

\* dispatch raises an exception: no event, and no background task.
DispatchFails(c) ==
  /\ At(c, "changed")
  /\ Breaks({c})
  /\ UNCHANGED <<database, phase, unread, copy, queue, handlers, asof>>

\* clean_up_user_access_groups: the names there are.  With none it returns.
ReadNames(c) ==
  /\ At(c, "clean")
  /\ IF Existing = {}
     THEN /\ Proceeds(c, NULL)
          /\ excused' = Users
     ELSE /\ Proceeds(c, [step |-> "cleaning", seen |-> Existing])
          /\ UNCHANGED excused
  /\ UNCHANGED <<database, nodes, faults>>

\* The users are read and locked, and updated in the same transaction.
CleanUp(c) ==
  /\ At(c, "cleaning")
  /\ Proceeds(c, NULL)
  /\ LET seen == request[c].seen
     IN  /\ names' = [u \in Users |-> CleanedUp(names[u], seen)]
         /\ excused' = excused \cup
              {u \in Users : ~ ToSet(CleanedUp(names[u], seen)) \subseteq seen}
  /\ UNCHANGED <<row, changes, assigns, nodes, faults>>

\* assign_access_groups: UserEntity.save validates the list ...
Validate(c, u, list) ==
  /\ changes + assigns <= MaxRequests
  /\ assigns' = assigns + 1
  /\ Begin(c, [step |-> "assign", user |-> u,
               list |-> Filtered(list, Existing)])
  /\ UNCHANGED <<row, changes, names, nodes, faults, excused>>

\* ... and then updates the record of the user.
Assign(c) ==
  /\ At(c, "assign")
  /\ Proceeds(c, NULL)
  /\ LET u == request[c].user
         list == request[c].list
     IN  /\ names' = [names EXCEPT ![u] = list]
         /\ excused' = IF ToSet(list) \subseteq Existing THEN excused \ {u}
                                                         ELSE excused \cup {u}
  /\ UNCHANGED <<row, changes, assigns, nodes, faults>>
-----------------------------------------------------------------------------
(* Nodes *)

\* Mutant: no task is created while another one handles an event of the group.
Receive_OnePerGroup(n) ==
  /\ phase[n] = "up"
  /\ queue[n] # << >>
  /\ handlers' = [handlers EXCEPT ![n] = @ \cup
                    (IF \E t \in @ : t.message.group = Head(queue[n]).group THEN {}
                     ELSE {[message |-> Head(queue[n]), read |-> NULL]})]
  /\ queue' = [queue EXCEPT ![n] = Tail(@)]
  /\ UNCHANGED <<database, request, phase, unread, copy, asof, lost, faults,
                 excused>>

\* Messaging.main gets a message, and handle_subscribers creates a task.
Receive(n) ==
  /\ phase[n] = "up"
  /\ queue[n] # << >>
  /\ handlers' = [handlers EXCEPT ![n] = @ \cup
                    {[message |-> Head(queue[n]), read |-> NULL]}]
  /\ queue' = [queue EXCEPT ![n] = Tail(@)]
  /\ UNCHANGED <<database, request, phase, unread, copy, asof, lost, faults,
                 excused>>

\* The task t ends and sets the copy of its group to version v.  It may undo a
\* later change that the copy was as of.
Apply(n, t, v) ==
  LET g == t.message.group
      change == t.message.change
  IN  /\ handlers' = [handlers EXCEPT ![n] = @ \ {t}]
      /\ copy' = [copy EXCEPT ![n][g] = v]
      /\ IF asof[n][g] <= change
         THEN asof' = [asof EXCEPT ![n][g] = change] /\ UNCHANGED lost
         ELSE lost' = [lost EXCEPT ![n][g] = @ \cup {asof[n][g]}] /\ UNCHANGED asof
      /\ UNCHANGED <<database, request, phase, unread, queue, faults, excused>>

\* Mutant: the row that the deletion left is not taken out of the copy.
Forget_Nothing(n, t) ==
  /\ t.message.topic = "deleted"
  /\ Apply(n, t, copy[n][t.message.group])

\* update_hook, after EventStream.get: of an event "access_group.deleted".
Forget(n, t) ==
  /\ t.message.topic = "deleted"
  /\ Apply(n, t, 0)

\* The row is read for "access_group.updated"; without one the task ends.
Read(n, t) ==
  /\ t.message.topic = "updated"
  /\ t.read = NULL
  /\ LET v == Version(t.message.group)
     IN  handlers' = [handlers EXCEPT ![n] = (@ \ {t}) \cup
           (IF v = 0 THEN {} ELSE {[t EXCEPT !.read = v]})]
  /\ UNCHANGED <<database, request, phase, unread, copy, queue, asof, lost,
                 faults, excused>>

Store(n, t) ==
  /\ t.read # NULL
  /\ Apply(n, t, t.read)

\* The node dies with its requests, its tasks and its copy.
Crash(n) ==
  /\ phase[n] # "down"
  /\ phase' = [phase EXCEPT ![n] = "down"]
  /\ queue' = [queue EXCEPT ![n] = << >>]
  /\ handlers' = [handlers EXCEPT ![n] = {}]
  /\ Breaks({c \in Clients : request[c] # NULL /\ Home[c] = n})
  /\ UNCHANGED <<database, unread, copy, asof>>

\* Mutant: the copy is not emptied first.
Boot_Keeps(n) ==
  /\ phase[n] = "down"
  /\ phase' = [phase EXCEPT ![n] = "loading"]
  /\ unread' = [unread EXCEPT ![n] = Scopes]
  /\ UNCHANGED <<database, request, copy, queue, handlers, asof, lost, faults,
                 excused>>

\* The lifespan of the server: AccessGroups.load starts from nothing ...
Boot(n) ==
  /\ phase[n] = "down"
  /\ phase' = [phase EXCEPT ![n] = "loading"]
  /\ unread' = [unread EXCEPT ![n] = Scopes]
  /\ copy' = [copy EXCEPT ![n] = [g \in Groups |-> 0]]
  /\ UNCHANGED <<database, request, queue, handlers, asof, lost, faults, excused>>

\* ... and reads the groups of the studio, and then those of each project.
Load(n, s) ==
  /\ phase[n] = "loading"
  /\ s \in unread[n]
  /\ Studio \in unread[n] => s = Studio
  /\ unread' = [unread EXCEPT ![n] = @ \ {s}]
  /\ copy' = [copy EXCEPT ![n] = [g \in Groups |->
                IF g[2] = s THEN Version(g) ELSE @[g]]]
  /\ asof' = [asof EXCEPT ![n] = [g \in Groups |->
                IF g[2] = s THEN changes ELSE @[g]]]
  /\ lost' = [lost EXCEPT ![n] = [g \in Groups |->
                IF g[2] = s THEN {} ELSE @[g]]]
  /\ UNCHANGED <<database, request, phase, queue, handlers, faults, excused>>

\* Then the messaging worker subscribes to the channel.
Subscribe(n) ==
  /\ phase[n] = "loading"
  /\ unread[n] = {}
  /\ phase' = [phase EXCEPT ![n] = "up"]
  /\ UNCHANGED <<database, request, unread, copy, queue, handlers, asof, lost,
                 faults, excused>>

\* get_message raises an exception: what Redis had for the node is gone.
Disconnect(n) ==
  /\ faults < MaxFaults
  /\ faults' = faults + 1
  /\ phase[n] = "up"
  /\ phase' = [phase EXCEPT ![n] = "deaf"]
  /\ queue' = [queue EXCEPT ![n] = << >>]
  /\ Misses([m \in Nodes |-> [g \in Groups |->
       {x.change : x \in {y \in ToSet(queue[n]) : m = n /\ y.group = g}}]])
  /\ UNCHANGED <<database, request, unread, copy, handlers, asof, excused>>

\* The loop goes on and subscribes again.
Reconnect(n) ==
  /\ phase[n] = "deaf"
  /\ phase' = [phase EXCEPT ![n] = "up"]
  /\ UNCHANGED <<database, request, unread, copy, queue, handlers, asof, lost,
                 faults, excused>>
-----------------------------------------------------------------------------
Request(c) ==
  \/ \E g \in Groups : Save(c, g) \/ Delete(c, g)
  \/ \E u \in Users, list \in Lists : Validate(c, u, list)

Proceed(c) == Dispatch(c) \/ ReadNames(c) \/ CleanUp(c) \/ Assign(c)

Handle(n, t) == Forget(n, t) \/ Read(n, t) \/ Store(n, t)

Start(n) ==
  Boot(n) \/ (\E s \in Scopes : Load(n, s)) \/ Subscribe(n) \/ Reconnect(n)

Fault == \/ \E c \in Clients : DispatchFails(c)
         \/ \E n \in Nodes : Crash(n) \/ Disconnect(n)

Next ==
  \/ \E c \in Clients : Request(c) \/ Proceed(c)
  \/ \E n \in Nodes :
       Receive(n) \/ (\E t \in handlers[n] : Handle(n, t)) \/ Start(n)
  \/ Fault

Spec == Init /\ [][Next]_vars

\* The event loops go on with requests, messages and tasks; a node that has died
\* is started again.  No request and no fault is bound to happen.
FairSpec ==
  /\ Spec
  /\ \A c \in Clients : WF_vars(Proceed(c))
  /\ \A n \in Nodes :
       /\ WF_vars(Receive(n))
       /\ WF_vars(\E t \in handlers[n] : Handle(n, t))
       /\ WF_vars(Start(n))
-----------------------------------------------------------------------------
\* Types; a node that has not loaded has no tasks, and no copy of what it has
\* not read.
TypeOK ==
  /\ row \in [Groups -> [there : BOOLEAN, change : Changes]]
  /\ changes \in Changes
  /\ \A g \in Groups : row[g].change <= changes
  /\ names \in [Users -> Seq(Names)]
  /\ \A c \in Clients : request[c] # NULL =>
       /\ Serving(Home[c])
       /\ request[c] \in Requests
       /\ request[c].step = "cleaning" => request[c].seen # {}
  /\ phase \in [Nodes -> {"down", "loading", "up", "deaf"}]
  /\ \A n \in Nodes :
       /\ unread[n] # {} => phase[n] \in {"down", "loading"}
       /\ queue[n] # << >> => phase[n] = "up"
       /\ handlers[n] # {} => Serving(n)
       /\ \A t \in handlers[n] : t.message \in Messages
       /\ \A g \in Groups :
            /\ copy[n][g] \in 0..changes
            /\ asof[n][g] \in 1..changes
            /\ phase[n] = "loading" /\ g[2] \in unread[n] => copy[n][g] = 0

\* The messages that are on their way to the node n.
InFlight(n) ==
  {request[c].message : c \in {d \in Clients : At(d, "changed")}}
    \cup ToSet(queue[n]) \cup {t.message : t \in handlers[n]}

\* None of them is about the group g.
Settled(n, g) == Serving(n) /\ \A m \in InFlight(n) : m.group # g

\* When all that is about a group has been handled a node has its current row,
\* unless it was never told of a change, or a task has undone a later one: in
\* whatever order the changes are dispatched and handled, also next to the start
\* of a node.
CopyIsCurrent ==
  \A n \in Nodes, g \in Groups :
    Settled(n, g) /\ (\A k \in lost[n][g] : k < asof[n][g])
    => copy[n][g] = Version(g)

\* When no deletion is in progress users have no group that is deleted, unless
\* the clean-up was lost, skipped a name or left because no group remains, or a
\* list was validated before the deletion and saved after it.
NoDeletedNames ==
  (\A c \in Clients : request[c] # NULL => request[c].step = "assign"
                      \/ (request[c].step = "changed" /\ ~ CleansUp(request[c])))
  => \A u \in Users \ excused : ToSet(names[u]) \subseteq Existing

\* In the end, as changes and faults are bounded, every node serves with a copy
\* that is current, with the same exceptions: every message is handled, every
\* node that has died or lost Redis comes back.
NodesCatchUp ==
  <>[](\A n \in Nodes :
         /\ Serving(n)
         /\ \A g \in Groups : \/ copy[n][g] = Version(g)
                              \/ \E k \in lost[n][g] : k >= asof[n][g])
=============================================================================
