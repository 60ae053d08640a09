----------------------------- MODULE Hierarchy -----------------------------
(***************************************************************************)
(* The folders of a project: moved, created and deleted by requests that   *)
(* read, check and write in separate statements.                           *)
(* Translated from ayon_server/operations/project_level/entity_update.py   *)
(* (sanitize_folder_update), ayon_server/entities/folder.py and the        *)
(* project schema (folders, products, hierarchy).                          *)
(*                                                                         *)
(* A request is one operation in one transaction (the folder endpoints);   *)
(* Operations has the batches.  A statement sees what is committed when it *)
(* starts.  Only the path is kept of the materialized view hierarchy.      *)
(***************************************************************************)
EXTENDS Naturals, Sequences, FiniteSets

CONSTANTS
  Folders,         \* ids of folders
  Products,        \* ids of products
  Clients,         \* requests in progress
  NULL,            \* no parent, no folder
  InitialParent,   \* the first folders and their parents
  Resembles,       \* pairs of paths: the first one, as a LIKE pattern with _ in
                   \* a name, matches the second one
  MaxConcurrent,   \* bound: requests at a time
  MaxMovers,       \* bound: requests at a time that move a folder
  MayForce,        \* requests may have the force flag
  ForceAlone,      \* bound: a request with the force flag, and a change of the
                   \* products, has the project to itself and a current view
  MaySkip          \* the refresh after a commit may run into a deadlock

ASSUME HierarchyAssumption ==
  /\ NULL \notin Folders
  /\ DOMAIN InitialParent \subseteq Folders
  /\ IsFiniteSet(DOMAIN InitialParent)
  /\ \A f \in DOMAIN InitialParent :
       InitialParent[f] \in DOMAIN InitialParent \cup {NULL}
  /\ MaxConcurrent \in Nat
  /\ MaxMovers \in Nat
  /\ MayForce \in BOOLEAN
  /\ ForceAlone \in BOOLEAN
  /\ MaySkip \in BOOLEAN

VARIABLES
  parent,    \* the folders table: parent_id of each folder there is
  home,      \* the products table: folder_id of each product, NULL if none
  published, \* products that have versions
  view,      \* the hierarchy view: path of each folder when it was refreshed
  pc,        \* where each request is
  req,       \* its folder, the new parent, the force flag
  path,      \* the path of the folder as it was loaded
  erased,    \* products its open transaction has deleted
  used,      \* history: folder ids that have been given out
  skipped    \* history: a refresh was skipped, and there was none since

tables == <<parent, home, published, used>>
request == <<pc, req, path, erased>>
shown == <<view, skipped>>
vars == <<parent, home, published, view, pc, req, path, erased, used, skipped>>
-----------------------------------------------------------------------------
(***************************************************************************)
(* Trees: p maps the folders there are to their parents.                   *)
(***************************************************************************)
\* WITH RECURSIVE descendants: the least set with the children of the folder
\* and the children of its members.
Descendants(p, f) ==
  {g \in DOMAIN p :
    \A S \in SUBSET DOMAIN p :
      (\A h \in DOMAIN p : p[h] \in S \cup {f} => h \in S) => g \in S}

Subtree(p, f) == {f} \cup Descendants(p, f)

AcyclicTree(p) == \A f \in DOMAIN p : f \notin Descendants(p, f)

Ancestry(p, f) == {g \in DOMAIN p : f \in Subtree(p, g)}

\* The paths of the view.
Paths(p) ==
  [f \in DOMAIN p |->
    [i \in 1..Cardinality(Ancestry(p, f)) |->
      CHOOSE g \in Ancestry(p, f) : Cardinality(Ancestry(p, g)) = i]]

\* Mutant: the operands of LIKE are swapped.
LikeChild_Swapped(pattern, q) ==
  \E n \in 1..(Len(pattern) - 1) : SubSeq(pattern, 1, n) = q

\* path LIKE $1 || '/%'
LikeChild(pattern, q) ==
  \E n \in 1..(Len(q) - 1) :
    LET ancestor == SubSeq(q, 1, n)
    IN  ancestor = pattern \/ <<pattern, ancestor>> \in Resembles

\* The has_versions column of a folder.
HasVersions(f) == \E q \in published : home[q] \in Subtree(parent, f)

InProgress == {c \in Clients : pc[c] # "idle"}

Movers == {c \in Clients : pc[c] \in {"check", "move"}}

\* The bounds on what goes on at a time.
Room(alone) ==
  /\ Cardinality(InProgress) < MaxConcurrent
  /\ ForceAlone => /\ alone => InProgress = {} /\ ~ skipped
                   /\ \A c \in InProgress : ~ req[c].force

\* REFRESH MATERIALIZED VIEW hierarchy
ShowPaths(p) == view' = Paths(p) /\ skipped' = FALSE

Goto(c, label) == pc' = [pc EXCEPT ![c] = label]

NoRequest == [folder |-> NULL, parent |-> NULL, force |-> FALSE]

\* What a request keeps of what it has read.
Remember(c, f, p, force, loaded) ==
  /\ req' = [req EXCEPT ![c] = [folder |-> f, parent |-> p, force |-> force]]
  /\ path' = [path EXCEPT ![c] = loaded]

\* A request that starts.  Loading any folder walks the whole tree, which ends
\* only if there is no circle in it.
Begin(c, label, f, p, force) ==
  /\ pc[c] = "idle"
  /\ Room(force)
  /\ AcyclicTree(parent)
  /\ f \in DOMAIN parent \cap DOMAIN view
  /\ force => MayForce
  /\ Goto(c, label)
  /\ Remember(c, f, p, force, IF label = "erase" THEN view[f] ELSE << >>)

\* The transaction is over, the request goes on at the label.
Leave(c, label) ==
  /\ Goto(c, label)
  /\ Remember(c, NULL, NULL, FALSE, << >>)
  /\ erased' = [erased EXCEPT ![c] = {}]
-----------------------------------------------------------------------------
Init ==
  /\ parent = InitialParent
  /\ home = [q \in Products |-> NULL]
  /\ published = {}
  /\ view = Paths(InitialParent)
  /\ pc = [c \in Clients |-> "idle"]
  /\ req = [c \in Clients |-> NoRequest]
  /\ path = [c \in Clients |-> << >>]
  /\ erased = [c \in Clients |-> {}]
  /\ used = DOMAIN InitialParent
  /\ skipped = FALSE

\* Mutant: only the versions in the folder itself count.
LoadForMove_OwnVersions(c) ==
  \E f \in DOMAIN parent, p \in used \cup {NULL}, force \in BOOLEAN :
    /\ Cardinality(Movers) < MaxMovers
    /\ Begin(c, "check", f, p, force)
    /\ p \notin {f, parent[f]}
    /\ (\E q \in published : home[q] = f) => force
    /\ UNCHANGED <<tables, shown, erased>>

\* A folder is loaded to be moved: not with published versions, not into itself.
\* The new parent is a folder the client has seen, which may be gone by now.
LoadForMove(c) ==
  \E f \in DOMAIN parent, p \in used \cup {NULL}, force \in BOOLEAN :
    /\ Cardinality(Movers) < MaxMovers
    /\ Begin(c, "check", f, p, force)
    /\ p \notin {f, parent[f]}
    /\ HasVersions(f) => force
    /\ UNCHANGED <<tables, shown, erased>>

\* Mutant: the query of the descendants is not recursive.
CheckDescendants_Children(c) ==
  /\ pc[c] = "check"
  /\ IF req[c].parent \in {f \in DOMAIN parent : parent[f] = req[c].folder}
     THEN Leave(c, "idle")
     ELSE Goto(c, "move") /\ UNCHANGED <<req, path, erased>>
  /\ UNCHANGED <<tables, shown>>

\* "Folder cannot be moved to one of its descendants"
CheckDescendants(c) ==
  /\ pc[c] = "check"
  /\ IF req[c].parent \in Descendants(parent, req[c].folder)
     THEN Leave(c, "idle")
     ELSE Goto(c, "move") /\ UNCHANGED <<req, path, erased>>
  /\ UNCHANGED <<tables, shown>>

\* Mutant: the table has no foreign key.
MoveFolder_NoKey(c) ==
  /\ pc[c] = "move"
  /\ LET f == req[c].folder
         p == req[c].parent
     IN  /\ parent' = [g \in DOMAIN parent |-> IF g = f THEN p ELSE parent[g]]
         /\ Leave(c, "refresh")
  /\ UNCHANGED <<home, published, shown, used>>

\* Mutant: no refresh after a move.
MoveFolder_NoRefresh(c) ==
  /\ pc[c] = "move"
  /\ LET f == req[c].folder
         p == req[c].parent
     IN  IF f \in DOMAIN parent /\ p \notin DOMAIN parent \cup {NULL}
         THEN Leave(c, "idle") /\ UNCHANGED parent
         ELSE /\ parent' = [g \in DOMAIN parent |-> IF g = f THEN p ELSE parent[g]]
              /\ Leave(c, "idle")
  /\ UNCHANGED <<home, published, shown, used>>

\* UPDATE folders SET parent_id; the new parent must exist.  A folder that is
\* gone is no error.
MoveFolder(c) ==
  /\ pc[c] = "move"
  /\ LET f == req[c].folder
         p == req[c].parent
     IN  IF f \in DOMAIN parent /\ p \notin DOMAIN parent \cup {NULL}
         THEN Leave(c, "idle") /\ UNCHANGED parent
         ELSE /\ parent' = [g \in DOMAIN parent |-> IF g = f THEN p ELSE parent[g]]
              /\ Leave(c, "refresh")
  /\ UNCHANGED <<home, published, shown, used>>

\* A new folder; the view is refreshed in its transaction.
CreateFolder(c) ==
  \E f \in Folders \ used, p \in DOMAIN parent \cup {NULL} :
    LET tree == [g \in DOMAIN parent \cup {f} |-> IF g = f THEN p ELSE parent[g]]
    IN  /\ pc[c] = "idle"
        /\ Room(FALSE)
        /\ AcyclicTree(parent)
        /\ parent' = tree
        /\ ShowPaths(tree)
        /\ used' = used \cup {f}
        /\ Goto(c, "refresh")
        /\ UNCHANGED <<home, published, req, path, erased>>

LoadForDelete(c) ==
  \E f \in DOMAIN parent, force \in BOOLEAN :
    /\ Begin(c, IF force THEN "erase" ELSE "delete", f, NULL, force)
    /\ UNCHANGED <<tables, shown, erased>>

\* DELETE FROM products: those of the folders whose path in the view is the one
\* that was loaded, or below it.  It waits for rows another transaction deletes.
EraseProducts(c) ==
  /\ pc[c] = "erase"
  /\ LET inside == {f \in DOMAIN view :
                      view[f] = path[c] \/ LikeChild(path[c], view[f])}
         deleted == {q \in Products : home[q] \in inside}
     IN  /\ \A d \in Clients : deleted \cap erased[d] = {}
         /\ erased' = [erased EXCEPT ![c] = deleted]
  /\ Goto(c, "delete")
  /\ UNCHANGED <<tables, shown, req, path>>

\* DELETE FROM folders: the subfolders go with the folder, a product that is
\* left in one of them forbids it.  The view is refreshed in the transaction.
DeleteFolder(c) ==
  /\ pc[c] = "delete"
  /\ AcyclicTree(parent)
  /\ LET gone == Subtree(parent, req[c].folder)
         left == Products \ erased[c]
         tree == [g \in DOMAIN parent \ gone |-> parent[g]]
     IN  IF \E q \in left : home[q] \in gone
         THEN Leave(c, "idle") /\ UNCHANGED <<parent, home, published, shown>>
         ELSE /\ parent' = tree
              /\ home' = [q \in Products |-> IF q \in left THEN home[q] ELSE NULL]
              /\ published' = published \cap left
              /\ ShowPaths(tree)
              /\ Leave(c, "refresh")
  /\ UNCHANGED used

\* refresh_views, after the commit.
Refresh(c) ==
  /\ pc[c] = "refresh"
  /\ AcyclicTree(parent)
  /\ ShowPaths(parent)
  /\ Leave(c, "idle")
  /\ UNCHANGED tables

\* "View refresh deadlock. Skipping refresh."
SkipRefresh(c) ==
  /\ MaySkip
  /\ pc[c] = "refresh"
  /\ skipped' = TRUE
  /\ Leave(c, "idle")
  /\ UNCHANGED <<tables, view>>

\* A product is created.
AddProduct ==
  \E q \in Products, f \in DOMAIN parent :
    /\ Room(TRUE)
    /\ home[q] = NULL
    /\ home' = [home EXCEPT ![q] = f]
    /\ UNCHANGED <<parent, published, used, shown, request>>

\* The first version of a product is published.
Publish ==
  \E q \in Products \ published :
    /\ Room(TRUE)
    /\ home[q] # NULL
    /\ \A c \in Clients : q \notin erased[c]
    /\ published' = published \cup {q}
    /\ UNCHANGED <<parent, home, used, shown, request>>

Next ==
  \/ \E c \in Clients :
       \/ LoadForMove(c) \/ CheckDescendants(c) \/ MoveFolder(c)
       \/ CreateFolder(c)
       \/ LoadForDelete(c) \/ EraseProducts(c) \/ DeleteFolder(c)
       \/ Refresh(c) \/ SkipRefresh(c)
  \/ AddProduct \/ Publish

Spec == Init /\ [][Next]_vars
-----------------------------------------------------------------------------
\* Types of the variables; parents and homes are folders there are.
TypeOK ==
  /\ DOMAIN parent \subseteq used
  /\ \A f \in DOMAIN parent : parent[f] \in DOMAIN parent \cup {NULL}
  /\ home \in [Products -> DOMAIN parent \cup {NULL}]
  /\ published \subseteq {q \in Products : home[q] # NULL}
  /\ \A f \in DOMAIN view : view[f] \in Seq(Folders)
  /\ pc \in [Clients -> {"idle", "check", "move", "erase", "delete", "refresh"}]
  /\ req \in [Clients -> [folder : Folders \cup {NULL},
                          parent : Folders \cup {NULL}, force : BOOLEAN]]
  /\ \A c \in Clients : path[c] \in Seq(Folders)
  /\ \A c \in Clients : erased[c] # {} => pc[c] = "delete"
  /\ used \subseteq Folders
  /\ skipped \in BOOLEAN

\* No folder is below itself: "Make sure the hierarchy is acyclic"
\* (sanitize_folder_update).  The view is never refreshed otherwise.
Acyclic == AcyclicTree(parent)

\* Once a folder has published versions, it is moved only by force: "Once there
\* is a version published, the folder's name and hierarchy cannot be changed"
\* (update_folder).
PublishedStays ==
  [][\A f \in DOMAIN parent \cap DOMAIN parent' :
       HasVersions(f) /\ parent'[f] # parent[f] =>
         \E c \in Clients : pc[c] = "move" /\ req[c].folder = f /\ req[c].force
    ]_vars

\* The deletion of a folder takes the products of its subtree with it, and no
\* other: "all subfolders, as well as any products in those folders, will be
\* deleted" (delete_folder).
DeletedInside ==
  [][\A q \in Products :
       home[q] # NULL /\ home'[q] = NULL =>
         \E c \in Clients :
           /\ pc[c] = "delete"
           /\ home[q] \in Subtree(parent, req[c].folder)
    ]_vars

\* When no request is in progress the view shows the folders as they are: each
\* change is followed by a refresh that sees it, in whatever order they end,
\* except when a refresh is skipped and no request comes after it.
ViewIsCurrent == InProgress = {} /\ ~ skipped => view = Paths(parent)
=============================================================================
