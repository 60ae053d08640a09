-------------------------- MODULE HierarchyProofs --------------------------
(***************************************************************************)
(* Theorems about Hierarchy: the folders stay a tree as long as no two     *)
(* requests move folders at the same time, for any folders, products,      *)
(* clients and flags.                                                      *)
(***************************************************************************)
EXTENDS Hierarchy, FiniteSetTheorems, SequenceTheorems, TLAPS

-----------------------------------------------------------------------------
(* Trees *)

\* S holds the children of f and those of its members.
Closed(p, f, S) ==
  /\ S \in SUBSET DOMAIN p
  /\ \A h \in DOMAIN p : p[h] \in S \cup {f} => h \in S

\* The descendants are the least closed set.
LEMMA DescendantsLeast ==
  ASSUME NEW p, NEW f
  PROVE  /\ Closed(p, f, Descendants(p, f))
         /\ \A S : Closed(p, f, S) => Descendants(p, f) \subseteq S
<1>1. Descendants(p, f) \in SUBSET DOMAIN p
  BY DEF Descendants
<1>2. ASSUME NEW S, Closed(p, f, S)
      PROVE  Descendants(p, f) \subseteq S
  BY <1>2 DEF Descendants, Closed
<1>3. ASSUME NEW h \in DOMAIN p, p[h] \in Descendants(p, f) \cup {f}
      PROVE  h \in Descendants(p, f)
  <2>1. ASSUME NEW S, Closed(p, f, S)
        PROVE  h \in S
    BY <1>2, <1>3, <2>1 DEF Closed
  <2>. QED  BY <2>1, <1>3 DEF Descendants, Closed
<1>. QED  BY <1>1, <1>2, <1>3 DEF Closed

\* What is below a descendant is below the folder.
LEMMA DescendantsTransitive ==
  ASSUME NEW p, NEW f, NEW g \in Subtree(p, f)
  PROVE  Descendants(p, g) \subseteq Descendants(p, f)
<1>1. Closed(p, f, Descendants(p, f))
  BY DescendantsLeast
<1>2. Closed(p, g, Descendants(p, f))
  BY <1>1 DEF Closed, Subtree
<1>. QED  BY <1>2, DescendantsLeast

\* When folders are removed, nothing gets below another folder.
LEMMA FoldersRemoved ==
  ASSUME NEW p, NEW gone, NEW t, t = [g \in DOMAIN p \ gone |-> p[g]]
  PROVE  \A x : Descendants(t, x) \subseteq Descendants(p, x)
<1>. SUFFICES ASSUME NEW x
              PROVE  Descendants(t, x) \subseteq Descendants(p, x)
  OBVIOUS
<1>1. Closed(p, x, Descendants(p, x))
  BY DescendantsLeast
<1>2. Closed(t, x, Descendants(p, x) \cap DOMAIN t)
  BY <1>1 DEF Closed
<1>. QED  BY <1>2, DescendantsLeast

\* A folder that is moved, and not to itself or to one of its descendants,
\* leaves a tree.
LEMMA FolderMoved ==
  ASSUME NEW p, AcyclicTree(p), NEW f \in DOMAIN p, NEW q,
         q \notin Subtree(p, f),
         NEW t, t = [g \in DOMAIN p |-> IF g = f THEN q ELSE p[g]]
  PROVE  AcyclicTree(t)
<1>. SUFFICES ASSUME NEW x \in DOMAIN p
              PROVE  x \notin Descendants(t, x)
  BY DEF AcyclicTree
<1>1. /\ Closed(p, x, Descendants(p, x))
      /\ Closed(p, f, Descendants(p, f))
      /\ x \notin Descendants(p, x)
  BY DescendantsLeast DEF AcyclicTree
<1>2. CASE x \in Subtree(p, f)
  <2>1. Descendants(p, x) \cup {x} \subseteq Subtree(p, f)
    BY <1>2, DescendantsTransitive DEF Subtree
  <2>2. Closed(t, x, Descendants(p, x))
    BY <1>1, <2>1 DEF Closed
  <2>. QED  BY <1>1, <2>2, DescendantsLeast
<1>3. CASE x \notin Subtree(p, f)
  <2>1. Closed(t, x, Descendants(p, x) \cup Subtree(p, f))
    BY <1>1 DEF Closed, Subtree
  <2>. QED  BY <1>1, <1>3, <2>1, DescendantsLeast
<1>. QED  BY <1>2, <1>3
\* A new folder is below what its parent is below, and nothing is below it.
LEMMA FolderAdded ==
  ASSUME NEW p, NEW f, f \notin DOMAIN p, \A g \in DOMAIN p : p[g] # f,
         NEW q, q # f,
         NEW t, t = [g \in DOMAIN p \cup {f} |-> IF g = f THEN q ELSE p[g]]
  PROVE  /\ \A x : x # f => Descendants(t, x) \subseteq Descendants(p, x) \cup {f}
         /\ Descendants(t, f) = {}
         /\ AcyclicTree(p) => AcyclicTree(t)
<1>1. DOMAIN t = DOMAIN p \cup {f} /\ t[f] # f
      /\ \A g \in DOMAIN p : p[g] # f /\ t[g] = p[g]
  OBVIOUS
<1>2. ASSUME NEW x, x # f
      PROVE  Closed(t, x, Descendants(p, x) \cup {f})
  <2>1. Closed(p, x, Descendants(p, x))
    BY DescendantsLeast
  <2>. QED  BY <1>1, <1>2, <2>1 DEF Closed
<1>3. Closed(t, f, {})
  BY <1>1 DEF Closed
<1>4. /\ \A x : x # f => Descendants(t, x) \subseteq Descendants(p, x) \cup {f}
      /\ Descendants(t, f) = {}
  BY <1>2, <1>3, DescendantsLeast
<1>. QED  BY <1>1, <1>4 DEF AcyclicTree

\* When a folder is moved, only what is below it gets below another folder.
LEMMA SubtreeMoved ==
  ASSUME NEW p, NEW f, NEW q,
         NEW t, t = [g \in DOMAIN p |-> IF g = f THEN q ELSE p[g]]
  PROVE  \A x : Subtree(t, x) \subseteq Subtree(p, x) \cup Subtree(p, f)
<1>. SUFFICES ASSUME NEW x
              PROVE  Descendants(t, x) \subseteq Descendants(p, x) \cup Subtree(p, f)
  BY DEF Subtree
<1>1. Closed(p, x, Descendants(p, x)) /\ Closed(p, f, Descendants(p, f))
  BY DescendantsLeast
<1>2. Closed(t, x, (Descendants(p, x) \cup Subtree(p, f)) \cap DOMAIN p)
  BY <1>1 DEF Closed, Subtree
<1>. QED  BY <1>2, DescendantsLeast
-----------------------------------------------------------------------------
(* Paths *)

\* A finite set of folders and their parents, which are folders or nothing.
FolderTree(p) ==
  /\ IsFiniteSet(DOMAIN p)
  /\ \A f \in DOMAIN p : p[f] \in DOMAIN p \cup {NULL}
  /\ NULL \notin DOMAIN p
  /\ AcyclicTree(p)

\* Above a descendant is the folder, or another descendant.
LEMMA ParentOfDescendant ==
  ASSUME NEW p, NEW f, NEW g \in Descendants(p, f)
  PROVE  p[g] \in Subtree(p, f)
<1>1. Closed(p, f, Descendants(p, f))
  BY DescendantsLeast
<1>2. Closed(p, f, {h \in Descendants(p, f) : p[h] \in Subtree(p, f)})
  BY <1>1 DEF Closed, Subtree
<1>. QED  BY <1>2, DescendantsLeast

\* Nothing is above a folder but itself, and what is above its parent.
LEMMA AncestryOfParent ==
  ASSUME NEW p, FolderTree(p), NEW f \in DOMAIN p
  PROVE  /\ f \in Ancestry(p, f)
         /\ p[f] = NULL => Ancestry(p, f) = {f}
         /\ p[f] # NULL => /\ p[f] \in DOMAIN p
                           /\ Ancestry(p, f) = Ancestry(p, p[f]) \cup {f}
                           /\ f \notin Ancestry(p, p[f])
<1>1. f \in Ancestry(p, f)
  BY DEF Ancestry, Subtree
<1>2. ASSUME NEW g \in Ancestry(p, f), g # f
      PROVE  p[f] \in DOMAIN p /\ g \in Ancestry(p, p[f])
  <2>1. f \in Descendants(p, g) /\ g \in DOMAIN p
    BY <1>2 DEF Ancestry, Subtree
  <2>2. p[f] \in Subtree(p, g)
    BY <2>1, ParentOfDescendant
  <2>3. p[f] \in DOMAIN p
    BY <2>1, <2>2 DEF Subtree, Descendants
  <2>. QED  BY <2>1, <2>2, <2>3 DEF Ancestry
<1>3. ASSUME p[f] # NULL, NEW g \in Ancestry(p, p[f])
      PROVE  g \in Ancestry(p, f)
  <2>1. p[f] \in Subtree(p, g) /\ g \in DOMAIN p
    BY <1>3 DEF Ancestry
  <2>2. f \in Descendants(p, g)
    BY <2>1, DescendantsLeast DEF Closed, Subtree
  <2>. QED  BY <2>1, <2>2 DEF Ancestry, Subtree
<1>4. ASSUME p[f] # NULL PROVE f \notin Ancestry(p, p[f])
  <2>1. SUFFICES ASSUME p[f] \in Subtree(p, f) PROVE FALSE
    BY DEF Ancestry
  <2>2. f \in Descendants(p, f)
    BY <2>1, DescendantsLeast DEF Closed, Subtree
  <2>. QED  BY <2>2 DEF FolderTree, AcyclicTree
<1>. QED  BY <1>1, <1>2, <1>3, <1>4 DEF FolderTree

\* The folders above a folder are finitely many.
LEMMA AncestryIsFinite ==
  ASSUME NEW p, FolderTree(p), NEW f
  PROVE  /\ IsFiniteSet(Ancestry(p, f))
         /\ Cardinality(Ancestry(p, f)) \in Nat
<1>1. Ancestry(p, f) \in SUBSET DOMAIN p
  BY DEF Ancestry
<1>2. IsFiniteSet(DOMAIN p)
  BY DEF FolderTree
<1>3. IsFiniteSet(Ancestry(p, f))
  BY <1>1, <1>2, FS_Subset
<1>. QED  BY <1>3, FS_CardinalityType

\* A folder is deeper than its parent by one; at the top the depth is one.
LEMMA DepthOfParent ==
  ASSUME NEW p, FolderTree(p), NEW f \in DOMAIN p
  PROVE  /\ p[f] = NULL => Cardinality(Ancestry(p, f)) = 1
         /\ p[f] # NULL => Cardinality(Ancestry(p, f)) =
                             Cardinality(Ancestry(p, p[f])) + 1
<1>1. CASE p[f] = NULL
  <2>1. Ancestry(p, f) = {f}
    BY <1>1, AncestryOfParent
  <2>2. Cardinality({f}) = 1
    BY FS_Singleton
  <2>. QED  BY <1>1, <2>1, <2>2
<1>2. CASE p[f] # NULL
  <2>1. IsFiniteSet(Ancestry(p, p[f]))
    BY AncestryIsFinite
  <2>. QED  BY <1>2, <2>1, AncestryOfParent, FS_AddElement
<1>. QED  BY <1>1, <1>2

\* What holds of a folder when it holds of its parent holds of all folders: else
\* there were one for which it fails with the fewest folders above it.
LEMMA ShortestAncestry ==
  ASSUME NEW p, FolderTree(p), NEW B, B \subseteq DOMAIN p, B # {}
  PROVE  \E f \in B : p[f] = NULL \/ p[f] \notin B
<1>. DEFINE above == {Ancestry(p, f) : f \in B}
<1>1. above \subseteq FiniteSubsetsOf(DOMAIN p) /\ above # {}
  <2>1. \A f \in B : IsFiniteSet(Ancestry(p, f)) /\ Ancestry(p, f) \subseteq DOMAIN p
    BY AncestryIsFinite DEF Ancestry
  <2>. QED  BY <2>1 DEF FiniteSubsetsOf
<1>2. PICK s \in above :
        \A r \in above : <<r, s>> \notin StrictSubsetOrdering(DOMAIN p)
  BY <1>1, FS_StrictSubsetOrderingWellFounded, WFMin
<1>3. PICK f \in B : s = Ancestry(p, f)
  OBVIOUS
<1>4. ASSUME p[f] # NULL, p[f] \in B PROVE FALSE
  <2>1. /\ Ancestry(p, p[f]) \subseteq Ancestry(p, f)
        /\ Ancestry(p, p[f]) # Ancestry(p, f)
        /\ Ancestry(p, f) \subseteq DOMAIN p
    BY <1>4, AncestryOfParent DEF Ancestry
  <2>2. <<Ancestry(p, p[f]), Ancestry(p, f)>> \in StrictSubsetOrdering(DOMAIN p)
    BY <2>1 DEF StrictSubsetOrdering
  <2>. QED  BY <1>2, <1>3, <1>4, <2>2
<1>. QED  BY <1>4

\* Whoever is above a folder, and not the folder, is less deep.
LEMMA AboveIsLessDeep ==
  ASSUME NEW p, FolderTree(p), NEW f \in DOMAIN p, NEW g \in Ancestry(p, f), g # f
  PROVE  Cardinality(Ancestry(p, g)) < Cardinality(Ancestry(p, f))
<1>1. g \in DOMAIN p /\ f \in Descendants(p, g)
  BY DEF Ancestry, Subtree
<1>2. Ancestry(p, g) \subseteq Ancestry(p, f)
  <2>1. ASSUME NEW h \in Ancestry(p, g) PROVE h \in Ancestry(p, f)
    <3>1. h \in DOMAIN p /\ g \in Subtree(p, h)
      BY DEF Ancestry
    <3>2. Descendants(p, g) \subseteq Descendants(p, h)
      BY <3>1, DescendantsTransitive
    <3>. QED  BY <1>1, <3>1, <3>2 DEF Ancestry, Subtree
  <2>. QED  BY <2>1
<1>3. f \notin Ancestry(p, g)
  <2>1. SUFFICES ASSUME g \in Subtree(p, f) PROVE FALSE
    BY DEF Ancestry
  <2>2. f \in Descendants(p, f)
    BY <1>1, <2>1, DescendantsTransitive
  <2>. QED  BY <2>2 DEF FolderTree, AcyclicTree
<1>4. f \in Ancestry(p, f)
  BY AncestryOfParent
<1>. QED  BY <1>2, <1>3, <1>4, AncestryIsFinite, FS_Subset, FS_CardinalityType

\* Above a folder there is one folder at each depth.
LEMMA OneAtEachDepth ==
  ASSUME NEW p, FolderTree(p), NEW f \in DOMAIN p,
         NEW i \in 1..Cardinality(Ancestry(p, f))
  PROVE  \E g \in Ancestry(p, f) : Cardinality(Ancestry(p, g)) = i
<1>. DEFINE Met(h) == \A j \in 1..Cardinality(Ancestry(p, h)) :
                        \E g \in Ancestry(p, h) : Cardinality(Ancestry(p, g)) = j
            B == {h \in DOMAIN p : ~ Met(h)}
<1>1. SUFFICES B = {}
  OBVIOUS
<1>2. ASSUME B # {} PROVE FALSE
  <2>1. PICK h \in B : p[h] = NULL \/ p[h] \notin B
    <3>1. B \subseteq DOMAIN p
      OBVIOUS
    <3>. HIDE DEF B
    <3>. QED  BY <1>2, <3>1, ShortestAncestry
  <2>2. h \in DOMAIN p /\ h \in Ancestry(p, h)
    BY AncestryOfParent
  <2>3. CASE p[h] = NULL
    <3>1. Cardinality(Ancestry(p, h)) = 1
      BY <2>2, <2>3, DepthOfParent
    <3>2. Met(h)
      BY <2>2, <3>1
    <3>. QED  BY <3>2
  <2>4. CASE p[h] # NULL
    <3>1. /\ Ancestry(p, h) = Ancestry(p, p[h]) \cup {h} /\ p[h] \in DOMAIN p
          /\ Cardinality(Ancestry(p, h)) = Cardinality(Ancestry(p, p[h])) + 1
          /\ Cardinality(Ancestry(p, p[h])) \in Nat
      BY <2>2, <2>4, AncestryOfParent, DepthOfParent, AncestryIsFinite
    <3>2. Met(p[h])
      BY <2>1, <2>4, <3>1
    <3>3. ASSUME NEW j \in 1..Cardinality(Ancestry(p, h))
          PROVE  \E g \in Ancestry(p, h) : Cardinality(Ancestry(p, g)) = j
      <4>1. CASE j = Cardinality(Ancestry(p, h))
        BY <2>2, <4>1
      <4>2. CASE j # Cardinality(Ancestry(p, h))
        <5>1. j \in 1..Cardinality(Ancestry(p, p[h]))
          BY <3>1, <4>2
        <5>. QED  BY <3>1, <3>2, <5>1
      <4>. QED  BY <4>1, <4>2
    <3>4. Met(h)
      BY <3>3
    <3>. QED  BY <3>4
  <2>. QED  BY <2>3, <2>4
<1>. QED  BY <1>2

\* The path of a folder is a sequence of the folders above it that ends with
\* itself.
LEMMA PathOfFolder ==
  ASSUME NEW p, FolderTree(p), NEW f \in DOMAIN p
  PROVE  /\ Paths(p)[f] \in Seq(Ancestry(p, f))
         /\ Len(Paths(p)[f]) = Cardinality(Ancestry(p, f))
         /\ Len(Paths(p)[f]) > 0
         /\ Paths(p)[f][Len(Paths(p)[f])] = f
<1>. DEFINE n == Cardinality(Ancestry(p, f))
            Above(i) == CHOOSE g \in Ancestry(p, f) : Cardinality(Ancestry(p, g)) = i
<1>1. n \in Nat
  BY AncestryIsFinite
<1>2. Paths(p)[f] = [i \in 1..n |-> Above(i)]
  BY DEF Paths
<1>3. \A i \in 1..n : Above(i) \in Ancestry(p, f) /\ Cardinality(Ancestry(p, Above(i))) = i
  BY OneAtEachDepth
<1>. HIDE DEF Above
<1>4. n > 0
  <2>1. f \in Ancestry(p, f) /\ IsFiniteSet(Ancestry(p, f))
    BY AncestryOfParent, AncestryIsFinite
  <2>. QED  BY <1>1, <2>1, FS_EmptySet
<1>5. Above(n) = f
  <2>1. n \in 1..n
    BY <1>1, <1>4
  <2>2. Above(n) \in Ancestry(p, f) /\ Cardinality(Ancestry(p, Above(n))) = n
    BY <1>3, <2>1
  <2>. QED  BY <1>1, <2>2, AboveIsLessDeep
<1>. HIDE DEF n
<1>6. Paths(p)[f] \in Seq(Ancestry(p, f)) /\ Len(Paths(p)[f]) = n
  BY <1>1, <1>2, <1>3
<1>. QED  BY <1>1, <1>2, <1>4, <1>5, <1>6 DEF n
-----------------------------------------------------------------------------
(* The inductive invariant *)

Labels == {"idle", "check", "move", "erase", "delete", "refresh"}

\* Folders have ids that were given out, and parents that are there.
TreeOK ==
  /\ DOMAIN parent \subseteq used
  /\ used \subseteq Folders
  /\ \A f \in DOMAIN parent : parent[f] \in DOMAIN parent \cup {NULL}
  /\ AcyclicTree(parent)

\* What a request that moves a folder has read and checked is still so.
MoveOK(c) ==
  /\ req[c].folder \in used
  /\ req[c].parent \in used \cup {NULL}
  /\ req[c].parent # req[c].folder
  /\ pc[c] = "move" => req[c].parent \notin Descendants(parent, req[c].folder)

RequestsOK ==
  /\ pc \in [Clients -> Labels]
  /\ req \in [Clients -> [folder : Folders \cup {NULL},
                          parent : Folders \cup {NULL}, force : BOOLEAN]]
  /\ \A c \in Movers : MoveOK(c)
  /\ \A c, d \in Movers : c = d

Inv == TreeOK /\ RequestsOK

\* The project begins with a tree, and one request at a time moves a folder.
OneMover ==
  /\ AcyclicTree(InitialParent)
  /\ IsFiniteSet(Clients)
  /\ MaxMovers = 1

LEMMA InitInv == OneMover /\ Init => Inv
<1>. SUFFICES ASSUME OneMover, Init PROVE Inv
  OBVIOUS
<1>. USE HierarchyAssumption DEF HierarchyAssumption, Init
<1>1. TreeOK
  BY DEF TreeOK, OneMover
<1>2. Movers = {}
  BY DEF Movers
<1>3. pc \in [Clients -> Labels]
      /\ req \in [Clients -> [folder : Folders \cup {NULL},
                              parent : Folders \cup {NULL}, force : BOOLEAN]]
  BY DEF Labels, NoRequest
<1>. QED  BY <1>1, <1>2, <1>3 DEF Inv, RequestsOK

\* Steps that keep the folders, and begin or check no move.
LEMMA TreeIsLeft ==
  ASSUME Inv, UNCHANGED <<parent, used>>, pc' \in [Clients -> Labels],
         req' \in [Clients -> [folder : Folders \cup {NULL},
                               parent : Folders \cup {NULL}, force : BOOLEAN]],
         \A c \in Clients : pc'[c] \in {"check", "move"} =>
                              pc'[c] = pc[c] /\ req'[c] = req[c]
  PROVE  Inv'
<1>1. Movers' \subseteq Movers
  BY DEF Movers
<1>2. ASSUME NEW c \in Movers' PROVE MoveOK(c)'
  <2>1. c \in Movers /\ pc'[c] = pc[c] /\ req'[c] = req[c]
    BY <1>1, <1>2 DEF Movers
  <2>. QED  BY <2>1 DEF Inv, RequestsOK, MoveOK
<1>3. TreeOK'
  BY DEF Inv, TreeOK
<1>. QED  BY <1>1, <1>2, <1>3 DEF Inv, RequestsOK

\* A request goes on at a label, without a folder.
LEMMA LeaveTypes ==
  ASSUME RequestsOK, NEW c \in Clients, NEW label \in Labels, Leave(c, label)
  PROVE  /\ pc' \in [Clients -> Labels] /\ pc'[c] = label
         /\ req' \in [Clients -> [folder : Folders \cup {NULL},
                                  parent : Folders \cup {NULL}, force : BOOLEAN]]
         /\ \A d \in Clients : d # c => pc'[d] = pc[d] /\ req'[d] = req[d]
BY DEF RequestsOK, Leave, Goto, Remember
-----------------------------------------------------------------------------
(* The actions *)

\* A request loads a folder.
LEMMA BeginTypes ==
  ASSUME Inv, NEW c \in Clients, NEW label \in Labels, NEW f, NEW p \in used \cup {NULL},
         NEW force \in BOOLEAN, Begin(c, label, f, p, force)
  PROVE  /\ f \in DOMAIN parent /\ pc[c] = "idle"
         /\ pc' \in [Clients -> Labels] /\ pc'[c] = label
         /\ req' \in [Clients -> [folder : Folders \cup {NULL},
                                  parent : Folders \cup {NULL}, force : BOOLEAN]]
         /\ req'[c].folder = f /\ req'[c].parent = p
         /\ \A d \in Clients : d # c => pc'[d] = pc[d] /\ req'[d] = req[d]
<1>1. f \in Folders \cup {NULL} /\ p \in Folders \cup {NULL} /\ f \in DOMAIN parent
  BY DEF Inv, TreeOK, Begin
<1>2. [folder |-> f, parent |-> p, force |-> force] \in
        [folder : Folders \cup {NULL}, parent : Folders \cup {NULL}, force : BOOLEAN]
  BY <1>1
<1>. QED  BY <1>1, <1>2 DEF Inv, RequestsOK, Begin, Goto, Remember

LEMMA LoadInv ==
  ASSUME OneMover, Inv, NEW c \in Clients, LoadForMove(c)
  PROVE  Inv'
<1>1. PICK f \in DOMAIN parent, p \in used \cup {NULL}, force \in BOOLEAN :
        /\ Cardinality(Movers) < MaxMovers
        /\ Begin(c, "check", f, p, force)
        /\ p \notin {f, parent[f]}
        /\ UNCHANGED <<parent, used>>
  BY DEF LoadForMove, tables
<1>2. Movers = {}
  <2>1. IsFiniteSet(Movers)
    BY FS_Subset DEF OneMover, Movers
  <2>2. Cardinality(Movers) \in Nat /\ Cardinality(Movers) < 1
    BY <1>1, <2>1, FS_CardinalityType DEF OneMover
  <2>. QED  BY <2>1, <2>2, FS_EmptySet
<1>3. /\ pc' \in [Clients -> Labels] /\ pc'[c] = "check"
      /\ req' \in [Clients -> [folder : Folders \cup {NULL},
                               parent : Folders \cup {NULL}, force : BOOLEAN]]
      /\ req'[c].folder = f /\ req'[c].parent = p
      /\ \A d \in Clients : d # c => pc'[d] = pc[d]
  BY <1>1, BeginTypes DEF Labels
<1>4. Movers' = {c}
  BY <1>2, <1>3 DEF Movers
<1>5. MoveOK(c)'
  BY <1>1, <1>3 DEF MoveOK, Inv, TreeOK
<1>6. TreeOK'
  BY <1>1 DEF Inv, TreeOK
<1>. QED  BY <1>3, <1>4, <1>5, <1>6 DEF Inv, RequestsOK

LEMMA CheckInv ==
  ASSUME Inv, NEW c \in Clients, CheckDescendants(c)
  PROVE  Inv'
<1>1. UNCHANGED <<parent, used>> /\ pc[c] = "check"
  BY DEF CheckDescendants, tables
<1>2. CASE Leave(c, "idle")
  BY <1>1, <1>2, LeaveTypes, TreeIsLeft DEF Inv, Labels
<1>3. CASE /\ req[c].parent \notin Descendants(parent, req[c].folder)
           /\ Goto(c, "move")
           /\ UNCHANGED req
  <2>1. /\ pc' \in [Clients -> Labels] /\ pc'[c] = "move"
        /\ \A d \in Clients : d # c => pc'[d] = pc[d]
    BY <1>3 DEF Goto, Inv, RequestsOK, Labels
  <2>2. c \in Movers /\ Movers' = Movers
    BY <1>1, <2>1 DEF Movers
  <2>3. Movers = {c}
    BY <2>2 DEF Inv, RequestsOK
  <2>4. MoveOK(c)'
    BY <1>1, <1>3, <2>2 DEF Inv, RequestsOK, MoveOK
  <2>5. TreeOK'
    BY <1>1 DEF Inv, TreeOK
  <2>. QED  BY <1>3, <2>1, <2>2, <2>3, <2>4, <2>5 DEF Inv, RequestsOK
<1>. QED  BY <1>2, <1>3 DEF CheckDescendants

LEMMA MoveInv ==
  ASSUME Inv, NEW c \in Clients, MoveFolder(c)
  PROVE  Inv'
<1>1. PICK f, p : f = req[c].folder /\ p = req[c].parent
  OBVIOUS
<1>2. /\ pc[c] = "move" /\ used' = used
      /\ \/ Leave(c, "idle") /\ UNCHANGED parent
         \/ /\ f \in DOMAIN parent => p \in DOMAIN parent \cup {NULL}
            /\ parent' = [g \in DOMAIN parent |-> IF g = f THEN p ELSE parent[g]]
            /\ Leave(c, "refresh")
  BY <1>1 DEF MoveFolder
<1>3. c \in Movers
  BY <1>2 DEF Movers
<1>4. /\ pc' \in [Clients -> Labels] /\ pc'[c] \in {"idle", "refresh"}
      /\ req' \in [Clients -> [folder : Folders \cup {NULL},
                               parent : Folders \cup {NULL}, force : BOOLEAN]]
      /\ \A d \in Clients : d # c => pc'[d] = pc[d]
  BY <1>2, LeaveTypes DEF Inv, Labels
<1>5. Movers' = {}
  BY <1>3, <1>4 DEF Inv, RequestsOK, Movers
<1>6. TreeOK'
  <2>1. CASE UNCHANGED parent
    BY <2>1, <1>2 DEF Inv, TreeOK
  <2>2. CASE /\ f \in DOMAIN parent
             /\ p \in DOMAIN parent \cup {NULL}
             /\ parent' = [g \in DOMAIN parent |-> IF g = f THEN p ELSE parent[g]]
    <3>1. p \notin Subtree(parent, f)
      BY <1>1, <1>2, <1>3 DEF Inv, RequestsOK, MoveOK, Subtree
    <3>2. AcyclicTree(parent')
      BY <2>2, <3>1, FolderMoved DEF Inv, TreeOK
    <3>. QED  BY <2>2, <3>2, <1>2 DEF Inv, TreeOK
  <2>3. CASE /\ f \notin DOMAIN parent
             /\ parent' = [g \in DOMAIN parent |-> IF g = f THEN p ELSE parent[g]]
    <3>1. DOMAIN parent' = DOMAIN parent /\ \A g \in DOMAIN parent : parent'[g] = parent[g]
      BY <2>3
    <3>2. \A x : Closed(parent', x, Descendants(parent, x))
      BY <3>1, DescendantsLeast DEF Closed
    <3>3. \A x : Descendants(parent', x) \subseteq Descendants(parent, x)
      BY <3>2, DescendantsLeast
    <3>4. AcyclicTree(parent')
      BY <3>1, <3>3 DEF Inv, TreeOK, AcyclicTree
    <3>. QED  BY <3>1, <3>4, <1>2 DEF Inv, TreeOK
  <2>. QED  BY <2>1, <2>2, <2>3, <1>2
<1>. QED  BY <1>4, <1>5, <1>6 DEF Inv, RequestsOK

LEMMA CreateInv ==
  ASSUME Inv, NEW c \in Clients, CreateFolder(c)
  PROVE  Inv'
<1>. USE HierarchyAssumption DEF HierarchyAssumption
<1>1. PICK f \in Folders \ used, p \in DOMAIN parent \cup {NULL} :
        /\ pc[c] = "idle"
        /\ parent' = [g \in DOMAIN parent \cup {f} |-> IF g = f THEN p ELSE parent[g]]
        /\ used' = used \cup {f}
        /\ Goto(c, "refresh")
        /\ UNCHANGED req
  BY DEF CreateFolder
<1>2. /\ f # NULL /\ f \notin DOMAIN parent /\ p # f
      /\ \A g \in DOMAIN parent : parent[g] # f
  BY DEF Inv, TreeOK
<1>3. /\ \A x : x # f => Descendants(parent', x) \subseteq Descendants(parent, x) \cup {f}
      /\ Descendants(parent', f) = {}
      /\ AcyclicTree(parent')
  <2>1. AcyclicTree(parent)
    BY DEF Inv, TreeOK
  <2>2. PICK t : t = parent'
    OBVIOUS
  <2>3. t = [g \in DOMAIN parent \cup {f} |-> IF g = f THEN p ELSE parent[g]]
    BY <1>1, <2>2
  <2>4. /\ \A x : x # f => Descendants(t, x) \subseteq Descendants(parent, x) \cup {f}
        /\ Descendants(t, f) = {} /\ AcyclicTree(t)
    BY <1>2, <2>1, <2>3, FolderAdded
  <2>. QED  BY <2>2, <2>4
<1>4. TreeOK'
  BY <1>1, <1>3 DEF Inv, TreeOK
<1>5. /\ pc' \in [Clients -> Labels] /\ pc'[c] = "refresh"
      /\ \A d \in Clients : d # c => pc'[d] = pc[d]
  BY <1>1 DEF Inv, RequestsOK, Goto, Labels
<1>6. Movers' = Movers
  BY <1>1, <1>5 DEF Movers
<1>7. ASSUME NEW d \in Movers PROVE MoveOK(d)'
  <2>1. MoveOK(d) /\ d \in Clients /\ d # c
    BY <1>1 DEF Inv, RequestsOK, Movers
  <2>2. req[d].folder # f /\ req[d].parent # f
    BY <2>1, <1>2 DEF MoveOK
  <2>. QED  BY <2>1, <2>2, <1>1, <1>3, <1>5 DEF MoveOK
<1>. QED  BY <1>1, <1>4, <1>5, <1>6, <1>7 DEF Inv, RequestsOK

LEMMA DeleteInv ==
  ASSUME Inv, NEW c \in Clients, DeleteFolder(c)
  PROVE  Inv'
<1>1. /\ pc[c] = "delete" /\ used' = used
      /\ \/ Leave(c, "idle") /\ UNCHANGED parent
         \/ /\ parent' = [g \in DOMAIN parent \ Subtree(parent, req[c].folder)
                            |-> parent[g]]
            /\ Leave(c, "refresh")
  BY DEF DeleteFolder
<1>2. /\ pc' \in [Clients -> Labels] /\ pc'[c] \in {"idle", "refresh"}
      /\ req' \in [Clients -> [folder : Folders \cup {NULL},
                               parent : Folders \cup {NULL}, force : BOOLEAN]]
      /\ \A d \in Clients : d # c => pc'[d] = pc[d] /\ req'[d] = req[d]
  BY <1>1, LeaveTypes DEF Inv, Labels
<1>3. CASE UNCHANGED parent
  BY <1>1, <1>2, <1>3, TreeIsLeft
<1>4. CASE parent' = [g \in DOMAIN parent \ Subtree(parent, req[c].folder)
                        |-> parent[g]]
  <2>1. PICK gone : gone = Subtree(parent, req[c].folder)
    OBVIOUS
  <2>2. \A x : Descendants(parent', x) \subseteq Descendants(parent, x)
    BY <1>4, FoldersRemoved
  <2>3. \A g \in DOMAIN parent : parent[g] \in gone => g \in gone
    BY <2>1, DescendantsLeast DEF Closed, Subtree
  <2>4. TreeOK'
    <3>1. AcyclicTree(parent')
      BY <1>4, <2>2 DEF Inv, TreeOK, AcyclicTree
    <3>2. DOMAIN parent' = DOMAIN parent \ gone
          /\ \A g \in DOMAIN parent' : parent'[g] = parent[g]
      BY <1>4, <2>1
    <3>. QED  BY <3>1, <3>2, <2>3, <1>1 DEF Inv, TreeOK
  <2>5. Movers' = Movers
    BY <1>1, <1>2 DEF Movers
  <2>6. ASSUME NEW d \in Movers PROVE MoveOK(d)'
    <3>1. MoveOK(d) /\ d \in Clients /\ d # c
      BY <1>1 DEF Inv, RequestsOK, Movers
    <3>. QED  BY <3>1, <2>2, <1>1, <1>2 DEF MoveOK
  <2>. QED  BY <2>4, <2>5, <2>6, <1>2 DEF Inv, RequestsOK
<1>. QED  BY <1>1, <1>3, <1>4

\* The steps that leave the folders alone.
LEMMA OthersInv ==
  ASSUME Inv, NEW c \in Clients,
         \/ LoadForDelete(c) \/ EraseProducts(c) \/ Refresh(c) \/ SkipRefresh(c)
         \/ AddProduct \/ Publish
  PROVE  Inv'
<1>1. CASE LoadForDelete(c)
  <2>1. PICK f \in DOMAIN parent, force \in BOOLEAN :
          Begin(c, IF force THEN "erase" ELSE "delete", f, NULL, force)
    BY <1>1 DEF LoadForDelete
  <2>2. PICK label \in {"erase", "delete"} : Begin(c, label, f, NULL, force)
    BY <2>1
  <2>3. UNCHANGED <<parent, used>>
    BY <1>1 DEF LoadForDelete, tables
  <2>4. label \in Labels /\ label \notin {"check", "move"}
    BY DEF Labels
  <2>5. /\ pc' \in [Clients -> Labels] /\ pc'[c] = label
        /\ req' \in [Clients -> [folder : Folders \cup {NULL},
                                 parent : Folders \cup {NULL}, force : BOOLEAN]]
        /\ \A d \in Clients : d # c => pc'[d] = pc[d] /\ req'[d] = req[d]
    <3>1. [folder |-> f, parent |-> NULL, force |-> force] \in
            [folder : Folders \cup {NULL}, parent : Folders \cup {NULL}, force : BOOLEAN]
      BY DEF Inv, TreeOK
    <3>. QED  BY <2>2, <2>4, <3>1 DEF Begin, Goto, Remember, Inv, RequestsOK
  <2>. QED  BY <2>3, <2>4, <2>5, TreeIsLeft
<1>2. CASE EraseProducts(c)
  <2>1. UNCHANGED <<parent, used, req>> /\ Goto(c, "delete")
    BY <1>2 DEF EraseProducts, tables
  <2>. QED  BY <2>1, TreeIsLeft DEF Inv, RequestsOK, Goto, Labels
<1>3. CASE Refresh(c) \/ SkipRefresh(c)
  <2>1. UNCHANGED <<parent, used>> /\ Leave(c, "idle")
    BY <1>3 DEF Refresh, SkipRefresh, tables
  <2>. QED  BY <2>1, LeaveTypes, TreeIsLeft DEF Inv, Labels
<1>4. CASE AddProduct \/ Publish
  <2>1. UNCHANGED <<parent, used, pc, req>>
    BY <1>4 DEF AddProduct, Publish, request
  <2>. QED  BY <2>1, TreeIsLeft DEF Inv, RequestsOK
<1>. QED  BY <1>1, <1>2, <1>3, <1>4

LEMMA NextInv == OneMover /\ Inv /\ [Next]_vars => Inv'
<1>. SUFFICES ASSUME OneMover, Inv, [Next]_vars PROVE Inv'
  OBVIOUS
<1>1. CASE UNCHANGED vars
  <2>1. UNCHANGED <<parent, used, pc, req>>
    BY <1>1 DEF vars
  <2>. QED  BY <2>1, TreeIsLeft DEF Inv, RequestsOK
<1>2. CASE AddProduct \/ Publish
  <2>1. UNCHANGED <<parent, used, pc, req>>
    BY <1>2 DEF AddProduct, Publish, request
  <2>. QED  BY <2>1, TreeIsLeft DEF Inv, RequestsOK
<1>3. ASSUME NEW c \in Clients,
             \/ LoadForMove(c) \/ CheckDescendants(c) \/ MoveFolder(c)
             \/ CreateFolder(c)
             \/ LoadForDelete(c) \/ EraseProducts(c) \/ DeleteFolder(c)
             \/ Refresh(c) \/ SkipRefresh(c)
      PROVE  Inv'
  BY <1>3, LoadInv, CheckInv, MoveInv, CreateInv, DeleteInv, OthersInv
<1>. QED  BY <1>1, <1>2, <1>3 DEF Next
-----------------------------------------------------------------------------
(* Types, and the view: however many requests there are *)

RequestRecord ==
  [folder : Folders \cup {NULL}, parent : Folders \cup {NULL}, force : BOOLEAN]

\* The tables and their foreign keys.
TablesOK ==
  /\ DOMAIN parent \subseteq used
  /\ used \subseteq Folders
  /\ IsFiniteSet(DOMAIN parent)
  /\ \A f \in DOMAIN parent : parent[f] \in DOMAIN parent \cup {NULL}
  /\ home \in [Products -> DOMAIN parent \cup {NULL}]
  /\ published \subseteq {q \in Products : home[q] # NULL}

\* What is kept of the requests.
KeptOK ==
  /\ pc \in [Clients -> Labels]
  /\ req \in [Clients -> RequestRecord]
  /\ path \in [Clients -> Seq(Folders)]
  /\ erased \in [Clients -> SUBSET Products]
  /\ \A c \in Clients :
       /\ erased[c] # {} => pc[c] = "delete"
       /\ req[c].force => pc[c] \notin {"idle", "refresh"}
       /\ pc[c] \in {"check", "move"} => req[c].folder \in used

ShownOK ==
  /\ \A f \in DOMAIN view : view[f] \in Seq(Folders)
  /\ skipped \in BOOLEAN

\* The view shows the folders, or it is behind them by a refresh that is to come
\* or was skipped.
ViewOK == view = Paths(parent) \/ skipped \/ \E d \in Clients : pc[d] = "refresh"

Shape == TablesOK /\ KeptOK /\ ShownOK /\ ViewOK

LEMMA ShapeTypes == Shape => TypeOK
BY DEF Shape, TablesOK, KeptOK, ShownOK, TypeOK, Labels, RequestRecord

\* A tree is shown.
LEMMA ShownTypes ==
  ASSUME NEW p, FolderTree(p), DOMAIN p \subseteq Folders
  PROVE  /\ DOMAIN Paths(p) = DOMAIN p
         /\ \A f \in DOMAIN p : Paths(p)[f] \in Seq(Folders)
<1>1. DOMAIN Paths(p) = DOMAIN p
  BY DEF Paths
<1>2. ASSUME NEW f \in DOMAIN p PROVE Paths(p)[f] \in Seq(Folders)
  <2>1. Paths(p)[f] \in Seq(Ancestry(p, f)) /\ Ancestry(p, f) \subseteq Folders
    BY PathOfFolder DEF Ancestry
  <2>. QED  BY <2>1, SeqMonotonic
<1>. QED  BY <1>1, <1>2

LEMMA ShowPathsShows ==
  ASSUME NEW p, FolderTree(p), DOMAIN p \subseteq Folders, parent' = p, ShowPaths(p)
  PROVE  ShownOK' /\ ViewOK'
BY ShownTypes DEF ShowPaths, ShownOK, ViewOK

\* The folders there are, when they are a tree.
LEMMA ParentIsTree ==
  TablesOK /\ AcyclicTree(parent) => FolderTree(parent) /\ DOMAIN parent \subseteq Folders
BY HierarchyAssumption DEF HierarchyAssumption, TablesOK, FolderTree

LEMMA InitShape == AcyclicTree(InitialParent) /\ Init => Shape
<1>. SUFFICES ASSUME AcyclicTree(InitialParent), Init PROVE Shape
  OBVIOUS
<1>. USE HierarchyAssumption DEF HierarchyAssumption, Init
<1>1. TablesOK
  BY DEF TablesOK
<1>2. KeptOK
  BY DEF KeptOK, Labels, NoRequest, RequestRecord
<1>3. ShownOK
  BY <1>1, ParentIsTree, ShownTypes DEF ShownOK
<1>. QED  BY <1>1, <1>2, <1>3 DEF Shape, ViewOK

\* A request goes on at a label, and forgets.
LEMMA LeaveKeeps ==
  ASSUME KeptOK, NEW c \in Clients, NEW label \in {"idle", "refresh"}, Leave(c, label),
         used \subseteq used'
  PROVE  /\ KeptOK'
         /\ pc'[c] = label /\ req'[c] = NoRequest /\ erased'[c] = {}
         /\ \A d \in Clients : d # c => /\ pc'[d] = pc[d] /\ req'[d] = req[d]
                                        /\ path'[d] = path[d] /\ erased'[d] = erased[d]
<1>1. pc' \in [Clients -> Labels]
  BY DEF KeptOK, Labels, Leave, Goto
<1>2. NoRequest \in RequestRecord /\ ~ NoRequest.force
  BY DEF NoRequest, RequestRecord
<1>3. req' = [req EXCEPT ![c] = NoRequest] /\ path' = [path EXCEPT ![c] = << >>]
  BY DEF Leave, Remember, NoRequest
<1>4. req' \in [Clients -> RequestRecord] /\ path' \in [Clients -> Seq(Folders)]
  BY <1>2, <1>3 DEF KeptOK
<1>5. erased' \in [Clients -> SUBSET Products]
  BY DEF KeptOK, Leave
<1>6. /\ pc'[c] = label /\ req'[c] = NoRequest /\ erased'[c] = {}
      /\ \A d \in Clients : d # c => /\ pc'[d] = pc[d] /\ req'[d] = req[d]
                                     /\ path'[d] = path[d] /\ erased'[d] = erased[d]
  BY <1>3 DEF KeptOK, Leave, Goto
<1>7. \A d \in Clients :
        /\ erased'[d] # {} => pc'[d] = "delete"
        /\ req'[d].force => pc'[d] \notin {"idle", "refresh"}
        /\ pc'[d] \in {"check", "move"} => req'[d].folder \in used'
  BY <1>2, <1>6 DEF KeptOK
<1>. QED  BY <1>1, <1>4, <1>5, <1>6, <1>7 DEF KeptOK

\* A request loads a folder.
LEMMA BeginKeeps ==
  ASSUME TablesOK, KeptOK, ShownOK, NEW c \in Clients, NEW label \in {"check", "erase", "delete"},
         NEW f, NEW p \in used \cup {NULL}, NEW force \in BOOLEAN,
         Begin(c, label, f, p, force), UNCHANGED <<used, erased>>
  PROVE  /\ KeptOK'
         /\ pc[c] = "idle" /\ pc'[c] = label /\ erased[c] = {}
         /\ req'[c] = [folder |-> f, parent |-> p, force |-> force]
         /\ path'[c] = IF label = "erase" THEN view[f] ELSE << >>
         /\ \A d \in Clients : d # c => /\ pc'[d] = pc[d] /\ req'[d] = req[d]
                                        /\ path'[d] = path[d]
<1>1. /\ pc[c] = "idle" /\ f \in DOMAIN parent \cap DOMAIN view
      /\ Goto(c, label)
      /\ Remember(c, f, p, force, IF label = "erase" THEN view[f] ELSE << >>)
  BY DEF Begin
<1>2. PICK r, l : /\ r = [folder |-> f, parent |-> p, force |-> force]
                  /\ l = IF label = "erase" THEN view[f] ELSE << >>
  OBVIOUS
<1>3. r \in RequestRecord /\ r.folder \in used /\ l \in Seq(Folders)
  BY <1>1, <1>2 DEF TablesOK, ShownOK, RequestRecord
<1>4. /\ pc' = [pc EXCEPT ![c] = label]
      /\ req' = [req EXCEPT ![c] = r] /\ path' = [path EXCEPT ![c] = l]
  BY <1>1, <1>2 DEF Goto, Remember
<1>5. /\ pc' \in [Clients -> Labels] /\ req' \in [Clients -> RequestRecord]
      /\ path' \in [Clients -> Seq(Folders)] /\ erased' \in [Clients -> SUBSET Products]
  BY <1>3, <1>4 DEF KeptOK, Labels
<1>6. /\ pc'[c] = label /\ req'[c] = r /\ path'[c] = l /\ erased[c] = {}
      /\ \A d \in Clients : d # c => /\ pc'[d] = pc[d] /\ req'[d] = req[d]
                                     /\ path'[d] = path[d]
  BY <1>1, <1>4 DEF KeptOK
<1>7. \A d \in Clients :
        /\ erased'[d] # {} => pc'[d] = "delete"
        /\ req'[d].force => pc'[d] \notin {"idle", "refresh"}
        /\ pc'[d] \in {"check", "move"} => req'[d].folder \in used'
  BY <1>3, <1>6 DEF KeptOK
<1>. QED  BY <1>1, <1>2, <1>5, <1>6, <1>7 DEF KeptOK

\* A step that leaves the tables and the view: no refresh is over.
LEMMA ViewIsLeft ==
  ASSUME TablesOK, ShownOK, ViewOK, UNCHANGED <<tables, shown>>,
         \A d \in Clients : pc[d] = "refresh" => pc'[d] = "refresh"
  PROVE  TablesOK' /\ ShownOK' /\ ViewOK'
BY DEF TablesOK, ShownOK, ViewOK, tables, shown

LEMMA LoadForMoveShape ==
  ASSUME Shape, NEW c \in Clients, LoadForMove(c)
  PROVE  Shape'
<1>1. PICK f \in DOMAIN parent, p \in used \cup {NULL}, force \in BOOLEAN :
        Begin(c, "check", f, p, force)
  BY DEF LoadForMove
<1>2. UNCHANGED <<tables, shown>> /\ UNCHANGED <<used, erased>>
  BY DEF LoadForMove, tables
<1>3. KeptOK' /\ \A d \in Clients : pc[d] = "refresh" => pc'[d] = "refresh"
  BY <1>1, <1>2, BeginKeeps DEF Shape
<1>. QED  BY <1>2, <1>3, ViewIsLeft DEF Shape

LEMMA LoadForDeleteShape ==
  ASSUME Shape, NEW c \in Clients, LoadForDelete(c)
  PROVE  Shape'
<1>1. PICK f \in DOMAIN parent, force \in BOOLEAN :
        Begin(c, IF force THEN "erase" ELSE "delete", f, NULL, force)
  BY DEF LoadForDelete
<1>2. UNCHANGED <<tables, shown>> /\ UNCHANGED <<used, erased>>
  BY DEF LoadForDelete, tables
<1>3. KeptOK' /\ \A d \in Clients : pc[d] = "refresh" => pc'[d] = "refresh"
  <2>1. PICK label \in {"erase", "delete"} : Begin(c, label, f, NULL, force)
    BY <1>1
  <2>. QED  BY <2>1, <1>2, BeginKeeps DEF Shape
<1>. QED  BY <1>2, <1>3, ViewIsLeft DEF Shape

\* A request that goes on with what it has read.
LEMMA GotoKeeps ==
  ASSUME KeptOK, NEW c \in Clients, NEW label \in Labels, Goto(c, label),
         UNCHANGED <<req, path, used>>, erased' \in [Clients -> SUBSET Products],
         \A d \in Clients : d # c => erased'[d] = erased[d],
         erased'[c] # {} => label = "delete",
         label = "refresh" => ~ req[c].force,
         label \in {"check", "move"} => pc[c] \in {"check", "move"},
         label # "idle"
  PROVE  /\ KeptOK' /\ pc'[c] = label
         /\ \A d \in Clients : d # c => pc'[d] = pc[d]
<1>1. pc' \in [Clients -> Labels] /\ pc'[c] = label
      /\ \A d \in Clients : d # c => pc'[d] = pc[d]
  BY DEF KeptOK, Goto
<1>2. ASSUME NEW d \in Clients
      PROVE  /\ erased'[d] # {} => pc'[d] = "delete"
             /\ req'[d].force => pc'[d] \notin {"idle", "refresh"}
             /\ pc'[d] \in {"check", "move"} => req'[d].folder \in used'
  <2>1. CASE d = c
    BY <1>1, <2>1 DEF KeptOK
  <2>2. CASE d # c
    BY <1>1, <2>2 DEF KeptOK
  <2>. QED  BY <2>1, <2>2
<1>. QED  BY <1>1, <1>2 DEF KeptOK

LEMMA CheckShape ==
  ASSUME Shape, NEW c \in Clients, CheckDescendants(c)
  PROVE  Shape'
<1>1. UNCHANGED <<tables, shown>> /\ UNCHANGED used /\ pc[c] = "check"
  BY DEF CheckDescendants, tables
<1>2. KeptOK' /\ \A d \in Clients : pc[d] = "refresh" => pc'[d] = "refresh"
  <2>1. CASE Leave(c, "idle")
    BY <1>1, <2>1, LeaveKeeps DEF Shape
  <2>2. CASE Goto(c, "move") /\ UNCHANGED <<req, path, erased>>
    <3>1. erased[c] = {}
      BY <1>1 DEF Shape, KeptOK
    <3>. QED  BY <1>1, <2>2, <3>1, GotoKeeps DEF Shape, KeptOK, Labels
  <2>. QED  BY <2>1, <2>2 DEF CheckDescendants
<1>. QED  BY <1>1, <1>2, ViewIsLeft DEF Shape

LEMMA MoveShape ==
  ASSUME Shape, NEW c \in Clients, MoveFolder(c)
  PROVE  Shape'
<1>1. PICK f, p : f = req[c].folder /\ p = req[c].parent
  OBVIOUS
<1>2. /\ pc[c] = "move" /\ UNCHANGED <<home, published, shown, used>>
      /\ \/ Leave(c, "idle") /\ UNCHANGED parent
         \/ /\ f \in DOMAIN parent => p \in DOMAIN parent \cup {NULL}
            /\ parent' = [g \in DOMAIN parent |-> IF g = f THEN p ELSE parent[g]]
            /\ Leave(c, "refresh")
  BY <1>1 DEF MoveFolder
<1>3. CASE Leave(c, "idle") /\ UNCHANGED parent
  <2>1. KeptOK' /\ \A d \in Clients : pc[d] = "refresh" => pc'[d] = "refresh"
    BY <1>2, <1>3, LeaveKeeps DEF Shape
  <2>. QED  BY <1>2, <1>3, <2>1, ViewIsLeft DEF Shape, tables
<1>4. CASE /\ f \in DOMAIN parent => p \in DOMAIN parent \cup {NULL}
           /\ parent' = [g \in DOMAIN parent |-> IF g = f THEN p ELSE parent[g]]
           /\ Leave(c, "refresh")
  <2>1. KeptOK' /\ pc'[c] = "refresh"
    BY <1>2, <1>4, LeaveKeeps DEF Shape
  <2>2. DOMAIN parent' = DOMAIN parent
        /\ \A g \in DOMAIN parent : parent'[g] \in DOMAIN parent \cup {NULL}
    BY <1>4 DEF Shape, TablesOK
  <2>3. TablesOK'
    BY <1>2, <2>2 DEF Shape, TablesOK
  <2>. QED  BY <1>2, <2>1, <2>3 DEF Shape, ShownOK, ViewOK, shown
<1>. QED  BY <1>2, <1>3, <1>4

LEMMA CreateShape ==
  ASSUME Shape, NEW c \in Clients, CreateFolder(c)
  PROVE  Shape'
<1>. USE HierarchyAssumption DEF HierarchyAssumption
<1>0. PICK f \in Folders \ used, p \in DOMAIN parent \cup {NULL} : \E tree :
        /\ tree = [g \in DOMAIN parent \cup {f} |-> IF g = f THEN p ELSE parent[g]]
        /\ pc[c] = "idle" /\ AcyclicTree(parent)
        /\ parent' = tree /\ ShowPaths(tree) /\ used' = used \cup {f}
        /\ Goto(c, "refresh")
        /\ UNCHANGED <<home, published, req, path, erased>>
  BY DEF CreateFolder
<1>1. PICK tree :
        /\ tree = [g \in DOMAIN parent \cup {f} |-> IF g = f THEN p ELSE parent[g]]
        /\ pc[c] = "idle" /\ AcyclicTree(parent)
        /\ parent' = tree /\ ShowPaths(tree) /\ used' = used \cup {f}
        /\ Goto(c, "refresh")
        /\ UNCHANGED <<home, published, req, path, erased>>
  BY <1>0
<1>2. /\ f # NULL /\ f \notin DOMAIN parent /\ p # f
      /\ \A g \in DOMAIN parent : parent[g] # f
  BY DEF Shape, TablesOK
<1>3. AcyclicTree(tree)
  BY <1>1, <1>2, FolderAdded
<1>4. TablesOK'
  <2>1. DOMAIN parent' = DOMAIN parent \cup {f}
        /\ \A g \in DOMAIN parent' : parent'[g] \in DOMAIN parent' \cup {NULL}
    BY <1>1 DEF Shape, TablesOK
  <2>2. IsFiniteSet(DOMAIN parent')
    BY <2>1, FS_AddElement DEF Shape, TablesOK
  <2>. QED  BY <1>1, <2>1, <2>2 DEF Shape, TablesOK
<1>5. ShownOK' /\ ViewOK'
  <2>1. FolderTree(tree) /\ DOMAIN tree \subseteq Folders
    BY <1>1, <1>3, <1>4 DEF TablesOK, FolderTree
  <2>. QED  BY <1>1, <2>1, ShowPathsShows
<1>6. KeptOK'
  <2>1. pc' \in [Clients -> Labels] /\ pc'[c] = "refresh"
        /\ \A d \in Clients : d # c => pc'[d] = pc[d]
    BY <1>1 DEF Shape, KeptOK, Goto, Labels
  <2>. QED  BY <1>1, <2>1 DEF Shape, KeptOK
<1>. QED  BY <1>4, <1>5, <1>6 DEF Shape

LEMMA EraseShape ==
  ASSUME Shape, NEW c \in Clients, EraseProducts(c)
  PROVE  Shape'
<1>1. PICK deleted \in SUBSET Products : erased' = [erased EXCEPT ![c] = deleted]
  BY DEF EraseProducts
<1>2. /\ pc[c] = "erase" /\ Goto(c, "delete")
      /\ UNCHANGED <<tables, shown>> /\ UNCHANGED <<req, path, used>>
  BY DEF EraseProducts, tables
<1>3. /\ erased' \in [Clients -> SUBSET Products]
      /\ \A d \in Clients : d # c => erased'[d] = erased[d]
  BY <1>1 DEF Shape, KeptOK
<1>4. KeptOK' /\ pc'[c] = "delete" /\ \A d \in Clients : d # c => pc'[d] = pc[d]
  BY <1>2, <1>3, GotoKeeps DEF Shape, Labels
<1>. QED  BY <1>2, <1>4, ViewIsLeft DEF Shape

LEMMA DeleteShape ==
  ASSUME Shape, NEW c \in Clients, DeleteFolder(c)
  PROVE  Shape'
<1>1. PICK gone, left, tree :
        /\ gone = Subtree(parent, req[c].folder)
        /\ left = Products \ erased[c]
        /\ tree = [g \in DOMAIN parent \ gone |-> parent[g]]
  OBVIOUS
<1>2. /\ pc[c] = "delete" /\ AcyclicTree(parent) /\ used' = used
      /\ \/ Leave(c, "idle") /\ UNCHANGED <<parent, home, published, shown>>
         \/ /\ ~ \E q \in left : home[q] \in gone
            /\ parent' = tree
            /\ home' = [q \in Products |-> IF q \in left THEN home[q] ELSE NULL]
            /\ published' = published \cap left
            /\ ShowPaths(tree)
            /\ Leave(c, "refresh")
  BY <1>1 DEF DeleteFolder
<1>3. CASE Leave(c, "idle") /\ UNCHANGED <<parent, home, published, shown>>
  <2>1. KeptOK' /\ \A d \in Clients : pc[d] = "refresh" => pc'[d] = "refresh"
    BY <1>2, <1>3, LeaveKeeps DEF Shape
  <2>. QED  BY <1>2, <1>3, <2>1, ViewIsLeft DEF Shape, tables
<1>4. CASE /\ ~ \E q \in left : home[q] \in gone
           /\ parent' = tree
           /\ home' = [q \in Products |-> IF q \in left THEN home[q] ELSE NULL]
           /\ published' = published \cap left
           /\ ShowPaths(tree)
           /\ Leave(c, "refresh")
  <2>1. KeptOK'
    BY <1>2, <1>4, LeaveKeeps DEF Shape
  <2>2. DOMAIN tree = DOMAIN parent \ gone /\ \A g \in DOMAIN tree : tree[g] = parent[g]
    BY <1>1
  <2>3. \A g \in DOMAIN parent : parent[g] \in gone => g \in gone
    BY <1>1, DescendantsLeast DEF Closed, Subtree
  <2>4. TablesOK'
    <3>1. IsFiniteSet(DOMAIN tree)
      BY <2>2, FS_Subset DEF Shape, TablesOK
    <3>2. \A g \in DOMAIN tree : tree[g] \in DOMAIN tree \cup {NULL}
      BY <2>2, <2>3 DEF Shape, TablesOK
    <3>3. home' \in [Products -> DOMAIN tree \cup {NULL}]
      BY <1>1, <1>4, <2>2 DEF Shape, TablesOK
    <3>4. published' \subseteq {q \in Products : home'[q] # NULL}
      BY <1>4 DEF Shape, TablesOK
    <3>. QED  BY <1>2, <1>4, <2>2, <3>1, <3>2, <3>3, <3>4 DEF Shape, TablesOK
  <2>5. ShownOK' /\ ViewOK'
    <3>1. AcyclicTree(tree)
      BY <1>1, <1>2, <2>2, FoldersRemoved DEF AcyclicTree
    <3>2. FolderTree(tree) /\ DOMAIN tree \subseteq Folders
      BY <1>4, <2>4, <3>1, HierarchyAssumption DEF TablesOK, FolderTree, HierarchyAssumption
    <3>. QED  BY <1>4, <3>2, ShowPathsShows
  <2>. QED  BY <2>1, <2>4, <2>5 DEF Shape
<1>. QED  BY <1>2, <1>3, <1>4

LEMMA RefreshShape ==
  ASSUME Shape, NEW c \in Clients, Refresh(c) \/ SkipRefresh(c)
  PROVE  Shape'
<1>1. Leave(c, "idle") /\ UNCHANGED tables
  BY DEF Refresh, SkipRefresh
<1>2. KeptOK' /\ TablesOK'
  BY <1>1, LeaveKeeps DEF Shape, TablesOK, tables
<1>3. ShownOK' /\ ViewOK'
  <2>1. CASE Refresh(c)
    <3>1. AcyclicTree(parent) /\ ShowPaths(parent) /\ parent' = parent
      BY <2>1 DEF Refresh, tables
    <3>2. FolderTree(parent) /\ DOMAIN parent \subseteq Folders
      BY <3>1, ParentIsTree DEF Shape
    <3>. QED  BY <3>1, <3>2, ShowPathsShows
  <2>2. CASE SkipRefresh(c)
    BY <2>2 DEF SkipRefresh, Shape, ShownOK, ViewOK
  <2>. QED  BY <2>1, <2>2
<1>. QED  BY <1>2, <1>3 DEF Shape

LEMMA ProductShape ==
  ASSUME Shape, AddProduct \/ Publish
  PROVE  Shape'
<1>1. UNCHANGED <<parent, used, shown, request>>
  BY DEF AddProduct, Publish
<1>2. KeptOK' /\ ShownOK' /\ ViewOK'
  BY <1>1 DEF Shape, KeptOK, ShownOK, ViewOK, shown, request
<1>3. /\ home' \in [Products -> DOMAIN parent \cup {NULL}]
      /\ published' \subseteq {q \in Products : home'[q] # NULL}
  <2>1. CASE AddProduct
    <3>1. PICK q \in Products, f \in DOMAIN parent :
            home' = [home EXCEPT ![q] = f] /\ published' = published
      BY <2>1 DEF AddProduct
    <3>2. f # NULL
      BY HierarchyAssumption DEF HierarchyAssumption, Shape, TablesOK
    <3>. QED  BY <3>1, <3>2 DEF Shape, TablesOK
  <2>2. CASE Publish
    BY <2>2 DEF Publish, Shape, TablesOK
  <2>. QED  BY <2>1, <2>2
<1>. QED  BY <1>1, <1>2, <1>3 DEF Shape, TablesOK

LEMMA NextShape == Shape /\ [Next]_vars => Shape'
<1>. SUFFICES ASSUME Shape, [Next]_vars PROVE Shape'
  OBVIOUS
<1>1. CASE UNCHANGED vars
  BY <1>1 DEF vars, Shape, TablesOK, KeptOK, ShownOK, ViewOK
<1>2. ASSUME NEW c \in Clients,
             \/ LoadForMove(c) \/ CheckDescendants(c) \/ MoveFolder(c)
             \/ CreateFolder(c)
             \/ LoadForDelete(c) \/ EraseProducts(c) \/ DeleteFolder(c)
             \/ Refresh(c) \/ SkipRefresh(c)
      PROVE  Shape'
  BY <1>2, LoadForMoveShape, CheckShape, MoveShape, CreateShape, LoadForDeleteShape,
     EraseShape, DeleteShape, RefreshShape
<1>. QED  BY <1>1, <1>2, ProductShape DEF Next
-----------------------------------------------------------------------------
(* Requests with the force flag, when each has the project to itself *)

AloneOK == \A c \in Clients : req[c].force => InProgress = {c}

\* The folder of a request that moves it has no published versions, or the
\* request has the force flag: what was read when it was loaded is still so.
PublishedOK == \A c \in Movers : req[c].force \/ ~ HasVersions(req[c].folder)

\* The products that are deleted are those of the folders below: the paths of the
\* view, and the one that was loaded, are those of the folders there are.
ErasedOK ==
  \A c \in Clients :
    /\ pc[c] = "erase" => /\ req[c].force /\ AcyclicTree(parent)
                          /\ view = Paths(parent)
                          /\ req[c].folder \in DOMAIN parent
                          /\ path[c] = view[req[c].folder]
    /\ erased[c] # {} => req[c].force
    /\ \A q \in erased[c] : home[q] \in Subtree(parent, req[c].folder)

ForceInv == Shape /\ AloneOK /\ PublishedOK /\ (Resembles = {} => ErasedOK)

\* With one request that has the force flag there is no other.
LEMMA NobodyElse ==
  ASSUME ForceAlone, ForceInv, NEW c \in Clients,
         c \in InProgress \/ \E alone \in BOOLEAN : Room(alone)
  PROVE  \A d \in Clients : d # c => ~ req[d].force
<1>1. \A d \in Clients : req[d].force => d \in InProgress /\ InProgress = {d}
  BY DEF ForceInv, AloneOK, Shape, KeptOK, InProgress
<1>2. (\E alone \in BOOLEAN : Room(alone)) => \A d \in InProgress : ~ req[d].force
  BY DEF Room
<1>. QED  BY <1>1, <1>2

\* What one request does, while nobody else has the force flag.
LEMMA AloneStep ==
  ASSUME ForceInv, Shape', NEW c \in Clients,
         \A d \in Clients : d # c => ~ req[d].force /\ req'[d] = req[d] /\ pc'[d] = pc[d],
         req'[c].force => InProgress \subseteq {c}
  PROVE  AloneOK'
<1>1. ASSUME NEW d \in Clients, req'[d].force PROVE InProgress' = {d}
  <2>1. d = c
    BY <1>1
  <2>2. pc'[c] # "idle"
    BY <1>1, <2>1 DEF Shape, KeptOK
  <2>. QED  BY <1>1, <2>1, <2>2 DEF InProgress
<1>. QED  BY <1>1 DEF AloneOK

LEMMA PublishedStep ==
  ASSUME ForceInv, NEW c \in Clients,
         \A d \in Clients : d # c => req'[d] = req[d] /\ pc'[d] = pc[d],
         c \in Movers' => req'[c].force \/ ~ HasVersions(req[c].folder)',
         (\A x \in used : HasVersions(x)' => HasVersions(x)) \/ Movers' \subseteq {c}
  PROVE  PublishedOK'
<1>1. ASSUME NEW d \in Movers', ~ req'[d].force
      PROVE  ~ HasVersions(req[d].folder)'
  <2>1. CASE d = c
    BY <1>1, <2>1
  <2>2. CASE d # c
    <3>1. d \in Clients /\ d \in Movers /\ req'[d] = req[d]
      BY <2>2 DEF Movers
    <3>2. PICK x : x = req[d].folder
      OBVIOUS
    <3>3. x \in used /\ ~ HasVersions(x)
      BY <1>1, <3>1, <3>2 DEF ForceInv, Shape, KeptOK, PublishedOK, Movers
    <3>4. ~ HasVersions(x)'
      BY <2>2, <3>3
    <3>5. req'[d].folder = x
      BY <3>1, <3>2
    <3>. QED  BY <3>4, <3>5 DEF HasVersions
  <2>. QED  BY <2>1, <2>2
<1>. QED  BY <1>1 DEF PublishedOK

\* The same folders and products, the same versions in a folder.
LEMMA VersionsLeft ==
  ASSUME UNCHANGED <<parent, home, published>>
  PROVE  \A x : HasVersions(x)' <=> HasVersions(x)
BY DEF HasVersions

LEMMA ErasedStep ==
  ASSUME ForceInv, ErasedOK, Shape', NEW c \in Clients,
         \A d \in Clients : d # c => /\ ~ req[d].force /\ req'[d] = req[d]
                                     /\ pc'[d] = pc[d] /\ erased'[d] = erased[d],
         pc'[c] # "erase", erased'[c] = {}
  PROVE  ErasedOK'
<1>1. ASSUME NEW d \in Clients PROVE pc'[d] # "erase" /\ erased'[d] = {}
  <2>1. CASE d = c
    BY <2>1
  <2>2. CASE d # c
    BY <2>2 DEF ErasedOK
  <2>. QED  BY <2>1, <2>2
<1>. QED  BY <1>1 DEF ErasedOK

LEMMA LoadForMoveForce ==
  ASSUME ForceAlone, ForceInv, Shape', NEW c \in Clients, LoadForMove(c)
  PROVE  ForceInv'
<1>1. PICK f \in DOMAIN parent, p \in used \cup {NULL}, force \in BOOLEAN :
        /\ Begin(c, "check", f, p, force)
        /\ HasVersions(f) => force
  BY DEF LoadForMove
<1>2. UNCHANGED <<tables, shown, erased>> /\ UNCHANGED <<used, erased>>
  BY DEF LoadForMove, tables
<1>3. /\ pc'[c] = "check" /\ erased[c] = {}
      /\ req'[c] = [folder |-> f, parent |-> p, force |-> force]
      /\ \A d \in Clients : d # c => pc'[d] = pc[d] /\ req'[d] = req[d]
  BY <1>1, <1>2, BeginKeeps DEF ForceInv, Shape
<1>4. Room(force)
  BY <1>1 DEF Begin
<1>5. \A d \in Clients : d # c => ~ req[d].force
  BY <1>4, NobodyElse
<1>6. AloneOK'
  <2>1. force => InProgress = {}
    BY <1>4 DEF Room
  <2>. QED  BY <1>3, <1>5, <2>1, AloneStep
<1>7. PublishedOK'
  <2>1. \A x : HasVersions(x)' <=> HasVersions(x)
    BY <1>2, VersionsLeft DEF tables
  <2>2. req'[c].folder = f /\ req'[c].force = force
    BY <1>3
  <2>3. req'[c].force \/ ~ HasVersions(req[c].folder)'
    BY <1>1, <1>2, <2>2 DEF HasVersions, tables
  <2>. QED  BY <1>3, <2>1, <2>3, PublishedStep
<1>8. ErasedOK => ErasedOK'
  BY <1>2, <1>3, <1>5, ErasedStep
<1>. QED  BY <1>6, <1>7, <1>8 DEF ForceInv

LEMMA LoadForDeleteForce ==
  ASSUME ForceAlone, ForceInv, Shape', NEW c \in Clients, LoadForDelete(c)
  PROVE  ForceInv'
<1>1. PICK f \in DOMAIN parent, force \in BOOLEAN, label \in {"erase", "delete"} :
        /\ label = IF force THEN "erase" ELSE "delete"
        /\ Begin(c, label, f, NULL, force)
  BY DEF LoadForDelete
<1>2. UNCHANGED <<tables, shown, erased>> /\ UNCHANGED <<used, erased>>
  BY DEF LoadForDelete, tables
<1>3. /\ pc'[c] = label /\ erased[c] = {}
      /\ req'[c] = [folder |-> f, parent |-> NULL, force |-> force]
      /\ path'[c] = IF label = "erase" THEN view[f] ELSE << >>
      /\ \A d \in Clients : d # c => pc'[d] = pc[d] /\ req'[d] = req[d]
  BY <1>1, <1>2, BeginKeeps DEF ForceInv, Shape
<1>4. Room(force) /\ AcyclicTree(parent)
  BY <1>1 DEF Begin
<1>5. \A d \in Clients : d # c => ~ req[d].force
  BY <1>4, NobodyElse
<1>6. force => InProgress = {} /\ ~ skipped
  BY <1>4 DEF Room
<1>7. AloneOK'
  BY <1>3, <1>5, <1>6, AloneStep
<1>8. PublishedOK'
  <2>1. \A x : HasVersions(x)' <=> HasVersions(x)
    BY <1>2, VersionsLeft DEF tables
  <2>2. c \notin Movers'
    BY <1>3 DEF Movers
  <2>. QED  BY <1>3, <2>1, <2>2, PublishedStep
<1>9. ASSUME ErasedOK PROVE ErasedOK'
  <2>1. CASE ~ force
    BY <1>1, <1>2, <1>3, <1>5, <1>9, <2>1, ErasedStep
  <2>2. CASE force
    <3>1. view = Paths(parent)
      BY <1>6, <2>2 DEF ForceInv, Shape, ViewOK, InProgress
    <3>2. /\ req'[c].force /\ req'[c].folder = f /\ path'[c] = view[f]
          /\ erased'[c] = {}
      BY <1>1, <1>2, <1>3, <2>2
    <3>3. ASSUME NEW d \in Clients, d # c PROVE pc'[d] # "erase" /\ erased'[d] = {}
      BY <1>2, <1>3, <1>5, <1>9, <3>3 DEF ErasedOK
    <3>4. parent' = parent /\ view' = view /\ home' = home
      BY <1>2 DEF tables, shown
    <3>. QED  BY <1>4, <3>1, <3>2, <3>3, <3>4 DEF ErasedOK
  <2>. QED  BY <2>1, <2>2
<1>. QED  BY <1>7, <1>8, <1>9 DEF ForceInv

\* A request in progress that leaves the tables and the view, and goes on or ends.
LEMMA LeaveForce ==
  ASSUME ForceAlone, ForceInv, Shape', NEW c \in InProgress, NEW label \in {"idle", "refresh"},
         Leave(c, label), UNCHANGED used,
         (\A x \in used : HasVersions(x)' => HasVersions(x)) \/ Movers' \subseteq {c}
  PROVE  ForceInv'
<1>1. c \in Clients
  BY DEF InProgress
<1>2. /\ pc'[c] = label /\ req'[c] = NoRequest /\ erased'[c] = {}
      /\ \A d \in Clients : d # c => /\ pc'[d] = pc[d] /\ req'[d] = req[d]
                                     /\ erased'[d] = erased[d]
  BY <1>1, LeaveKeeps DEF ForceInv, Shape
<1>3. \A d \in Clients : d # c => ~ req[d].force
  BY <1>1, NobodyElse
<1>4. AloneOK'
  BY <1>1, <1>2, <1>3, AloneStep DEF NoRequest
<1>5. PublishedOK'
  <2>1. c \notin Movers'
    BY <1>2 DEF Movers
  <2>. QED  BY <1>1, <1>2, <2>1, PublishedStep
<1>6. ErasedOK => ErasedOK'
  BY <1>1, <1>2, <1>3, ErasedStep
<1>. QED  BY <1>4, <1>5, <1>6 DEF ForceInv

LEMMA CheckForce ==
  ASSUME ForceAlone, ForceInv, Shape', NEW c \in Clients, CheckDescendants(c)
  PROVE  ForceInv'
<1>1. UNCHANGED <<tables, shown>> /\ UNCHANGED used /\ pc[c] = "check" /\ c \in InProgress
  BY DEF CheckDescendants, tables, InProgress
<1>2. \A x : HasVersions(x)' <=> HasVersions(x)
  BY <1>1, VersionsLeft DEF tables
<1>3. CASE Leave(c, "idle")
  BY <1>1, <1>2, <1>3, LeaveForce
<1>4. CASE Goto(c, "move") /\ UNCHANGED <<req, path, erased>>
  <2>1. pc'[c] = "move" /\ \A d \in Clients : d # c => pc'[d] = pc[d]
    BY <1>4 DEF Goto, ForceInv, Shape, KeptOK
  <2>2. \A d \in Clients : d # c => ~ req[d].force
    BY <1>1, NobodyElse
  <2>3. AloneOK'
    BY <1>4, <2>1, <2>2, AloneStep DEF ForceInv, AloneOK
  <2>4. PublishedOK'
    <3>1. req[c].force \/ ~ HasVersions(req[c].folder)
      BY <1>1 DEF ForceInv, PublishedOK, Movers
    <3>2. req'[c].force \/ ~ HasVersions(req[c].folder)'
      BY <1>1, <1>4, <3>1 DEF HasVersions, tables
    <3>. QED  BY <1>2, <1>4, <2>1, <3>2, PublishedStep
  <2>5. erased[c] = {}
    BY <1>1 DEF ForceInv, Shape, KeptOK
  <2>6. ErasedOK => ErasedOK'
    BY <1>4, <2>1, <2>2, <2>5, ErasedStep
  <2>. QED  BY <2>3, <2>4, <2>6 DEF ForceInv
<1>. QED  BY <1>3, <1>4 DEF CheckDescendants

LEMMA MoveForce ==
  ASSUME ForceAlone, ForceInv, Shape', NEW c \in Clients, MoveFolder(c)
  PROVE  ForceInv'
<1>1. PICK f, p : f = req[c].folder /\ p = req[c].parent
  OBVIOUS
<1>2. /\ pc[c] = "move" /\ UNCHANGED <<home, published, shown, used>>
      /\ \/ Leave(c, "idle") /\ UNCHANGED parent
         \/ /\ parent' = [g \in DOMAIN parent |-> IF g = f THEN p ELSE parent[g]]
            /\ Leave(c, "refresh")
  BY <1>1 DEF MoveFolder
<1>3. c \in InProgress
  BY <1>2 DEF InProgress
<1>4. CASE Leave(c, "idle") /\ UNCHANGED parent
  BY <1>2, <1>3, <1>4, VersionsLeft, LeaveForce
<1>5. CASE /\ parent' = [g \in DOMAIN parent |-> IF g = f THEN p ELSE parent[g]]
           /\ Leave(c, "refresh")
  <2>1. ASSUME ~ req[c].force, NEW x \in used, HasVersions(x)'
        PROVE  HasVersions(x)
    <3>1. ~ HasVersions(f)
      BY <1>1, <1>2, <2>1 DEF ForceInv, PublishedOK, Movers
    <3>2. PICK q \in published : home[q] \in Subtree(parent', x)
      BY <1>2, <2>1 DEF HasVersions
    <3>3. PICK t : t = parent'
      OBVIOUS
    <3>4. Subtree(t, x) \subseteq Subtree(parent, x) \cup Subtree(parent, f)
      BY <1>5, <3>3, SubtreeMoved
    <3>. QED  BY <3>1, <3>2, <3>3, <3>4 DEF HasVersions
  <2>2. ASSUME req[c].force PROVE Movers' \subseteq {c}
    <3>1. InProgress = {c}
      BY <2>2 DEF ForceInv, AloneOK
    <3>2. \A d \in Clients : d # c => pc'[d] = pc[d]
      BY <1>2, <1>5, LeaveKeeps DEF ForceInv, Shape
    <3>. QED  BY <3>1, <3>2 DEF InProgress, Movers
  <2>. QED  BY <1>2, <1>3, <1>5, <2>1, <2>2, LeaveForce
<1>. QED  BY <1>2, <1>4, <1>5

LEMMA CreateForce ==
  ASSUME ForceAlone, ForceInv, Shape', NEW c \in Clients, CreateFolder(c)
  PROVE  ForceInv'
<1>. USE HierarchyAssumption DEF HierarchyAssumption
<1>0. PICK f \in Folders \ used, p \in DOMAIN parent \cup {NULL} : \E tree :
        /\ tree = [g \in DOMAIN parent \cup {f} |-> IF g = f THEN p ELSE parent[g]]
        /\ pc[c] = "idle" /\ Room(FALSE)
        /\ parent' = tree
        /\ Goto(c, "refresh")
        /\ UNCHANGED <<home, published, req, path, erased>>
  BY DEF CreateFolder
<1>1. PICK tree :
        /\ tree = [g \in DOMAIN parent \cup {f} |-> IF g = f THEN p ELSE parent[g]]
        /\ pc[c] = "idle" /\ Room(FALSE)
        /\ parent' = tree
        /\ Goto(c, "refresh")
        /\ UNCHANGED <<home, published, req, path, erased>>
  BY <1>0
<1>2. /\ f # NULL /\ f \notin DOMAIN parent /\ p # f
      /\ \A g \in DOMAIN parent : parent[g] # f
      /\ \A q \in Products : home[q] # f
      /\ published \subseteq Products
  BY DEF ForceInv, Shape, TablesOK
<1>3. pc'[c] = "refresh" /\ \A d \in Clients : d # c => pc'[d] = pc[d]
  BY <1>1 DEF Goto, ForceInv, Shape, KeptOK
<1>4. \A d \in Clients : d # c => ~ req[d].force
  BY <1>1, NobodyElse
<1>5. ~ req[c].force /\ erased[c] = {}
  BY <1>1 DEF ForceInv, Shape, KeptOK
<1>6. AloneOK'
  BY <1>1, <1>3, <1>4, <1>5, AloneStep
<1>7. PublishedOK'
  <2>1. ASSUME NEW x \in used, HasVersions(x)' PROVE HasVersions(x)
    <3>1. PICK q \in published : home[q] \in Subtree(tree, x)
      BY <1>1, <2>1 DEF HasVersions
    <3>2. \A y : y # f => Descendants(tree, y) \subseteq Descendants(parent, y) \cup {f}
      <4>1. tree = [g \in DOMAIN parent \cup {f} |-> IF g = f THEN p ELSE parent[g]]
        BY <1>1
      <4>2. f \notin DOMAIN parent /\ p # f /\ \A g \in DOMAIN parent : parent[g] # f
        BY <1>2
      <4>. QED  BY <4>1, <4>2, FolderAdded, SMTT(60)
    <3>3. x # f
      OBVIOUS
    <3>. QED  BY <1>2, <3>1, <3>2, <3>3 DEF HasVersions, Subtree
  <2>2. c \notin Movers'
    BY <1>3 DEF Movers
  <2>. QED  BY <1>1, <1>3, <2>1, <2>2, PublishedStep
<1>8. ErasedOK => ErasedOK'
  BY <1>1, <1>3, <1>4, <1>5, ErasedStep
<1>. QED  BY <1>6, <1>7, <1>8 DEF ForceInv

\* The folders whose path in the view begins with the path of a folder are those
\* below it, when no name resembles another.
LEMMA InsideIsSubtree ==
  ASSUME Resembles = {}, NEW p, FolderTree(p), NEW r \in DOMAIN p, NEW f \in DOMAIN p,
         Paths(p)[f] = Paths(p)[r] \/ LikeChild(Paths(p)[r], Paths(p)[f])
  PROVE  f \in Subtree(p, r)
<1>1. PICK q, s : q = Paths(p)[f] /\ s = Paths(p)[r]
  OBVIOUS
<1>2. /\ q \in Seq(Ancestry(p, f)) /\ Len(q) > 0 /\ q[Len(q)] = f
      /\ s \in Seq(Ancestry(p, r)) /\ Len(s) > 0 /\ s[Len(s)] = r
  BY <1>1, PathOfFolder
<1>3. CASE q = s
  <2>1. f = r
    BY <1>2, <1>3
  <2>. QED  BY <2>1 DEF Subtree
<1>4. CASE LikeChild(s, q)
  <2>1. PICK n \in 1..(Len(q) - 1) : SubSeq(q, 1, n) = s
    BY <1>4 DEF LikeChild
  <2>2. Len(q) \in Nat /\ n \in 1..Len(q)
    BY <1>2, <2>1
  <2>3. Len(s) = n /\ s[n] = q[n]
    BY <1>2, <2>1, <2>2
  <2>4. r \in Ancestry(p, f)
    BY <1>2, <2>2, <2>3
  <2>. QED  BY <2>4 DEF Ancestry
<1>. QED  BY <1>1, <1>3, <1>4

LEMMA EraseForce ==
  ASSUME ForceAlone, ForceInv, Shape', NEW c \in Clients, EraseProducts(c)
  PROVE  ForceInv'
<1>1. PICK inside, deleted :
        /\ inside = {f \in DOMAIN view : view[f] = path[c] \/ LikeChild(path[c], view[f])}
        /\ deleted = {q \in Products : home[q] \in inside}
        /\ erased' = [erased EXCEPT ![c] = deleted]
  BY DEF EraseProducts
<1>2. /\ pc[c] = "erase" /\ Goto(c, "delete") /\ c \in InProgress
      /\ UNCHANGED <<tables, shown, req, path>>
  BY DEF EraseProducts, InProgress
<1>3. pc'[c] = "delete" /\ \A d \in Clients : d # c => pc'[d] = pc[d]
  BY <1>2 DEF Goto, ForceInv, Shape, KeptOK
<1>4. erased'[c] = deleted /\ \A d \in Clients : d # c => erased'[d] = erased[d]
  BY <1>1 DEF ForceInv, Shape, KeptOK
<1>5. \A d \in Clients : d # c => ~ req[d].force
  BY <1>2, NobodyElse
<1>6. AloneOK'
  BY <1>2, <1>3, <1>5, AloneStep DEF ForceInv, AloneOK
<1>7. PublishedOK'
  <2>1. \A x : HasVersions(x)' <=> HasVersions(x)
    BY <1>2, VersionsLeft DEF tables
  <2>2. c \notin Movers'
    BY <1>3 DEF Movers
  <2>. QED  BY <1>2, <1>3, <2>1, <2>2, PublishedStep
<1>8. ASSUME Resembles = {}, ErasedOK PROVE ErasedOK'
  <2>1. PICK r : r = req[c].folder
    OBVIOUS
  <2>2. /\ req[c].force /\ AcyclicTree(parent) /\ view = Paths(parent)
        /\ r \in DOMAIN parent /\ path[c] = Paths(parent)[r]
    BY <1>2, <1>8, <2>1 DEF ErasedOK
  <2>3. FolderTree(parent)
    BY <2>2, ParentIsTree DEF ForceInv, Shape
  <2>4. inside \subseteq Subtree(parent, r)
    <3>1. ASSUME NEW f \in inside PROVE f \in Subtree(parent, r)
      <4>1. f \in DOMAIN parent
        BY <1>1, <2>2 DEF Paths
      <4>2. Paths(parent)[f] = Paths(parent)[r]
            \/ LikeChild(Paths(parent)[r], Paths(parent)[f])
        BY <1>1, <2>2
      <4>. QED  BY <1>8, <2>2, <2>3, <4>1, <4>2, InsideIsSubtree
    <3>. QED  BY <3>1
  <2>5. \A q \in deleted : home[q] \in Subtree(parent, r)
    BY <1>1, <2>4
  <2>6. ASSUME NEW d \in Clients, d # c PROVE pc'[d] # "erase" /\ erased'[d] = {}
    BY <1>3, <1>4, <1>5, <1>8, <2>6 DEF ErasedOK
  <2>7. parent' = parent /\ home' = home /\ req' = req
    BY <1>2 DEF tables
  <2>. QED  BY <1>3, <1>4, <2>1, <2>2, <2>5, <2>6, <2>7 DEF ErasedOK
<1>. QED  BY <1>6, <1>7, <1>8 DEF ForceInv

LEMMA DeleteForce ==
  ASSUME ForceAlone, ForceInv, Shape', NEW c \in Clients, DeleteFolder(c)
  PROVE  ForceInv'
<1>1. PICK gone, left, tree :
        /\ gone = Subtree(parent, req[c].folder)
        /\ left = Products \ erased[c]
        /\ tree = [g \in DOMAIN parent \ gone |-> parent[g]]
  OBVIOUS
<1>2. /\ pc[c] = "delete" /\ c \in InProgress /\ used' = used
      /\ \/ Leave(c, "idle") /\ UNCHANGED <<parent, home, published, shown>>
         \/ /\ parent' = tree
            /\ home' = [q \in Products |-> IF q \in left THEN home[q] ELSE NULL]
            /\ published' = published \cap left
            /\ Leave(c, "refresh")
  BY <1>1 DEF DeleteFolder, InProgress
<1>3. CASE Leave(c, "idle") /\ UNCHANGED <<parent, home, published, shown>>
  BY <1>2, <1>3, VersionsLeft, LeaveForce
<1>4. CASE /\ parent' = tree
           /\ home' = [q \in Products |-> IF q \in left THEN home[q] ELSE NULL]
           /\ published' = published \cap left
           /\ Leave(c, "refresh")
  <2>1. ASSUME NEW x \in used, HasVersions(x)' PROVE HasVersions(x)
    <3>1. PICK q \in published' : home'[q] \in Subtree(tree, x)
      BY <1>4, <2>1 DEF HasVersions
    <3>2. q \in published /\ home'[q] = home[q]
      BY <1>1, <1>4, <3>1
    <3>3. Descendants(tree, x) \subseteq Descendants(parent, x)
      BY <1>1, FoldersRemoved
    <3>. QED  BY <3>1, <3>2, <3>3 DEF HasVersions, Subtree
  <2>. QED  BY <1>2, <1>4, <2>1, LeaveForce
<1>. QED  BY <1>2, <1>3, <1>4

LEMMA RefreshForce ==
  ASSUME ForceAlone, ForceInv, Shape', NEW c \in Clients, Refresh(c) \/ SkipRefresh(c)
  PROVE  ForceInv'
<1>1. Leave(c, "idle") /\ UNCHANGED tables /\ c \in InProgress /\ used' = used
  BY DEF Refresh, SkipRefresh, InProgress, tables
<1>. QED  BY <1>1, VersionsLeft, LeaveForce DEF tables

LEMMA ProductForce ==
  ASSUME ForceAlone, ForceInv, Shape', AddProduct \/ Publish
  PROVE  ForceInv'
<1>1. Room(TRUE) /\ UNCHANGED <<parent, used, shown, request>>
  BY DEF AddProduct, Publish
<1>2. InProgress = {} /\ InProgress' = {}
  BY <1>1 DEF Room, InProgress, request
<1>3. \A c \in Clients : pc'[c] = "idle" /\ ~ req'[c].force /\ erased'[c] = {}
  BY <1>1, <1>2 DEF InProgress, request, ForceInv, Shape, KeptOK
<1>4. Movers' = {}
  BY <1>3 DEF Movers
<1>. QED  BY <1>3, <1>4 DEF ForceInv, AloneOK, PublishedOK, ErasedOK

LEMMA NextForce == ForceAlone /\ ForceInv /\ [Next]_vars => ForceInv'
<1>. SUFFICES ASSUME ForceAlone, ForceInv, [Next]_vars PROVE ForceInv'
  OBVIOUS
<1>1. Shape'
  BY NextShape DEF ForceInv
<1>2. CASE UNCHANGED vars
  BY <1>1, <1>2 DEF vars, ForceInv, AloneOK, PublishedOK, ErasedOK, InProgress, Movers,
     HasVersions
<1>3. ASSUME NEW c \in Clients,
             \/ LoadForMove(c) \/ CheckDescendants(c) \/ MoveFolder(c)
             \/ CreateFolder(c)
             \/ LoadForDelete(c) \/ EraseProducts(c) \/ DeleteFolder(c)
             \/ Refresh(c) \/ SkipRefresh(c)
      PROVE  ForceInv'
  BY <1>1, <1>3, LoadForMoveForce, CheckForce, MoveForce, CreateForce, LoadForDeleteForce,
     EraseForce, DeleteForce, RefreshForce
<1>. QED  BY <1>1, <1>2, <1>3, ProductForce DEF Next

LEMMA InitForce == AcyclicTree(InitialParent) /\ Init => ForceInv
<1>. SUFFICES ASSUME AcyclicTree(InitialParent), Init PROVE ForceInv
  OBVIOUS
<1>1. Shape
  BY InitShape
<1>2. \A c \in Clients : pc[c] = "idle" /\ ~ req[c].force /\ erased[c] = {}
  BY DEF Init, NoRequest
<1>3. Movers = {}
  BY <1>2 DEF Movers
<1>. QED  BY <1>1, <1>2, <1>3 DEF ForceInv, AloneOK, PublishedOK, ErasedOK
-----------------------------------------------------------------------------
(* The theorems *)

\* sanitize_folder_update keeps the folders a tree as long as no two requests
\* move folders at the same time, whatever is created and deleted next to it.
THEOREM TreeStays == OneMover => (Spec => []Acyclic)
<1>. SUFFICES ASSUME OneMover PROVE Spec => []Acyclic
  OBVIOUS
<1>1. Init => Inv
  BY InitInv
<1>2. Inv /\ [Next]_vars => Inv'
  BY NextInv
<1>3. Inv => Acyclic
  BY DEF Inv, TreeOK, Acyclic
<1>. QED  BY <1>1, <1>2, <1>3, PTL DEF Spec

\* The parent of a folder is there and its id was given out: the foreign key of
\* the table and the cascade of the deletion, under the same condition.
THEOREM ParentsAreThere == OneMover => (Spec => []TreeOK)
<1>. SUFFICES ASSUME OneMover PROVE Spec => []TreeOK
  OBVIOUS
<1>1. Init => Inv
  BY InitInv
<1>2. Inv /\ [Next]_vars => Inv'
  BY NextInv
<1>3. Inv => TreeOK
  BY DEF Inv
<1>. QED  BY <1>1, <1>2, <1>3, PTL DEF Spec

\* Types and foreign keys, whatever goes on at a time: the paths of the view are
\* sequences of folders, since the view is refreshed only from a tree.
THEOREM TypesHold == AcyclicTree(InitialParent) => (Spec => []TypeOK)
<1>. SUFFICES ASSUME AcyclicTree(InitialParent) PROVE Spec => []TypeOK
  OBVIOUS
<1>1. Init => Shape
  BY InitShape
<1>2. Shape /\ [Next]_vars => Shape'
  BY NextShape
<1>. QED  BY <1>1, <1>2, ShapeTypes, PTL DEF Spec

\* refresh_views after the commit of each change (entity_update, entity_delete)
\* brings the view up to date, for any number of requests in any order.
THEOREM ViewCatchesUp == AcyclicTree(InitialParent) => (Spec => []ViewIsCurrent)
<1>. SUFFICES ASSUME AcyclicTree(InitialParent) PROVE Spec => []ViewIsCurrent
  OBVIOUS
<1>1. Init => Shape
  BY InitShape
<1>2. Shape /\ [Next]_vars => Shape'
  BY NextShape
<1>3. Shape => ViewIsCurrent
  BY DEF Shape, ViewOK, ViewIsCurrent, InProgress
<1>. QED  BY <1>1, <1>2, <1>3, PTL DEF Spec

\* update_folder moves a folder with published versions only by force, any number
\* of requests moving folders at a time: a folder gets published versions neither
\* from a product, which waits for the requests to end, nor from a subfolder that
\* is moved into it, which has none either.
THEOREM PublishedFoldersStay ==
  AcyclicTree(InitialParent) /\ ForceAlone => (Spec => PublishedStays)
<1>. SUFFICES ASSUME AcyclicTree(InitialParent), ForceAlone PROVE Spec => PublishedStays
  OBVIOUS
<1>. DEFINE Stays ==
       \A f \in DOMAIN parent \cap DOMAIN parent' :
         HasVersions(f) /\ parent'[f] # parent[f] =>
           \E c \in Clients : pc[c] = "move" /\ req[c].folder = f /\ req[c].force
<1>1. Init => ForceInv
  BY InitForce
<1>2. ForceInv /\ [Next]_vars => ForceInv'
  BY NextForce
<1>3. ForceInv /\ [Next]_vars => [Stays]_vars
  <2>. SUFFICES ASSUME ForceInv, Next, NEW f \in DOMAIN parent \cap DOMAIN parent',
                       HasVersions(f), parent'[f] # parent[f]
                PROVE  \E c \in Clients : pc[c] = "move" /\ req[c].folder = f /\ req[c].force
    OBVIOUS
  <2>1. ASSUME NEW c \in Clients, MoveFolder(c)
        PROVE  pc[c] = "move" /\ req[c].folder = f /\ req[c].force
    <3>1. pc[c] = "move" /\ req[c].folder = f
      BY <2>1 DEF MoveFolder
    <3>2. c \in Movers
      BY <3>1 DEF Movers
    <3>. QED  BY <3>1, <3>2 DEF ForceInv, PublishedOK
  <2>2. ASSUME NEW c \in Clients, CreateFolder(c) PROVE FALSE
    <3>1. f \in used
      BY DEF ForceInv, Shape, TablesOK
    <3>. QED  BY <2>2, <3>1 DEF CreateFolder
  <2>3. ASSUME NEW c \in Clients, DeleteFolder(c) PROVE FALSE
    BY <2>3 DEF DeleteFolder
  <2>4. UNCHANGED parent \/ \E c \in Clients : MoveFolder(c) \/ CreateFolder(c) \/ DeleteFolder(c)
    BY DEF Next, LoadForMove, CheckDescendants, LoadForDelete, EraseProducts, Refresh,
       SkipRefresh, AddProduct, Publish, tables
  <2>. QED  BY <2>1, <2>2, <2>3, <2>4
<1>. QED  BY <1>1, <1>2, <1>3, PTL DEF Spec, PublishedStays

\* delete_folder with force deletes the products of the folder's subtree and no
\* other, as the request alone sees the view and no folder name, read as a LIKE
\* pattern, matches the name of another folder.
THEOREM DeletionsStayInside ==
  AcyclicTree(InitialParent) /\ ForceAlone /\ Resembles = {} => (Spec => DeletedInside)
<1>. SUFFICES ASSUME AcyclicTree(InitialParent), ForceAlone, Resembles = {}
              PROVE  Spec => DeletedInside
  OBVIOUS
<1>. DEFINE Inside ==
       \A q \in Products :
         home[q] # NULL /\ home'[q] = NULL =>
           \E c \in Clients :
             /\ pc[c] = "delete"
             /\ home[q] \in Subtree(parent, req[c].folder)
<1>1. Init => ForceInv
  BY InitForce
<1>2. ForceInv /\ [Next]_vars => ForceInv'
  BY NextForce
<1>3. ForceInv /\ [Next]_vars => [Inside]_vars
  <2>. SUFFICES ASSUME ForceInv, Next, NEW q \in Products, home[q] # NULL, home'[q] = NULL
                PROVE  \E c \in Clients :
                         pc[c] = "delete" /\ home[q] \in Subtree(parent, req[c].folder)
    OBVIOUS
  <2>1. ASSUME NEW c \in Clients, DeleteFolder(c)
        PROVE  pc[c] = "delete" /\ home[q] \in Subtree(parent, req[c].folder)
    <3>1. pc[c] = "delete" /\ q \in erased[c]
      BY <2>1 DEF DeleteFolder
    <3>. QED  BY <3>1 DEF ForceInv, ErasedOK
  <2>2. ASSUME AddProduct PROVE FALSE
    <3>1. PICK p \in Products, f \in DOMAIN parent : home' = [home EXCEPT ![p] = f]
      BY <2>2 DEF AddProduct
    <3>. QED  BY <3>1, HierarchyAssumption
              DEF HierarchyAssumption, ForceInv, Shape, TablesOK
  <2>3. UNCHANGED home \/ AddProduct \/ \E c \in Clients : DeleteFolder(c)
    BY DEF Next, LoadForMove, CheckDescendants, MoveFolder, CreateFolder, LoadForDelete,
       EraseProducts, Refresh, SkipRefresh, Publish, tables
  <2>. QED  BY <2>1, <2>2, <2>3
<1>. QED  BY <1>1, <1>2, <1>3, PTL DEF Spec, DeletedInside
=============================================================================
