--------------------------- MODULE MCOperations ---------------------------
(* Requests on two rows: operations in both orders, so that transactions can *)
(* wait for one another, and rows that come and go.                          *)
EXTENDS BackgroundOperations, TLC

CONSTANTS b1, b2, e1, e2, v1, v2

Create(e, v) == [type |-> "create", entity |-> e, value |-> v]
Update(e, v) == [type |-> "update", entity |-> e, value |-> v]
Delete(e) == [type |-> "delete", entity |-> e, value |-> v1]

OneRow == (e1 :> v1) @@ (e2 :> NULL)
TwoRows == (e1 :> v1) @@ (e2 :> v1)

\* Only e1 exists at first.
MCScripts ==
  { << Update(e1, v2), Create(e2, v1) >>,
    << Create(e2, v1), Update(e2, v2), Update(e1, v2) >>,
    << Delete(e1), Create(e1, v2) >> }

\* Both rows exist.  Two scripts take them in opposite orders, one has a row
\* that goes and comes back, one is refused.
CrossingScripts ==
  { << Update(e1, v2), Update(e2, v2) >>,
    << Update(e2, v2), Update(e1, v1) >>,
    << Delete(e1), Create(e1, v2) >>,
    << Delete(e2), Update(e2, v2) >> }
=============================================================================
