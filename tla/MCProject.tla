----------------------------- MODULE MCProject -----------------------------
(* Three requests, of any kinds, on two projects.                           *)
EXTENDS Project, TLC

CONSTANTS p1, p2, v0, v1, r1, r2, r3

Ask(kind, project, field) ==
  [kind |-> kind, project |-> project, field |-> field, value |-> v1]

\* Most requests are about the first project; the other one shares the process
\* and the list.
Asks ==
  << Ask("patch", p1, "attrib"), Ask("patch", p1, "statuses"),
     Ask("locked", p1, "data"), Ask("read", p1, "data"),
     Ask("folder", p1, "attrib"), Ask("patch", p2, "data") >>

\* Any three of them: which request is which makes no difference.
AnyThree ==
  { r1 :> Asks[t[1]] @@ r2 :> Asks[t[2]] @@ r3 :> Asks[t[3]] :
      t \in {u \in (1..6) \X (1..6) \X (1..6) : u[1] <= u[2] /\ u[2] <= u[3]} }
=============================================================================
