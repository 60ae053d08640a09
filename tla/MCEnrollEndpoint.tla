-------------------------- MODULE MCEnrollEndpoint --------------------------
(* Values of the constants of EnrollEndpoint for TLC. *)
EXTENDS EnrollEndpoint, TLC

CONSTANTS w1, w2, operator

TwoWorkers == {w1, w2}
OwnSenders == [w \in TwoWorkers |-> w]
MCSenders == {w1, w2, operator}
SameTopic == [w \in TwoWorkers |-> "sync"]

\* The bodies name the sender: each service has its own key.
MCKeys == {"body1", "body2"}
OwnKeys == [w \in TwoWorkers |-> IF w = w1 THEN "body1" ELSE "body2"]

=============================================================================
