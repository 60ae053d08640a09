------------------------------ MODULE MCEnroll ------------------------------
(* Values of the constants of Enroll for TLC. *)
EXTENDS Enroll, TLC

CONSTANTS w1, w2, operator

TwoWorkers == {w1, w2}

\* Two services, each with a sender of its own, processing the same jobs.
OwnSenders == [w \in TwoWorkers |-> w]
MCSenders == {w1, w2, operator}
MCTargetTopics == {"sync", "notify"}
SameTopic == [w \in TwoWorkers |-> "sync"]

Symmetry == Permutations(TwoWorkers)

=============================================================================
