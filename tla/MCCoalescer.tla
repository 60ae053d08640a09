---------------------------- MODULE MCCoalescer ----------------------------
(* Three callers that share batches of two.                                 *)
EXTENDS RequestCoalescer
=============================================================================
