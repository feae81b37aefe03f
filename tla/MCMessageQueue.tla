--------------------------- MODULE MCMessageQueue ---------------------------
(* Two consumers race for the samples of a queue of capacity two; one more *)
(* put than twice the capacity makes it overflow, drain and overflow again.*)
EXTENDS MessageQueue
=============================================================================
