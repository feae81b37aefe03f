---------------------------- MODULE MCFullyAsync ----------------------------
(* Instances of the pipeline small enough for TLC.  Each configuration picks *)
(* the batch size, trigger interval and threshold of the question it asks.   *)
EXTENDS FullyAsync
=============================================================================
