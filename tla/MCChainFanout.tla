---------------------------- MODULE MCChainFanout ----------------------------
(* sample-api with two requests at a time, for TLC.                            *)
EXTENDS ChainFanout
=============================================================================
