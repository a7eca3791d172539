----------------------------- MODULE MCModeQueues -----------------------------
(* Instances of the exchange of modes for TLC.                                *)
EXTENDS ModeQueues
===============================================================================
