------------------------------ MODULE MCIOMemory ------------------------------
(* An instance of the pinned memory of a mode for TLC.                        *)
EXTENDS IOMemory
===============================================================================
