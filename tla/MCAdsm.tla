-------------------------------- MODULE MCAdsm --------------------------------
(* Instances of the launches of one execution mode for TLC.                   *)
EXTENDS Adsm, TLC

\* Objects are interchangeable: no action and no invariant names one.
Symmetry == Permutations(Blocks)
===============================================================================
