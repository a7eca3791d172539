-------------------------------- MODULE MCLazy --------------------------------
(* Instances of the Lazy protocol for TLC.                                    *)
EXTENDS Lazy, TLC

\* Blocks are interchangeable: no action and no invariant names one.
Symmetry == Permutations(Blocks)
===============================================================================
