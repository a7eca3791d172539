------------------------------ MODULE MCSlabCache ------------------------------
(* Two threads that allocate from two call sites, with room for two arenas.   *)
EXTENDS SlabCache, TLC

CONSTANTS s1, s2

\* The threads do the same.
ThreadsAlike == Permutations(Threads)

\* One asks for two sizes.
TwoSizes == (s1 :> {3, 4}) @@ (s2 :> {3})

\* One asks for a size that does not divide the block.
OddSize == (s1 :> {4}) @@ (s2 :> {5})
===============================================================================
