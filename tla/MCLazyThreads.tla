----------------------------- MODULE MCLazyThreads -----------------------------
(* Threads t1 and t2 share mode m1, whose map holds p1 and p2; t3 has a mode  *)
(* of its own and writes p1.                                                  *)
EXTENDS LazyThreads, TLC

CONSTANTS t1, t2, t3, m1, m2, p1, p2

MCModeOf == (t1 :> m1) @@ (t2 :> m1) @@ (t3 :> m2)
MCHome == (p1 :> m1) @@ (p2 :> m1)
MCFaulting == {<<t1, p1>>, <<t2, p2>>, <<t3, p1>>}
MCListed == {<<t1, p1>>, <<t2, p2>>}

\* Two of the threads, each with its mode.
TwoModeOf == (t1 :> m1) @@ (t3 :> m2)
TwoHome == p1 :> m1
TwoFaulting == {<<t3, p1>>}
===============================================================================
