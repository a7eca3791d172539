----------------------------- MODULE MCRangeCopy -----------------------------
(* Two adjacent objects with a last block that is smaller than the others,    *)
(* and host memory on both sides.                                             *)
EXTENDS RangeCopy

MCObjects == {[start |-> 1, size |-> 9], [start |-> 10, size |-> 6]}

Calls(c, fasts) ==
    [call : {c}, dst : 0..Top, src : 0..Top, size : 1..8, fast : fasts]

Within(a, n) == a + n <= Top + 1

Apart(r) == r.dst + r.size <= r.src \/ r.src + r.size <= r.dst

\* memcpy ranges that do not overlap.
Copies ==
    {r \in Calls("memcpy", BOOLEAN) :
       Within(r.dst, r.size) /\ Within(r.src, r.size) /\ Apart(r)}

\* Those a call of the fast path returns from.
EndingCopies == {r \in Copies : Ending(r)}

\* Copies that go through buffers, most of them on past the end of an object.
BufferedCopies == {r \in Copies : ~r.fast}

\* memset ranges that begin in an object, or touch none.
Sets ==
    {r \in Calls("memset", {FALSE}) :
       /\ Within(r.dst, r.size)
       /\ r.src = 0
       /\ \/ \E o \in Objects : InObject(o, r.dst)
          \/ \A o \in Objects : o.start \notin r.dst..(r.dst + r.size)}

\* The fast path gets only what it copies right.
RightRequests == {r \in Copies : r.fast => StartsInStep(r)} \cup Sets
===============================================================================
