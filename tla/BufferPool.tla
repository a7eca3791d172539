------------------------------ MODULE BufferPool ------------------------------
(***************************************************************************)
(* What the pinned memory of an execution mode promises those who create   *)
(* I/O buffers (core::Mode::createIOBuffer): a buffer holds at least what  *)
(* was asked for, shares no byte with another one in use, and is taken     *)
(* from pageable memory, where transfers are slow, only if no aligned range*)
(* of pinned memory is left for it.                                        *)
(***************************************************************************)
EXTENDS Integers, FiniteSets

CONSTANTS
    MaxIndex,       \* the size of the pinned memory, as a power of two
    MaxPageable     \* bound of the model: buffers in pageable memory

VARIABLES
    pinned,     \* buffers in pinned memory, as records of address, index and
                \* the size they were created for
    pageable    \* the sizes of the buffers in pageable memory

vars == <<pinned, pageable>>

Indexes == 0..MaxIndex

\* The size of the memory and of the ranges it can be divided into.
Size[i \in 0..MaxIndex + 1] == IF i = 0 THEN 1 ELSE 2 * Size[i - 1]

Requests == 1..Size[MaxIndex + 1]

\* A range for n bytes begins at a multiple of its size, and half of it would
\* not be enough.
Ranges(n) ==
    {r \in [addr : 0..Size[MaxIndex] - 1, index : Indexes, asked : {n}] :
       /\ r.addr % Size[r.index] = 0
       /\ n <= Size[r.index]
       /\ r.index > 0 => Size[r.index - 1] < n}

Apart(r, s) == r.addr + Size[r.index] <= s.addr \/ s.addr + Size[s.index] <= r.addr

\* What a buffer for n bytes can be given.
Room(n) == {r \in Ranges(n) : \A s \in pinned : Apart(r, s)}

Init ==
    /\ pinned = {}
    /\ pageable = {}

Create(n) ==
    \/ /\ \E r \in Room(n) : pinned' = pinned \cup {r}
       /\ UNCHANGED pageable
    \/ /\ Room(n) = {}
       /\ n \notin pageable /\ Cardinality(pageable) < MaxPageable
       /\ pageable' = pageable \cup {n}
       /\ UNCHANGED pinned

Destroy ==
    \/ /\ \E r \in pinned : pinned' = pinned \ {r}
       /\ UNCHANGED pageable
    \/ /\ \E n \in pageable : pageable' = pageable \ {n}
       /\ UNCHANGED pinned

Next == Destroy \/ \E n \in Requests : Create(n)

Spec == Init /\ [][Next]_vars

===============================================================================
