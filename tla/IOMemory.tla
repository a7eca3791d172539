------------------------------- MODULE IOMemory -------------------------------
(***************************************************************************)
(* I/O buffers of an execution mode in the CUDA build: pinned memory, the  *)
(* buddy allocator that divides it, and the creation and destruction of    *)
(* buffers (util/allocator/Buddy.cpp, api/cuda/hpe/Mode.cpp).  A mode has  *)
(* two pieces of pinned memory, for buffers the host writes and for all    *)
(* others; they share nothing, and this is one of them.                    *)
(*                                                                         *)
(* The allocator is called under its lock, so that a call is one step, the *)
(* recursion over the sizes of chunks included.  Which of the free chunks  *)
(* of a size it takes is left open.  The size of the piece is a power of   *)
(* two, as it is unless GMAC_IOMEMORY is set.                              *)
(***************************************************************************)
EXTENDS Integers, FiniteSets

CONSTANTS
    MaxIndex,       \* Buddy::index_
    MaxPageable     \* bound of the model: buffers in pageable memory, each
                    \* of another size

ASSUME MaxIndexAssumption == MaxIndex \in Nat
ASSUME MaxPageableAssumption == MaxPageable \in Nat

VARIABLES
    tree,       \* Buddy::_tree: offsets of the free chunks of each size
    pinned,     \* IOBuffers that are async_: offset, index of their size, and
                \* the size they were created for
    pageable    \* the sizes of the others

vars == <<tree, pinned, pageable>>

Indexes == 0..MaxIndex

\* 1 << i: the size of a chunk of index i.
Size[i \in 0..MaxIndex + 1] == IF i = 0 THEN 1 ELSE 2 * Size[i - 1]

Offsets == 0..Size[MaxIndex] - 1

\* Sizes of the buffers that are created, some of them too big for the piece.
Requests == 1..Size[MaxIndex + 1]

\* off & mask, for the mask of the multiples of Size[i].
Masked(off, i) == off - (off % Size[i])

TypeOK ==
    /\ tree \in [Indexes -> SUBSET Offsets]
    /\ pinned \subseteq [addr : Offsets, index : Indexes, asked : Requests]
    /\ pageable \subseteq Requests

\* The piece as one chunk.
Whole == [i \in Indexes |-> IF i = MaxIndex THEN {0} ELSE {}]

\* Mode::Mode and Buddy::Buddy.
Init ==
    /\ tree = Whole
    /\ pinned = {}
    /\ pageable = {}

-------------------------------------------------------------------------------
(* The buddy allocator.                                                      *)

Least(S) == CHOOSE i \in S : \A j \in S : i <= j

\* Mutant: the size is rounded down.
IndexRoundedDown(n) ==
    CHOOSE i \in 0..MaxIndex + 1 : Size[i] <= n /\ (i <= MaxIndex => n < Size[i + 1])

\* Buddy::index: the least power of two that is not less than n.
Index(n) == Least({i \in 0..MaxIndex + 1 : n <= Size[i]})

\* Sizes of chunks from which getFromList(i) can take one.
Enough(i) == {j \in Indexes : j >= i /\ tree[j] # {}}

\* Mutant: the half that stays free is looked for a size too far.
SplitTooFar(i, j, off) ==
    [k \in Indexes |->
       IF k = j THEN tree[k] \ {off}
       ELSE IF i <= k /\ k < j THEN tree[k] \cup {off + Size[k + 1]}
       ELSE tree[k]]

\* Buddy::getFromList: chunk off of size j is split down to size i, the upper
\* half of each size on the way stays free.
Split(i, j, off) ==
    [k \in Indexes |->
       IF k = j THEN tree[k] \ {off}
       ELSE IF i <= k /\ k < j THEN tree[k] \cup {off + Size[k]}
       ELSE tree[k]]

\* Free chunks of size i in the chunk of twice that size around off.
Mates(i, off) == {b \in tree[i] : Masked(b, i + 1) = Masked(off, i + 1)}

\* Mutant: a chunk is merged with its buddy once at most.
PutToListOnce(i, off) ==
    IF i < MaxIndex /\ Mates(i, off) # {}
    THEN [tree EXCEPT ![i] = @ \ Mates(i, off), ![i + 1] = @ \cup {Masked(off, i + 1)}]
    ELSE [tree EXCEPT ![i] = @ \cup {off}]

\* The index up to which a chunk can be merged.
Top(i, off) == Least({k \in i..MaxIndex : k = MaxIndex \/ Mates(k, off) = {}})

\* Buddy::putToList: a chunk is merged with its free buddy, size after size.
PutToList(i, off) ==
    LET top == Top(i, off)
    IN  [k \in Indexes |->
           IF k = top THEN tree[k] \cup {Masked(off, k)}
           ELSE IF i <= k /\ k < top THEN tree[k] \ Mates(k, off)
           ELSE tree[k]]

-------------------------------------------------------------------------------
(* Mode::createIOBuffer and destroyIOBuffer.                                 *)

\* Buddy::get finds a chunk, and the buffer has the chunk's size.
CreateAsync(n) ==
    /\ Enough(Index(n)) # {}
    /\ LET j == Least(Enough(Index(n)))
       IN  \E off \in tree[j] :
             /\ tree' = Split(Index(n), j, off)
             /\ pinned' = pinned \cup {[addr |-> off, index |-> Index(n), asked |-> n]}
    /\ UNCHANGED pageable

\* Buddy::get returns NULL: the buffer is taken from malloc().
CreatePageable(n) ==
    /\ Enough(Index(n)) = {}
    /\ n \notin pageable /\ Cardinality(pageable) < MaxPageable
    /\ pageable' = pageable \cup {n}
    /\ UNCHANGED <<tree, pinned>>

DestroyAsync(b) ==
    /\ b \in pinned
    /\ tree' = PutToList(b.index, b.addr)
    /\ pinned' = pinned \ {b}
    /\ UNCHANGED pageable

DestroyPageable(n) ==
    /\ n \in pageable
    /\ pageable' = pageable \ {n}
    /\ UNCHANGED <<tree, pinned>>

Next ==
    \/ \E n \in Requests : CreateAsync(n) \/ CreatePageable(n) \/ DestroyPageable(n)
    \/ \E b \in pinned : DestroyAsync(b)

Spec == Init /\ [][Next]_vars

-------------------------------------------------------------------------------
(* Properties.                                                               *)

Contract == INSTANCE BufferPool WITH
    MaxIndex <- MaxIndex, MaxPageable <- MaxPageable, pinned <- pinned, pageable <- pageable

(* Buffers in use are big enough and share no byte, and a buffer is taken    *)
(* from pageable memory only if no aligned range of pinned memory is left:   *)
(* neither splitting nor merging loses or lends twice a byte, whatever the   *)
(* order in which buffers of different sizes come and go.                    *)
KeepsContract == Contract!Spec

\* The bytes of a chunk of index i.
Chunk(i, off) == off..off + Size[i] - 1

Used == UNION {Chunk(b.index, b.addr) : b \in pinned}

Unused(i, off) == Chunk(i, off) \cap Used = {}

\* A chunk that is unused and no half of a bigger one that is.
Maximal(i, off) ==
    /\ off = Masked(off, i)
    /\ Unused(i, off)
    /\ i < MaxIndex => ~Unused(i + 1, Masked(off, i + 1))

(* Free memory is kept in chunks that are as big as they can be, and every   *)
(* byte is in exactly one of them or in one buffer: no two buddies are free, *)
(* and the memory is one chunk again once all buffers are destroyed.         *)
FreeChunksMaximal ==
    \A i \in Indexes : tree[i] = {off \in Offsets : Maximal(i, off)}

===============================================================================
