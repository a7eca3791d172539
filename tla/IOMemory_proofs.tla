---------------------------- MODULE IOMemory_proofs ----------------------------
(***************************************************************************)
(* Proofs about the buddy allocator, for a piece of pinned memory of any   *)
(* size and buffers that come and go in any order: free memory is always   *)
(* in chunks as big as they can be, and those who create buffers get what  *)
(* BufferPool promises.                                                    *)
(***************************************************************************)
EXTENDS IOMemory, Facts

-------------------------------------------------------------------------------
(* Sizes of chunks.                                                          *)

SizesUpTo(n, f) == f = [i \in 0..n |-> IF i = 0 THEN 1 ELSE 2 * f[i - 1]]

(* There are as many sizes as one asks for.                                  *)
LEMMA SizesExist == \A n \in Nat : \E f : SizesUpTo(n, f)
<1> DEFINE T == {n \in Nat : ~\E f : SizesUpTo(n, f)}
<1> SUFFICES ASSUME T # {} PROVE FALSE
  OBVIOUS
<1>1. PICK n \in T : \A m \in T : n <= m
  BY HasLeast
<1>2. CASE n = 0
  <2>1. SizesUpTo(0, [i \in 0..0 |-> 1])
    BY DEF SizesUpTo
  <2> QED BY <1>2, <2>1
<1>3. CASE n > 0
  <2>1. n - 1 \in Nat /\ n - 1 \notin T
    BY <1>1, <1>3
  <2>2. PICK f : SizesUpTo(n - 1, f)
    BY <2>1
  <2> DEFINE g == [i \in 0..n |-> IF i = n THEN 2 * f[n - 1] ELSE f[i]]
  <2>3. ASSUME NEW i \in 0..n
        PROVE  g[i] = IF i = 0 THEN 1 ELSE 2 * g[i - 1]
    <3>1. CASE i = n
      BY <1>1, <1>3, <3>1
    <3>2. CASE i # n
      <4>1. i \in 0..(n - 1)
        BY <1>1, <3>2
      <4>2. f[i] = IF i = 0 THEN 1 ELSE 2 * f[i - 1]
        BY <2>2, <4>1 DEF SizesUpTo
      <4> QED BY <1>1, <3>2, <4>2
    <3> QED BY <3>1, <3>2
  <2>4. SizesUpTo(n, g)
    BY <2>3 DEF SizesUpTo
  <2> QED BY <2>4
<1> QED BY <1>1, <1>2, <1>3

LEMMA SizeEquation == SizesUpTo(MaxIndex + 1, Size)
<1>1. Size = CHOOSE f : SizesUpTo(MaxIndex + 1, f)
  BY DEF Size, SizesUpTo
<1>2. \E f : SizesUpTo(MaxIndex + 1, f)
  BY SizesExist, MaxIndexAssumption
<1> QED BY <1>1, <1>2

LEMMA SizeFacts ==
    /\ MaxIndex \in Nat /\ Indexes = 0..MaxIndex
    /\ Size[0] = 1
    /\ \A i \in 0..MaxIndex : Size[i + 1] = 2 * Size[i]
    /\ \A i \in 0..MaxIndex + 1 : Size[i] \in Nat \ {0}
<1>1. /\ Size[0] = 1
      /\ \A i \in 1..MaxIndex + 1 : Size[i] = 2 * Size[i - 1]
  BY SizeEquation, MaxIndexAssumption DEF SizesUpTo
<1>2. \A i \in 0..MaxIndex : Size[i + 1] = 2 * Size[i]
  <2>1. ASSUME NEW i \in 0..MaxIndex
        PROVE  i + 1 \in 1..MaxIndex + 1 /\ (i + 1) - 1 = i
    BY MaxIndexAssumption
  <2> QED BY <1>1, <2>1
<1>3. ASSUME {i \in 0..MaxIndex + 1 : Size[i] \notin Nat \ {0}} # {}
      PROVE  FALSE
  <2>1. PICK i \in 0..MaxIndex + 1 :
          /\ Size[i] \notin Nat \ {0}
          /\ \A j \in 0..MaxIndex + 1 : Size[j] \notin Nat \ {0} => i <= j
    <3> DEFINE T == {i \in 0..MaxIndex + 1 : Size[i] \notin Nat \ {0}}
    <3>1. T \subseteq Nat /\ T # {}
      BY <1>3
    <3>2. PICK i \in T : \A j \in T : i <= j
      BY <3>1, HasLeast
    <3> QED BY <3>2
  <2>2. i # 0
    BY <1>1, <2>1
  <2>3. i - 1 \in 0..MaxIndex + 1 /\ i \in 1..MaxIndex + 1 /\ ~(i <= i - 1)
    BY <2>2, MaxIndexAssumption
  <2>4. Size[i - 1] \in Nat \ {0}
    BY <2>1, <2>3
  <2>5. Size[i] = 2 * Size[i - 1]
    BY <1>1, <2>3
  <2> QED BY <2>1, <2>4, <2>5
<1> QED BY <1>1, <1>2, <1>3, MaxIndexAssumption DEF Indexes

-------------------------------------------------------------------------------
(* Multiples.                                                                *)

LEMMA MaskedFacts ==
    ASSUME NEW off \in Nat, NEW k \in 0..MaxIndex + 1
    PROVE  /\ Masked(off, k) \in Nat
           /\ Masked(off, k) <= off /\ off < Masked(off, k) + Size[k]
           /\ Masked(off, k) = Size[k] * (off \div Size[k])
           /\ off \div Size[k] \in Nat
<1>1. PICK s \in Nat \ {0} : s = Size[k]
  BY SizeFacts
<1>2. /\ off \div s \in Nat /\ off % s \in 0..s - 1
      /\ off = s * (off \div s) + (off % s)
  BY DivisionFacts
<1>3. PICK q \in Nat, r \in 0..s - 1 : q = off \div s /\ r = off % s
  BY <1>2
<1>4. PICK p \in Nat : p = s * q
  OBVIOUS
<1>5. off = p + r
  BY <1>2, <1>3, <1>4
<1>6. off - r = p /\ p <= off /\ off < p + s
  BY <1>5
<1> QED BY <1>1, <1>3, <1>4, <1>6 DEF Masked

(* A number that is in the range of a multiple is masked to it.              *)
LEMMA MaskedTo ==
    ASSUME NEW k \in 0..MaxIndex + 1, NEW q \in Nat, NEW off \in Nat,
           Size[k] * q <= off, off < Size[k] * q + Size[k]
    PROVE  Masked(off, k) = Size[k] * q
<1>1. PICK s \in Nat \ {0} : s = Size[k]
  BY SizeFacts
<1>2. PICK p \in Nat : p = s * q
  OBVIOUS
<1>3. PICK r \in 0..s - 1 : r = off - p
  BY <1>1, <1>2
<1>4. off = q * s + r
  BY <1>2, <1>3
<1>5. off % s = r
  BY <1>4, RemainderFacts
<1> QED BY <1>1, <1>2, <1>3, <1>5 DEF Masked

LEMMA MaskedUnique ==
    ASSUME NEW k \in 0..MaxIndex + 1, NEW a \in Nat, a = Masked(a, k), NEW off \in Nat,
           a <= off, off < a + Size[k]
    PROVE  Masked(off, k) = a
<1>1. PICK q \in Nat : a = Size[k] * q
  BY MaskedFacts
<1> QED BY <1>1, MaskedTo

LEMMA MaskedTwice ==
    ASSUME NEW k \in 0..MaxIndex + 1, NEW off \in Nat
    PROVE  Masked(Masked(off, k), k) = Masked(off, k)
<1>1. PICK q \in Nat : Masked(off, k) = Size[k] * q
  BY MaskedFacts
<1>2. PICK p \in Nat, s \in Nat \ {0} : p = Masked(off, k) /\ s = Size[k]
  BY MaskedFacts, SizeFacts
<1>3. Size[k] * q <= p /\ p < Size[k] * q + Size[k]
  BY <1>1, <1>2
<1> QED BY <1>1, <1>2, <1>3, MaskedTo

(* The two halves of a range begin at multiples of their size.               *)
LEMMA Halves ==
    ASSUME NEW k \in 0..MaxIndex, NEW a \in Nat, a = Masked(a, k + 1)
    PROVE  Masked(a, k) = a /\ Masked(a + Size[k], k) = a + Size[k]
<1>1. /\ k + 1 \in 0..MaxIndex + 1 /\ k \in 0..MaxIndex + 1
  BY SizeFacts
<1>2. PICK s \in Nat \ {0} : s = Size[k] /\ Size[k + 1] = 2 * s
  BY <1>1, SizeFacts
<1>3. PICK q \in Nat : a = Size[k + 1] * q
  BY <1>1, MaskedFacts
<1>4. PICK e \in Nat : e = 2 * q
  OBVIOUS
<1>5. a = s * e /\ a + s = s * (e + 1)
  BY <1>2, <1>3, <1>4
<1>6. Masked(a, k) = s * e
  <2>1. Size[k] * e <= a /\ a < Size[k] * e + Size[k]
    BY <1>2, <1>5
  <2> QED BY <1>1, <1>2, <2>1, MaskedTo
<1>7. Masked(a + s, k) = s * (e + 1)
  <2>1. Size[k] * (e + 1) <= a + s /\ a + s < Size[k] * (e + 1) + Size[k]
    BY <1>2, <1>5
  <2>2. a + s \in Nat /\ e + 1 \in Nat
    OBVIOUS
  <2> QED BY <1>1, <1>2, <2>1, <2>2, MaskedTo
<1> QED BY <1>2, <1>5, <1>6, <1>7

(* The range of a size around an offset is a half of the next bigger one.    *)
LEMMA HalfOf ==
    ASSUME NEW k \in 0..MaxIndex, NEW off \in Nat
    PROVE  /\ Masked(off, k) \in {Masked(off, k + 1), Masked(off, k + 1) + Size[k]}
           /\ Masked(Masked(off, k + 1), k) = Masked(off, k + 1)
           /\ Masked(Masked(off, k + 1) + Size[k], k) = Masked(off, k + 1) + Size[k]
<1>1. k + 1 \in 0..MaxIndex + 1 /\ k \in 0..MaxIndex + 1
  BY SizeFacts
<1>2. PICK p \in Nat : /\ p = Masked(off, k + 1) /\ p = Masked(p, k + 1)
                       /\ p <= off /\ off < p + Size[k + 1]
  BY <1>1, MaskedFacts, MaskedTwice
<1>3. PICK s \in Nat \ {0} : s = Size[k] /\ Size[k + 1] = 2 * s
  BY <1>1, SizeFacts
<1>4. Masked(p, k) = p /\ Masked(p + s, k) = p + s
  BY <1>2, <1>3, Halves
<1>5. CASE off < p + s
  BY <1>1, <1>2, <1>3, <1>4, <1>5, MaskedUnique
<1>6. CASE off >= p + s
  <2>1. p + s \in Nat /\ p + s <= off /\ off < (p + s) + Size[k]
    BY <1>2, <1>3, <1>6
  <2>2. Masked(off, k) = p + s
    BY <1>1, <1>4, <2>1, MaskedUnique
  <2> QED BY <1>2, <1>3, <1>4, <2>2
<1> QED BY <1>2, <1>5, <1>6, <1>3

Inside(i, off, k) ==
    /\ Masked(off, k) <= Masked(off, i)
    /\ Masked(off, i) + Size[i] <= Masked(off, k) + Size[k]
    /\ \A a \in Nat : a = Masked(a, k) => Masked(a, i) = a

(* The range around an offset is inside all the bigger ones around it.       *)
LEMMA Nested ==
    ASSUME NEW i \in 0..MaxIndex + 1, NEW k \in i..MaxIndex + 1, NEW off \in Nat
    PROVE  /\ Masked(off, k) <= Masked(off, i)
           /\ Masked(off, i) + Size[i] <= Masked(off, k) + Size[k]
           /\ Masked(Masked(off, k), i) = Masked(off, k)
<1>1. k \in 0..MaxIndex + 1 /\ MaxIndex \in Nat
  BY SizeFacts
<1>2. ASSUME ~Inside(i, off, k)
      PROVE  FALSE
  <2>1. PICK j \in i..MaxIndex + 1 :
          ~Inside(i, off, j) /\ \A l \in i..MaxIndex + 1 : ~Inside(i, off, l) => j <= l
    <3> DEFINE T == {j \in i..MaxIndex + 1 : ~Inside(i, off, j)}
    <3>1. T \subseteq Nat /\ T # {}
      BY <1>2
    <3>2. PICK j \in T : \A l \in T : j <= l
      BY <3>1, HasLeast
    <3> QED BY <3>2
  <2>2. j # i
    <3>1. PICK a \in Nat, n \in Nat : a = Masked(off, i) /\ n = Size[i]
      BY MaskedFacts, SizeFacts
    <3>2. Inside(i, off, i)
      BY <3>1 DEF Inside
    <3> QED BY <2>1, <3>2
  <2>3. PICK h \in i..MaxIndex : j = h + 1 /\ h \in 0..MaxIndex
    BY <1>1, <2>1, <2>2
  <2>4. Inside(i, off, h)
    <3>1. h \in i..MaxIndex + 1 /\ ~(j <= h)
      BY <1>1, <2>3
    <3> QED BY <2>1, <3>1
  <2>5. PICK s \in Nat \ {0} : s = Size[h] /\ Size[j] = 2 * s
    <3>1. Size[h] \in Nat \ {0} /\ Size[h + 1] = 2 * Size[h]
      BY <2>3, SizeFacts
    <3> QED BY <2>3, <3>1
  <2>6. PICK p \in Nat, q \in Nat, a \in Nat, n \in Nat :
          p = Masked(off, j) /\ q = Masked(off, h) /\ a = Masked(off, i) /\ n = Size[i]
    <3>1. j \in 0..MaxIndex + 1 /\ h \in 0..MaxIndex + 1
      BY <1>1, <2>3
    <3>2. /\ Masked(off, j) \in Nat /\ Masked(off, h) \in Nat /\ Masked(off, i) \in Nat
          /\ Size[i] \in Nat
      BY <3>1, MaskedFacts, SizeFacts
    <3> QED BY <3>2
  <2>7. q = p \/ q = p + s
    BY <2>3, <2>5, <2>6, HalfOf
  <2>8. q <= a /\ a + n <= q + s
    BY <2>4, <2>5, <2>6 DEF Inside
  <2>9. p <= a /\ a + n <= p + 2 * s
    BY <2>7, <2>8
  <2>10. ASSUME NEW b \in Nat, b = Masked(b, j)
         PROVE  Masked(b, i) = b
    <3>1. b = Masked(b, h)
      BY <2>3, <2>10, Halves
    <3> QED BY <2>4, <3>1 DEF Inside
  <2>11. Inside(i, off, j)
    BY <2>5, <2>6, <2>9, <2>10 DEF Inside
  <2> QED BY <2>1, <2>11
<1>3. Inside(i, off, k)
  BY <1>2
<1>4. Masked(off, k) \in Nat /\ Masked(off, k) = Masked(Masked(off, k), k)
  BY <1>1, MaskedFacts, MaskedTwice
<1> QED BY <1>3, <1>4 DEF Inside

(* The range around an offset is the same for all offsets of a smaller range.*)
LEMMA MaskedThrough ==
    ASSUME NEW i \in 0..MaxIndex + 1, NEW k \in i..MaxIndex + 1, NEW off \in Nat
    PROVE  Masked(Masked(off, i), k) = Masked(off, k)
<1>1. k \in 0..MaxIndex + 1 /\ MaxIndex \in Nat
  BY SizeFacts
<1>2. PICK p \in Nat, a \in Nat, n \in Nat \ {0}, m \in Nat :
        p = Masked(off, k) /\ a = Masked(off, i) /\ n = Size[i] /\ m = Size[k]
  BY <1>1, MaskedFacts, SizeFacts
<1>3. p = Masked(p, k)
  BY <1>1, <1>2, MaskedTwice
<1>4. p <= a /\ a + n <= p + m
  BY <1>2, Nested
<1>5. p <= a /\ a < p + Size[k]
  BY <1>2, <1>4
<1> QED BY <1>1, <1>2, <1>3, <1>5, MaskedUnique

-------------------------------------------------------------------------------
(* Chunks.                                                                   *)

LEMMA ChunkOf ==
    ASSUME NEW i \in Indexes, NEW a \in Nat, a = Masked(a, i), NEW x \in Chunk(i, a)
    PROVE  x \in Nat /\ Masked(x, i) = a
<1>1. i \in 0..MaxIndex + 1
  BY SizeFacts
<1>2. PICK s \in Nat \ {0} : s = Size[i]
  BY <1>1, SizeFacts
<1>3. x \in Nat /\ a <= x /\ x < a + s
  BY <1>2 DEF Chunk
<1> QED BY <1>1, <1>2, <1>3, MaskedUnique

LEMMA ChunkAround ==
    ASSUME NEW i \in Indexes, NEW x \in Nat
    PROVE  /\ Masked(x, i) \in Nat /\ Masked(Masked(x, i), i) = Masked(x, i)
           /\ x \in Chunk(i, Masked(x, i))
<1>1. i \in 0..MaxIndex + 1
  BY SizeFacts
<1>2. PICK p \in Nat, s \in Nat \ {0} : p = Masked(x, i) /\ s = Size[i]
  BY <1>1, MaskedFacts, SizeFacts
<1>3. p <= x /\ x < p + s
  BY <1>1, <1>2, MaskedFacts
<1>4. x \in p..p + s - 1
  BY <1>3
<1> QED BY <1>1, <1>2, <1>4, MaskedTwice DEF Chunk

(* Of two chunks one is inside the other, or they share no byte.             *)
LEMMA Laminar ==
    ASSUME NEW i \in Indexes, NEW k \in Indexes, i <= k,
           NEW a \in Nat, a = Masked(a, i), NEW p \in Nat, p = Masked(p, k)
    PROVE  /\ p = Masked(a, k) => Chunk(i, a) \subseteq Chunk(k, p)
           /\ p # Masked(a, k) => Chunk(i, a) \cap Chunk(k, p) = {}
<1>1. i \in 0..MaxIndex + 1 /\ k \in i..MaxIndex + 1
  BY SizeFacts
<1>2. ASSUME NEW x \in Chunk(i, a)
      PROVE  x \in Nat /\ Masked(x, k) = Masked(a, k)
  BY <1>1, <1>2, ChunkOf, MaskedThrough
<1>3. ASSUME p = Masked(a, k), NEW x \in Chunk(i, a)
      PROVE  x \in Chunk(k, p)
  BY <1>2, <1>3, ChunkAround
<1>4. ASSUME p # Masked(a, k), NEW x \in Chunk(i, a), x \in Chunk(k, p)
      PROVE  FALSE
  BY <1>2, <1>4, ChunkOf
<1> QED BY <1>3, <1>4

LEMMA ChunkBegin ==
    ASSUME NEW i \in Indexes, NEW a \in Nat
    PROVE  a \in Chunk(i, a)
<1>1. PICK s \in Nat \ {0} : s = Size[i]
  BY SizeFacts
<1>2. a \in a..a + s - 1
  BY <1>1
<1> QED BY <1>1, <1>2 DEF Chunk

LEMMA MaskedToZero ==
    ASSUME NEW x \in Nat, NEW k \in 0..MaxIndex + 1, x < Size[k]
    PROVE  Masked(x, k) = 0
<1>1. PICK m \in Nat \ {0} : m = Size[k]
  BY SizeFacts
<1>2. m * 0 = 0 /\ 0 <= x /\ x < 0 + m
  BY <1>1
<1> QED BY <1>1, <1>2, MaskedTo

(* All chunks are in the piece, and the biggest one is the piece.            *)
LEMMA InPiece ==
    ASSUME NEW i \in Indexes, NEW off \in Offsets
    PROVE  /\ off \in Nat /\ Masked(off, i) \in Offsets
           /\ Chunk(i, Masked(off, i)) \subseteq Offsets
           /\ Masked(off, MaxIndex) = 0 /\ Masked(0, i) = 0
<1>1. i \in 0..MaxIndex + 1 /\ MaxIndex \in Nat /\ MaxIndex \in i..MaxIndex + 1
      /\ MaxIndex \in 0..MaxIndex + 1
  BY SizeFacts
<1>2. PICK s \in Nat \ {0}, n \in Nat \ {0} : s = Size[i] /\ n = Size[MaxIndex]
  BY <1>1, SizeFacts
<1>3. off \in Nat /\ off < n /\ Offsets = 0..n - 1
  BY <1>2 DEF Offsets
<1>4. Masked(off, MaxIndex) = 0 /\ Masked(0, i) = 0
  <2>1. 0 < Size[i]
    BY <1>2
  <2> QED BY <1>1, <1>2, <1>3, <2>1, MaskedToZero
<1>5. PICK a \in Nat : a = Masked(off, i)
  BY <1>1, <1>3, MaskedFacts
<1>6. a + s <= n
  BY <1>1, <1>2, <1>3, <1>4, <1>5, Nested
<1>7. a \in 0..n - 1 /\ a..a + s - 1 \subseteq 0..n - 1
  BY <1>6
<1> QED BY <1>2, <1>3, <1>4, <1>5, <1>7 DEF Chunk

LEMMA LeastFacts ==
    ASSUME NEW T, T \subseteq Nat, T # {}
    PROVE  Least(T) \in T /\ \A j \in T : Least(T) <= j
BY HasLeast DEF Least

LEMMA IndexFacts ==
    ASSUME NEW n \in Requests
    PROVE  /\ Index(n) \in 0..MaxIndex + 1 /\ n <= Size[Index(n)]
           /\ \A j \in 0..MaxIndex + 1 : n <= Size[j] => Index(n) <= j
<1> DEFINE T == {i \in 0..MaxIndex + 1 : n <= Size[i]}
<1>1. MaxIndex + 1 \in T /\ T \subseteq Nat
  BY SizeFacts DEF Requests
<1>2. Index(n) = Least(T)
  BY DEF Index
<1>3. Least(T) \in T /\ \A j \in T : Least(T) <= j
  BY <1>1, LeastFacts
<1> QED BY <1>2, <1>3

-------------------------------------------------------------------------------
(* The inductive invariant: the buffers in use are where their sizes put     *)
(* them and share no byte, and the free chunks are what they leave.          *)

ChunkOfBuffer(b) == Chunk(b.index, b.addr)

BuffersApart ==
    /\ \A b \in pinned : b.addr = Masked(b.addr, b.index) /\ b.index = Index(b.asked)
    /\ \A b \in pinned, c \in pinned : b # c => ChunkOfBuffer(b) \cap ChunkOfBuffer(c) = {}

IInv == TypeOK /\ BuffersApart /\ FreeChunksMaximal

LEMMA UsedChunks == Used = UNION {ChunkOfBuffer(b) : b \in pinned}
BY DEF Used, ChunkOfBuffer

LEMMA FreeChunk ==
    ASSUME FreeChunksMaximal, NEW i \in Indexes, NEW a
    PROVE  a \in tree[i] <=> a \in Offsets /\ Maximal(i, a)
BY DEF FreeChunksMaximal

(* What is inside an unused chunk is unused.                                 *)
LEMMA UnusedInside ==
    ASSUME NEW i \in Indexes, NEW k \in Indexes, i <= k, NEW a \in Nat, a = Masked(a, i),
           Unused(k, Masked(a, k))
    PROVE  Unused(i, a)
<1>1. Masked(a, k) \in Nat /\ Masked(Masked(a, k), k) = Masked(a, k)
  BY ChunkAround
<1>2. Chunk(i, a) \subseteq Chunk(k, Masked(a, k))
  BY <1>1, Laminar
<1> QED BY <1>2 DEF Unused

(* Where an aligned range is unused there is a free chunk as big at least.   *)
LEMMA FreeAround ==
    ASSUME FreeChunksMaximal, NEW i \in Indexes, NEW a \in Offsets, a = Masked(a, i),
           Unused(i, a)
    PROVE  \E k \in i..MaxIndex : Masked(a, k) \in tree[k]
<1> DEFINE T == {k \in i..MaxIndex : k = MaxIndex \/ ~Unused(k + 1, Masked(a, k + 1))}
<1>1. MaxIndex \in T /\ T \subseteq Nat /\ MaxIndex \in Nat
  BY SizeFacts
<1>2. PICK k \in T : \A j \in T : k <= j
  BY <1>1, HasLeast
<1>3. k \in i..MaxIndex /\ k \in Indexes /\ a \in Nat
  BY SizeFacts, InPiece
<1>4. Unused(k, Masked(a, k))
  <2>1. CASE k = i
    BY <2>1
  <2>2. CASE k # i
    <3>1. PICK j \in i..MaxIndex : k = j + 1 /\ ~(k <= j)
      BY <1>1, <1>3, <2>2
    <3>2. j \notin T
      BY <1>2, <3>1
    <3> QED BY <3>1, <3>2
  <2> QED BY <2>1, <2>2
<1>5. Maximal(k, Masked(a, k))
  <2>1. Masked(Masked(a, k), k) = Masked(a, k)
    BY <1>3, ChunkAround
  <2>2. k < MaxIndex => ~Unused(k + 1, Masked(a, k + 1))
    BY <1>1, <1>3
  <2>3. k \in 0..MaxIndex + 1 /\ k + 1 \in k..MaxIndex + 1
    BY <1>1, <1>3, SizeFacts
  <2>4. Masked(Masked(a, k), k + 1) = Masked(a, k + 1)
    BY <1>3, <2>3, MaskedThrough
  <2> QED BY <1>4, <2>1, <2>2, <2>4 DEF Maximal
<1> QED BY <1>3, <1>5, FreeChunk, InPiece

-------------------------------------------------------------------------------
(* getFromList: chunk off of index j is split down to index i.               *)

Splits(i, j, off) ==
    /\ off \in tree[j]
    /\ \A k \in Indexes : i <= k /\ k < j => tree[k] = {}
    /\ tree' = Split(i, j, off)
    /\ Used' = Used \cup Chunk(i, off)

LEMMA SplitChunk ==
    ASSUME FreeChunksMaximal, NEW j \in Indexes, NEW off \in tree[j], NEW k \in Indexes
    PROVE  /\ off \in Offsets /\ off \in Nat /\ off = Masked(off, j) /\ Unused(j, off)
           /\ k <= j => off = Masked(off, k) /\ Chunk(k, off) \subseteq Chunk(j, off)
           /\ k > j => ~Unused(k, Masked(off, k))
<1>1. off \in Offsets /\ off \in Nat /\ off = Masked(off, j) /\ Unused(j, off) /\ Maximal(j, off)
  BY FreeChunk, InPiece DEF Maximal
<1>2. ASSUME k <= j
      PROVE  off = Masked(off, k) /\ Chunk(k, off) \subseteq Chunk(j, off)
  <2>1. k \in 0..MaxIndex + 1 /\ j \in k..MaxIndex + 1
    BY <1>2, SizeFacts
  <2>2. off = Masked(off, k)
    BY <1>1, <2>1, Nested
  <2> QED BY <1>1, <1>2, <2>2, Laminar
<1>3. ASSUME k > j, Unused(k, Masked(off, k))
      PROVE  FALSE
  <2>1. j < MaxIndex /\ j + 1 \in Indexes /\ j + 1 <= k
    BY <1>3, SizeFacts
  <2>2. ~Unused(j + 1, Masked(off, j + 1))
    BY <1>1, <2>1 DEF Maximal
  <2>3. /\ Masked(off, j + 1) \in Nat
        /\ Masked(Masked(off, j + 1), j + 1) = Masked(off, j + 1)
    BY <1>1, <2>1, ChunkAround
  <2>4. Masked(Masked(off, j + 1), k) = Masked(off, k)
    <3>1. j + 1 \in 0..MaxIndex + 1 /\ k \in j + 1..MaxIndex + 1
      BY <2>1, SizeFacts
    <3> QED BY <1>1, <3>1, MaskedThrough
  <2> QED BY <1>3, <2>1, <2>2, <2>3, <2>4, UnusedInside
<1> QED BY <1>1, <1>2, <1>3

(* What the new buffer leaves unused.                                        *)
LEMMA SplitUnused ==
    ASSUME FreeChunksMaximal, NEW i \in Indexes, NEW j \in Indexes, i <= j, NEW off,
           Splits(i, j, off), NEW k \in Indexes, NEW a \in Nat, a = Masked(a, k)
    PROVE  /\ k > j => (Unused(k, a)' <=> Unused(k, a))
           /\ i <= k /\ k <= j => (Unused(k, a)' <=> Unused(k, a) /\ a # off)
           /\ k <= i => (Unused(k, a)' <=> Unused(k, a) /\ Masked(a, i) # off)
<1>1. Unused(k, a)' <=> Unused(k, a) /\ Chunk(k, a) \cap Chunk(i, off) = {}
  BY DEF Unused, Splits
<1>2. off \in tree[j]
  BY DEF Splits
<1>3. off \in Chunk(i, off) /\ a \in Chunk(k, a)
  BY <1>2, ChunkBegin, SplitChunk
<1>4. ASSUME k > j
      PROVE  Unused(k, a)' <=> Unused(k, a)
  <2>1. ~Unused(k, Masked(off, k))
    BY <1>2, <1>4, SplitChunk
  <2>2. CASE a = Masked(off, k)
    BY <1>1, <2>1, <2>2
  <2>3. CASE a # Masked(off, k)
    <3>1. i <= k
      BY <1>4, SizeFacts
    <3>2. off \in Nat /\ off = Masked(off, i)
      BY <1>2, SplitChunk
    <3> QED BY <1>1, <2>3, <3>1, <3>2, Laminar
  <2> QED BY <2>2, <2>3
<1>5. ASSUME i <= k, k <= j
      PROVE  Unused(k, a)' <=> Unused(k, a) /\ a # off
  <2>1. off \in Nat /\ off = Masked(off, i) /\ off = Masked(off, k)
    BY <1>2, <1>5, SplitChunk
  <2>2. a # off => Chunk(i, off) \cap Chunk(k, a) = {}
    BY <1>5, <2>1, Laminar
  <2> QED BY <1>1, <1>3, <2>2
<1>6. ASSUME k <= i
      PROVE  Unused(k, a)' <=> Unused(k, a) /\ Masked(a, i) # off
  <2>1. off \in Nat /\ off = Masked(off, i)
    BY <1>2, SplitChunk
  <2>2. /\ off = Masked(a, i) => Chunk(k, a) \subseteq Chunk(i, off)
        /\ off # Masked(a, i) => Chunk(k, a) \cap Chunk(i, off) = {}
    BY <1>6, <2>1, Laminar
  <2> QED BY <1>1, <1>3, <2>2
<1> QED BY <1>4, <1>5, <1>6

(* The chunk around a chunk of index k, for the index after k.               *)
LEMMA Around ==
    ASSUME NEW k \in Indexes, k < MaxIndex, NEW a \in Offsets, a = Masked(a, k)
    PROVE  /\ k + 1 \in Indexes /\ a \in Nat /\ Size[k] \in Nat \ {0}
           /\ Masked(a, k + 1) \in Offsets /\ Masked(a, k + 1) \in Nat
           /\ Masked(a, k + 1) = Masked(Masked(a, k + 1), k + 1)
           /\ a = Masked(a, k + 1) \/ a = Masked(a, k + 1) + Size[k]
<1>1. k + 1 \in Indexes /\ k \in 0..MaxIndex /\ k \in 0..MaxIndex + 1
  BY SizeFacts
<1> QED BY <1>1, SizeFacts, InPiece, ChunkAround, HalfOf

LEMMA SplitKeepsMaximal ==
    ASSUME FreeChunksMaximal, NEW i \in Indexes, NEW j \in Indexes, i <= j, NEW off,
           Splits(i, j, off)
    PROVE  FreeChunksMaximal'
<1>1. /\ off \in tree[j] /\ off \in Offsets /\ off \in Nat /\ Unused(j, off)
      /\ off = Masked(off, i) /\ off = Masked(off, j)
  BY SplitChunk DEF Splits
<1>2. ASSUME NEW k \in Indexes, NEW a \in Offsets, a = Masked(a, k)
      PROVE  a \in tree'[k] <=> Maximal(k, a)'
  <2>1. a \in tree[k] <=> Maximal(k, a)
    BY FreeChunk
  <2> DEFINE p == Masked(a, k + 1)
  <2>2. /\ Maximal(k, a) <=> Unused(k, a) /\ (k < MaxIndex => ~Unused(k + 1, p))
        /\ Maximal(k, a)' <=> Unused(k, a)' /\ (k < MaxIndex => ~Unused(k + 1, p)')
    BY <1>2 DEF Maximal
  <2>3. k < MaxIndex => k + 1 \in Indexes /\ p \in Nat /\ p = Masked(p, k + 1)
    BY <1>2, Around
  <2>4. a \in Nat /\ i \in Nat /\ j \in Nat /\ k \in Nat /\ MaxIndex \in Nat
        /\ k <= MaxIndex /\ j <= MaxIndex
    BY InPiece, SizeFacts
  <2> HIDE DEF p
  <2>5. CASE k > j
    <3>1. Unused(k, a)' <=> Unused(k, a)
      BY <1>2, <2>4, <2>5, SplitUnused
    <3>2. k < MaxIndex => (Unused(k + 1, p)' <=> Unused(k + 1, p))
      <4>1. k + 1 > j
        BY <2>4, <2>5
      <4> QED BY <2>3, <4>1, SplitUnused
    <3>3. tree'[k] = tree[k]
      BY <2>4, <2>5 DEF Splits, Split
    <3> QED BY <2>1, <2>2, <3>1, <3>2, <3>3
  <2>6. CASE k = j
    <3>1. Unused(k, a)' <=> Unused(k, a) /\ a # off
      BY <1>2, <2>4, <2>6, SplitUnused
    <3>2. k < MaxIndex => (Unused(k + 1, p)' <=> Unused(k + 1, p))
      <4>1. k + 1 > j
        BY <2>4, <2>6
      <4> QED BY <2>3, <4>1, SplitUnused
    <3>3. tree'[k] = tree[k] \ {off}
      BY <2>6 DEF Splits, Split
    <3> QED BY <2>1, <2>2, <3>1, <3>2, <3>3
  <2>7. CASE i <= k /\ k < j
    <3>1. Unused(k, a)' <=> Unused(k, a) /\ a # off
      BY <1>2, <2>4, <2>7, SplitUnused
    <3>2. Unused(k + 1, p)' <=> Unused(k + 1, p) /\ p # off
      <4>1. i <= k + 1 /\ k + 1 <= j /\ k < MaxIndex
        BY <2>4, <2>7
      <4> QED BY <2>3, <4>1, SplitUnused
    <3>3. tree[k] = {} /\ tree'[k] = {off + Size[k]}
      <4>1. tree[k] = {}
        BY <2>7 DEF Splits
      <4>2. tree'[k] = tree[k] \cup {off + Size[k]}
        BY <2>4, <2>7 DEF Splits, Split
      <4> QED BY <4>1, <4>2
    <3>4. k < MaxIndex
      BY <2>4, <2>7
    <3>5. a = p \/ a = p + Size[k]
      BY <1>2, <3>4, Around DEF p
    <3>6. p = off => Unused(k, a)
      <4>1. k + 1 \in Indexes /\ k + 1 <= j
        BY <2>3, <2>4, <2>7, <3>4
      <4>2. Unused(k + 1, off)
        BY <1>1, <4>1, SplitChunk DEF Unused
      <4>3. k <= k + 1
        BY <2>4
      <4> QED BY <1>2, <2>4, <4>1, <4>2, <4>3, UnusedInside DEF p
    <3>7. a = off + Size[k] <=> p = off /\ a # off
      <4>1. Size[k] \in Nat \ {0}
        BY SizeFacts
      <4>2. ASSUME a = off + Size[k]
            PROVE  p = off
        <5>1. off = Masked(off, k + 1)
          <6>1. k + 1 \in Indexes /\ k + 1 <= j
            BY <2>3, <2>4, <2>7, <3>4
          <6> QED BY <1>1, <6>1, SplitChunk
        <5>2. off <= a /\ a < off + Size[k + 1]
          <6>1. Size[k + 1] = 2 * Size[k]
            BY <2>4, <3>4, SizeFacts
          <6> QED BY <1>1, <4>1, <4>2, <6>1
        <5>3. k + 1 \in 0..MaxIndex + 1
          BY <2>4, <3>4
        <5> QED BY <1>1, <2>4, <5>1, <5>2, <5>3, MaskedUnique DEF p
      <4>3. a = off + Size[k] => a # off
        BY <1>1, <4>1
      <4> QED BY <3>5, <4>2, <4>3
    <3> QED BY <2>1, <2>2, <3>1, <3>2, <3>3, <3>4, <3>6, <3>7
  <2>8. CASE k < i
    <3>1. Unused(k, a)' <=> Unused(k, a) /\ Masked(a, i) # off
      BY <1>2, <2>4, <2>8, SplitUnused
    <3>2. k < MaxIndex /\ k + 1 <= i
      BY <2>4, <2>8
    <3>3. Masked(p, i) = Masked(a, i)
      <4>1. k + 1 \in 0..MaxIndex + 1 /\ i \in k + 1..MaxIndex + 1
        BY <2>4, <3>2
      <4> QED BY <2>4, <4>1, MaskedThrough DEF p
    <3>4. Unused(k + 1, p)' <=> Unused(k + 1, p) /\ Masked(a, i) # off
      BY <2>3, <3>2, <3>3, SplitUnused
    <3>5. Masked(a, i) = off => Unused(k + 1, p)
      <4>1. Unused(i, off)
        BY <1>1, SplitChunk DEF Unused
      <4> QED BY <2>3, <3>2, <3>3, <4>1, UnusedInside
    <3>6. tree'[k] = tree[k]
      BY <2>4, <2>8 DEF Splits, Split
    <3> QED BY <2>1, <2>2, <3>1, <3>2, <3>4, <3>5, <3>6
  <2> QED BY <2>4, <2>5, <2>6, <2>7, <2>8
<1>3. ASSUME NEW k \in Indexes, NEW a \in tree'[k]
      PROVE  a \in Offsets /\ a = Masked(a, k)
  <2>1. CASE a \in tree[k]
    BY <2>1, FreeChunk DEF Maximal
  <2>2. CASE a \notin tree[k]
    <3>1. i <= k /\ k < j /\ a = off + Size[k]
      BY <1>3, <2>2 DEF Splits, Split
    <3>2. /\ k \in 0..MaxIndex /\ k + 1 \in Indexes /\ k + 1 <= j /\ k < MaxIndex
          /\ Size[k] \in Nat \ {0} /\ Size[k + 1] = 2 * Size[k]
      <4>1. /\ k \in 0..MaxIndex /\ j \in 0..MaxIndex /\ k < j /\ MaxIndex \in Nat
        BY <3>1, SizeFacts
      <4>2. k \in 0..MaxIndex + 1 /\ k + 1 \in 0..MaxIndex /\ k + 1 <= j /\ k < MaxIndex
        BY <4>1
      <4> QED BY <4>1, <4>2, SizeFacts
    <3>3. off = Masked(off, k + 1) /\ Chunk(k + 1, off) \subseteq Offsets
      BY <1>1, <3>2, SplitChunk, InPiece
    <3>4. a = Masked(a, k)
      BY <1>1, <3>1, <3>2, <3>3, Halves
    <3>5. a \in Chunk(k + 1, off)
      <4>1. PICK s \in Nat \ {0} : s = Size[k]
        BY <3>2
      <4>2. off + s \in off..off + 2 * s - 1
        BY <1>1
      <4> QED BY <3>1, <3>2, <4>1, <4>2 DEF Chunk
    <3> QED BY <3>3, <3>4, <3>5
  <2> QED BY <2>1, <2>2
<1>4. ASSUME NEW k \in Indexes, NEW a
      PROVE  a \in tree'[k] <=> a \in Offsets /\ Maximal(k, a)'
  <2>1. Maximal(k, a)' => a = Masked(a, k)
    BY DEF Maximal
  <2> QED BY <1>2, <1>3, <2>1
<1> QED BY <1>4 DEF FreeChunksMaximal

-------------------------------------------------------------------------------
(* putToList: chunk off of index i is merged with its free buddies.          *)

\* The other half of the chunk of index k + 1 around off.
Buddy(k, off) ==
    IF Masked(off, k) = Masked(off, k + 1) THEN Masked(off, k + 1) + Size[k]
    ELSE Masked(off, k + 1)

LEMMA BuddyFacts ==
    ASSUME NEW k \in Indexes, k < MaxIndex, NEW off \in Offsets
    PROVE  /\ Buddy(k, off) \in Offsets /\ Buddy(k, off) = Masked(Buddy(k, off), k)
           /\ Buddy(k, off) # Masked(off, k)
           /\ Masked(Buddy(k, off), k + 1) = Masked(off, k + 1)
           /\ \A a \in Offsets : a = Masked(a, k) /\ Masked(a, k + 1) = Masked(off, k + 1)
                                   => a \in {Masked(off, k), Buddy(k, off)}
           /\ Chunk(k + 1, Masked(off, k + 1)) =
                 Chunk(k, Masked(off, k)) \cup Chunk(k, Buddy(k, off))
<1>1. /\ k \in 0..MaxIndex /\ k + 1 \in Indexes /\ k + 1 \in 0..MaxIndex + 1
      /\ k \in 0..MaxIndex + 1 /\ off \in Nat
  BY SizeFacts, InPiece
<1>2. PICK p \in Nat : /\ p = Masked(off, k + 1) /\ p = Masked(p, k + 1)
                       /\ Chunk(k + 1, p) \subseteq Offsets
  BY <1>1, ChunkAround, InPiece
<1>3. PICK s \in Nat \ {0} : s = Size[k] /\ Size[k + 1] = 2 * s
  BY <1>1, SizeFacts
<1>4. /\ Masked(off, k) \in {p, p + s}
      /\ Masked(p, k) = p /\ Masked(p + s, k) = p + s
  BY <1>1, <1>2, <1>3, HalfOf
<1>5. Buddy(k, off) \in {p, p + s} /\ {Masked(off, k), Buddy(k, off)} = {p, p + s}
      /\ Buddy(k, off) # Masked(off, k)
  BY <1>2, <1>3, <1>4 DEF Buddy
<1>6. Chunk(k + 1, p) = Chunk(k, p) \cup Chunk(k, p + s)
  <2>1. p..p + 2 * s - 1 = p..p + s - 1 \cup (p + s)..(p + s) + s - 1
    OBVIOUS
  <2> QED BY <1>3, <2>1 DEF Chunk
<1>7. p \in Offsets /\ p + s \in Offsets /\ Masked(p + s, k + 1) = p
  <2>1. p \in p..p + 2 * s - 1 /\ p + s \in p..p + 2 * s - 1 /\ p + s \in Nat
        /\ p <= p + s /\ p + s < p + 2 * s
    OBVIOUS
  <2>2. p \in Offsets /\ p + s \in Offsets
    BY <1>2, <1>3, <2>1 DEF Chunk
  <2> QED BY <1>1, <1>2, <1>3, <2>1, <2>2, MaskedUnique
<1>8. ASSUME NEW a \in Offsets, a = Masked(a, k), Masked(a, k + 1) = p
      PROVE  a \in {p, p + s}
  BY <1>3, <1>8, Around
<1>9. Chunk(k + 1, p) = Chunk(k, Masked(off, k)) \cup Chunk(k, Buddy(k, off))
  BY <1>5, <1>6
<1>10. Buddy(k, off) \in Offsets /\ Buddy(k, off) = Masked(Buddy(k, off), k)
       /\ Masked(Buddy(k, off), k + 1) = p
  BY <1>2, <1>4, <1>5, <1>7
<1> QED BY <1>2, <1>5, <1>8, <1>9, <1>10

Returns(i, off) ==
    /\ off \in Offsets /\ off = Masked(off, i)
    /\ Chunk(i, off) \subseteq Used
    /\ tree' = PutToList(i, off)
    /\ Used' = Used \ Chunk(i, off)

(* What the buffer that is gone has left unused.                             *)
LEMMA ReturnUnused ==
    ASSUME NEW i \in Indexes, NEW off, Returns(i, off),
           NEW k \in Indexes, NEW a \in Offsets, a = Masked(a, k)
    PROVE  /\ i <= k /\ a = Masked(off, k) => ~Unused(k, a)
           /\ i <= k /\ a # Masked(off, k) => (Unused(k, a)' <=> Unused(k, a))
           /\ k <= i /\ Masked(a, i) # off => (Unused(k, a)' <=> Unused(k, a))
           /\ k <= i /\ Masked(a, i) = off => Unused(k, a)' /\ ~Unused(k, a)
<1>1. /\ off \in Offsets /\ off \in Nat /\ off = Masked(off, i) /\ a \in Nat
      /\ Chunk(i, off) \subseteq Used /\ Used' = Used \ Chunk(i, off)
      /\ off \in Chunk(i, off) /\ a \in Chunk(k, a)
  BY InPiece, ChunkBegin DEF Returns
<1>2. ASSUME i <= k
      PROVE  /\ a = Masked(off, k) => ~Unused(k, a)
             /\ a # Masked(off, k) => (Unused(k, a)' <=> Unused(k, a))
  <2>1. /\ a = Masked(off, k) => Chunk(i, off) \subseteq Chunk(k, a)
        /\ a # Masked(off, k) => Chunk(i, off) \cap Chunk(k, a) = {}
    BY <1>1, <1>2, Laminar
  <2> QED BY <1>1, <2>1 DEF Unused
<1>3. ASSUME k <= i
      PROVE  /\ Masked(a, i) # off => (Unused(k, a)' <=> Unused(k, a))
             /\ Masked(a, i) = off => Unused(k, a)' /\ ~Unused(k, a)
  <2>1. /\ off = Masked(a, i) => Chunk(k, a) \subseteq Chunk(i, off)
        /\ off # Masked(a, i) => Chunk(k, a) \cap Chunk(i, off) = {}
    BY <1>1, <1>3, Laminar
  <2> QED BY <1>1, <2>1 DEF Unused
<1> QED BY <1>2, <1>3

(* A chunk has a mate exactly if the other half of the next bigger one is    *)
(* unused, and that half is the mate.                                        *)
LEMMA MatesFacts ==
    ASSUME FreeChunksMaximal, NEW i \in Indexes, NEW off, Returns(i, off),
           NEW k \in Indexes, i <= k, k < MaxIndex
    PROVE  /\ Mates(k, off) \subseteq {Buddy(k, off)}
           /\ Mates(k, off) # {} <=> Unused(k, Buddy(k, off))
           /\ Unused(k + 1, Masked(off, k + 1))'
                <=> Unused(k, Masked(off, k))' /\ Mates(k, off) # {}
<1>1. off \in Offsets /\ k + 1 \in Indexes /\ i <= k + 1
  BY SizeFacts DEF Returns
<1>2. PICK b \in Offsets :
        /\ b = Buddy(k, off) /\ b = Masked(b, k) /\ b # Masked(off, k)
        /\ Masked(b, k + 1) = Masked(off, k + 1)
        /\ \A a \in Offsets : a = Masked(a, k) /\ Masked(a, k + 1) = Masked(off, k + 1)
                                => a \in {Masked(off, k), b}
        /\ Chunk(k + 1, Masked(off, k + 1)) = Chunk(k, Masked(off, k)) \cup Chunk(k, b)
  BY <1>1, BuddyFacts
<1>3. /\ Masked(off, k) \in Offsets /\ Masked(off, k) = Masked(Masked(off, k), k)
      /\ Masked(off, k + 1) \in Offsets
      /\ Masked(off, k + 1) = Masked(Masked(off, k + 1), k + 1)
  BY <1>1, InPiece, ChunkAround
<1>4. ~Unused(k, Masked(off, k)) /\ ~Unused(k + 1, Masked(off, k + 1))
  BY <1>1, <1>3, ReturnUnused
<1>5. ASSUME NEW a \in Mates(k, off)
      PROVE  a = b
  <2>1. a \in tree[k] /\ Masked(a, k + 1) = Masked(off, k + 1)
    BY <1>5 DEF Mates
  <2>2. a \in Offsets /\ a = Masked(a, k) /\ Unused(k, a)
    BY <2>1, FreeChunk DEF Maximal
  <2> QED BY <1>2, <1>4, <2>1, <2>2
<1>6. b \in tree[k] <=> Unused(k, b)
  <2>1. b \in tree[k] <=> Maximal(k, b)
    BY FreeChunk
  <2> QED BY <1>2, <1>4, <2>1 DEF Maximal
<1>7. Mates(k, off) # {} <=> Unused(k, b)
  BY <1>2, <1>5, <1>6 DEF Mates
<1>8. Unused(k, b)' <=> Unused(k, b)
  BY <1>2, ReturnUnused
<1>9. Unused(k + 1, Masked(off, k + 1))' <=> Unused(k, Masked(off, k))' /\ Unused(k, b)'
  BY <1>2 DEF Unused
<1> QED BY <1>2, <1>5, <1>7, <1>8, <1>9

(* The merged chunks are unused, and the next bigger one is not.             *)
LEMMA TopFacts ==
    ASSUME FreeChunksMaximal, NEW i \in Indexes, NEW off, Returns(i, off)
    PROVE  \E top \in i..MaxIndex :
             /\ top = Top(i, off)
             /\ \A k \in i..top : Unused(k, Masked(off, k))'
             /\ top < MaxIndex => ~Unused(top + 1, Masked(off, top + 1))'
<1> DEFINE T == {k \in i..MaxIndex : k = MaxIndex \/ Mates(k, off) = {}}
<1>1. /\ i \in 0..MaxIndex /\ MaxIndex \in Nat /\ Indexes = 0..MaxIndex
      /\ off \in Offsets /\ off \in Nat /\ off = Masked(off, i)
  BY SizeFacts, InPiece DEF Returns
<1>2. PICK top \in i..MaxIndex :
        /\ top = Top(i, off)
        /\ top < MaxIndex => Mates(top, off) = {}
        /\ \A k \in i..MaxIndex : k < top => Mates(k, off) # {}
  <2>1. T \subseteq Nat /\ MaxIndex \in T
    BY <1>1
  <2>2. Least(T) \in T /\ \A j \in T : Least(T) <= j
    BY <2>1, LeastFacts
  <2>3. Top(i, off) = Least(T)
    BY DEF Top
  <2> HIDE DEF T
  <2>4. PICK top \in T : top = Top(i, off) /\ \A j \in T : top <= j
    BY <2>2, <2>3
  <2>5. ASSUME NEW k \in i..MaxIndex, k < top
        PROVE  Mates(k, off) # {}
    BY <1>1, <2>4, <2>5 DEF T
  <2> QED BY <1>1, <2>4, <2>5 DEF T
<1>3. ASSUME {k \in i..top : ~Unused(k, Masked(off, k))'} # {}
      PROVE  FALSE
  <2> DEFINE U == {k \in i..top : ~Unused(k, Masked(off, k))'}
  <2>1. U \subseteq Nat
    BY <1>1
  <2>2. PICK k \in U : \A j \in U : k <= j
    BY <1>3, <2>1, HasLeast
  <2>3. k # i
    BY <1>1, <2>2, ReturnUnused
  <2>4. PICK j \in i..MaxIndex : k = j + 1 /\ j < top /\ j \in i..top /\ ~(k <= j)
    BY <1>1, <2>2, <2>3
  <2>5. Unused(j, Masked(off, j))'
    BY <2>2, <2>4
  <2>6. Mates(j, off) # {}
    BY <1>2, <2>4
  <2>7. j \in Indexes /\ i <= j /\ j < MaxIndex
    BY <1>1, <1>2, <2>4
  <2>8. Unused(j + 1, Masked(off, j + 1))'
    BY <2>5, <2>6, <2>7, MatesFacts
  <2> QED BY <2>2, <2>4, <2>8
<1>4. ASSUME top < MaxIndex
      PROVE  ~Unused(top + 1, Masked(off, top + 1))'
  <2>1. top \in Indexes /\ i <= top
    BY <1>1, <1>2
  <2> QED BY <1>2, <1>4, <2>1, MatesFacts
<1> QED BY <1>2, <1>3, <1>4

LEMMA ReturnKeepsMaximal ==
    ASSUME FreeChunksMaximal, NEW i \in Indexes, NEW off, Returns(i, off)
    PROVE  FreeChunksMaximal'
<1>1. /\ i \in 0..MaxIndex /\ MaxIndex \in Nat /\ Indexes = 0..MaxIndex
      /\ off \in Offsets /\ off \in Nat /\ off = Masked(off, i)
  BY SizeFacts, InPiece DEF Returns
<1>2. PICK top \in i..MaxIndex :
        /\ \A k \in i..top : Unused(k, Masked(off, k))'
        /\ top < MaxIndex => ~Unused(top + 1, Masked(off, top + 1))'
        /\ tree' = [k \in Indexes |->
                      IF k = top THEN tree[k] \cup {Masked(off, k)}
                      ELSE IF i <= k /\ k < top THEN tree[k] \ Mates(k, off)
                      ELSE tree[k]]
  <2>1. tree' = PutToList(i, off)
    BY DEF Returns
  <2>2. PICK top \in i..MaxIndex :
          /\ top = Top(i, off)
          /\ \A k \in i..top : Unused(k, Masked(off, k))'
          /\ top < MaxIndex => ~Unused(top + 1, Masked(off, top + 1))'
    BY TopFacts
  <2>3. tree' = [k \in Indexes |->
                   IF k = top THEN tree[k] \cup {Masked(off, k)}
                   ELSE IF i <= k /\ k < top THEN tree[k] \ Mates(k, off)
                   ELSE tree[k]]
    BY <2>1, <2>2 DEF PutToList
  <2> QED BY <2>2, <2>3
<1>3. ASSUME NEW k \in Indexes, k > top
      PROVE  ~Unused(k, Masked(off, k))'
  <2>1. /\ top + 1 \in Indexes /\ top + 1 <= k /\ top < MaxIndex
        /\ top + 1 \in 0..MaxIndex + 1 /\ k \in top + 1..MaxIndex + 1
    BY <1>1, <1>2, <1>3
  <2>2. /\ Masked(off, top + 1) \in Nat
        /\ Masked(off, top + 1) = Masked(Masked(off, top + 1), top + 1)
        /\ Masked(off, k) \in Nat /\ Masked(off, k) = Masked(Masked(off, k), k)
    BY <1>1, <2>1, ChunkAround
  <2>3. Masked(Masked(off, top + 1), k) = Masked(off, k)
    BY <1>1, <2>1, MaskedThrough
  <2>4. Chunk(top + 1, Masked(off, top + 1)) \subseteq Chunk(k, Masked(off, k))
    BY <2>1, <2>2, <2>3, Laminar
  <2>5. ~Unused(top + 1, Masked(off, top + 1))'
    BY <1>2, <2>1
  <2> QED BY <2>4, <2>5 DEF Unused
<1>4. ASSUME NEW k \in Indexes, NEW a \in Offsets, a = Masked(a, k)
      PROVE  a \in tree'[k] <=> Maximal(k, a)'
  <2> DEFINE p == Masked(a, k + 1)
             m == Masked(off, k)
             n == Masked(off, k + 1)
  <2>1. a \in tree[k] <=> Maximal(k, a)
    BY FreeChunk
  <2>2. /\ Maximal(k, a) <=> Unused(k, a) /\ (k < MaxIndex => ~Unused(k + 1, p))
        /\ Maximal(k, a)' <=> Unused(k, a)' /\ (k < MaxIndex => ~Unused(k + 1, p)')
    BY <1>4 DEF Maximal
  <2>3. k < MaxIndex => /\ k + 1 \in Indexes /\ p \in Offsets /\ p = Masked(p, k + 1)
    BY <1>4, Around
  <2>4. /\ a \in Nat /\ k \in 0..MaxIndex
        /\ m \in Offsets /\ m = Masked(m, k)
    BY <1>1, InPiece, ChunkAround
  <2>5. a = m => p = n
    <3>1. k \in 0..MaxIndex + 1 /\ k + 1 \in k..MaxIndex + 1
      BY <1>1, <2>4
    <3> QED BY <1>1, <3>1, MaskedThrough
  <2>6. /\ i <= k /\ a = m => ~Unused(k, a)
        /\ i <= k /\ a # m => (Unused(k, a)' <=> Unused(k, a))
        /\ k <= i /\ Masked(a, i) # off => (Unused(k, a)' <=> Unused(k, a))
        /\ k <= i /\ Masked(a, i) = off => Unused(k, a)' /\ ~Unused(k, a)
    BY <1>4, ReturnUnused
  <2>7. k < MaxIndex =>
          /\ i <= k + 1 /\ p = n => ~Unused(k + 1, p)
          /\ i <= k + 1 /\ p # n => (Unused(k + 1, p)' <=> Unused(k + 1, p))
          /\ k + 1 <= i /\ Masked(p, i) # off => (Unused(k + 1, p)' <=> Unused(k + 1, p))
          /\ k + 1 <= i /\ Masked(p, i) = off => Unused(k + 1, p)' /\ ~Unused(k + 1, p)
    BY <2>3, ReturnUnused
  <2> HIDE DEF p, m, n
  <2>8. CASE k < i
    <3>1. k < MaxIndex /\ k + 1 <= i /\ k <= i /\ k # top
      BY <1>1, <1>2, <2>4, <2>8
    <3>2. Masked(p, i) = Masked(a, i)
      <4>1. k + 1 \in 0..MaxIndex + 1 /\ i \in k + 1..MaxIndex + 1
        BY <1>1, <2>4, <3>1
      <4> QED BY <2>4, <4>1, MaskedThrough DEF p
    <3>3. tree'[k] = tree[k]
      BY <1>1, <1>2, <2>4, <2>8, <3>1
    <3> QED BY <2>1, <2>2, <2>6, <2>7, <3>1, <3>2, <3>3
  <2>9. CASE i <= k /\ k < top
    <3>1. k < MaxIndex /\ k \in i..top /\ k + 1 \in i..top /\ i <= k + 1 /\ k # top
      BY <1>1, <1>2, <2>4, <2>9
    <3>2. tree'[k] = tree[k] \ Mates(k, off)
      BY <1>2, <2>9, <3>1
    <3>3. p = n => Unused(k + 1, p)'
      BY <1>2, <3>1 DEF n
    <3>4. a \in Mates(k, off) <=> a \in tree[k] /\ p = n
      BY DEF Mates, p, n
    <3> QED BY <2>1, <2>2, <2>5, <2>6, <2>7, <2>9, <3>1, <3>2, <3>3, <3>4
  <2>10. CASE k = top
    <3>1. i <= k /\ k \in i..top /\ tree'[k] = tree[k] \cup {m}
      BY <1>1, <1>2, <2>10 DEF m
    <3>2. Unused(k, m)' /\ (k < MaxIndex => ~Unused(k + 1, n)')
      BY <1>2, <2>10, <3>1 DEF m, n
    <3>3. k < MaxIndex => i <= k + 1
      BY <1>1, <3>1, <2>4
    <3>4. CASE a = m
      BY <2>2, <2>5, <3>1, <3>2, <3>4
    <3>5. CASE a # m
      <4>1. k < MaxIndex => (Unused(k + 1, p)' <=> Unused(k + 1, p))
        BY <2>7, <3>2, <3>3
      <4>2. Unused(k, a)' <=> Unused(k, a)
        BY <2>6, <3>1, <3>5
      <4> QED BY <2>1, <2>2, <3>1, <3>5, <4>1, <4>2
    <3> QED BY <3>4, <3>5
  <2>11. CASE k > top
    <3>1. i <= k /\ ~(k < top) /\ k # top
      BY <1>1, <1>2, <2>4, <2>11
    <3>2. tree'[k] = tree[k]
      BY <1>2, <3>1
    <3>3. Unused(k, a)' <=> Unused(k, a)
      BY <1>3, <2>6, <2>11, <3>1 DEF m
    <3>4. k < MaxIndex => (Unused(k + 1, p)' <=> Unused(k + 1, p))
      <4>1. ASSUME k < MaxIndex
            PROVE  i <= k + 1 /\ k + 1 > top /\ k + 1 \in Indexes
        BY <1>1, <1>2, <2>3, <2>4, <2>11, <3>1, <4>1
      <4>2. k < MaxIndex => ~Unused(k + 1, n)'
        BY <1>3, <4>1 DEF n
      <4> QED BY <2>7, <4>1, <4>2
    <3> QED BY <2>1, <2>2, <3>2, <3>3, <3>4
  <2> QED BY <1>1, <1>2, <2>4, <2>8, <2>9, <2>10, <2>11
<1>5. ASSUME NEW k \in Indexes, NEW a \in tree'[k]
      PROVE  a \in Offsets /\ a = Masked(a, k)
  <2>1. CASE a \in tree[k]
    BY <2>1, FreeChunk DEF Maximal
  <2>2. CASE a \notin tree[k]
    <3>1. a = Masked(off, k)
      BY <1>2, <1>5, <2>2
    <3> QED BY <1>1, <3>1, InPiece, ChunkAround
  <2> QED BY <2>1, <2>2
<1>6. ASSUME NEW k \in Indexes, NEW a
      PROVE  a \in tree'[k] <=> a \in Offsets /\ Maximal(k, a)'
  <2>1. Maximal(k, a)' => a = Masked(a, k)
    BY DEF Maximal
  <2> QED BY <1>4, <1>5, <2>1
<1> QED BY <1>6 DEF FreeChunksMaximal

-------------------------------------------------------------------------------
(* The invariant is inductive.                                               *)

(* Without buffers the piece is one chunk.                                   *)
LEMMA NothingUsed ==
    ASSUME pinned = {}
    PROVE  FreeChunksMaximal <=> \A i \in Indexes : tree[i] = Whole[i]
<1>1. \A i, a : Unused(i, a)
  BY DEF Unused, Used
<1>2. MaxIndex \in Nat /\ MaxIndex \in Indexes /\ Indexes = 0..MaxIndex
  BY SizeFacts
<1>3. 0 \in Offsets
  <2>1. PICK n \in Nat \ {0} : n = Size[MaxIndex]
    BY <1>2, SizeFacts
  <2> QED BY <2>1 DEF Offsets
<1>4. ASSUME NEW i \in Indexes
      PROVE  {off \in Offsets : Maximal(i, off)} = Whole[i]
  <2>1. CASE i = MaxIndex
    <3>1. ASSUME NEW off \in Offsets
          PROVE  Maximal(i, off) <=> off = 0
      BY <1>1, <1>2, <2>1, InPiece DEF Maximal
    <3> QED BY <1>3, <2>1, <3>1 DEF Whole
  <2>2. CASE i # MaxIndex
    <3>1. i < MaxIndex
      BY <1>2, <2>2
    <3> QED BY <1>1, <2>2, <3>1 DEF Maximal, Whole
  <2> QED BY <2>1, <2>2
<1> QED BY <1>4 DEF FreeChunksMaximal

LEMMA InvariantInit == Init => IInv
<1> SUFFICES ASSUME Init PROVE IInv
  OBVIOUS
<1>1. FreeChunksMaximal
  BY NothingUsed DEF Init
<1>2. BuffersApart
  BY DEF Init, BuffersApart
<1>3. tree \in [Indexes -> SUBSET Offsets]
  <2>1. \A i \in Indexes : tree[i] \subseteq Offsets
    BY <1>1 DEF FreeChunksMaximal
  <2> QED BY <2>1 DEF Init, Whole
<1> QED BY <1>1, <1>2, <1>3 DEF Init, IInv, TypeOK

(* Every buffer has a chunk of its own in the piece.                         *)
LEMMA BufferFacts ==
    ASSUME IInv, NEW b \in pinned
    PROVE  /\ b.addr \in Offsets /\ b.addr \in Nat /\ b.index \in Indexes /\ b.asked \in Requests
           /\ b.addr = Masked(b.addr, b.index) /\ b.index = Index(b.asked)
           /\ ChunkOfBuffer(b) \subseteq Used
BY InPiece, UsedChunks DEF IInv, TypeOK, BuffersApart

LEMMA CreatedChunk ==
    ASSUME IInv, NEW n \in Requests, CreateAsync(n)
    PROVE  \E off \in Offsets, i \in Indexes, j \in Indexes :
             /\ i = Index(n) /\ i <= j /\ off \in Nat
             /\ pinned' = pinned \cup {[addr |-> off, index |-> i, asked |-> n]}
             /\ tree' = Split(i, j, off)
             /\ Splits(i, j, off)
             /\ off = Masked(off, i) /\ Unused(i, off)
<1>1. /\ FreeChunksMaximal /\ Enough(Index(n)) # {} /\ Index(n) \in 0..MaxIndex + 1
      /\ Indexes = 0..MaxIndex /\ MaxIndex \in Nat
  BY IndexFacts, SizeFacts DEF IInv, CreateAsync
<1>2. PICK j \in Enough(Index(n)) :
        /\ j = Least(Enough(Index(n)))
        /\ \A k \in Enough(Index(n)) : j <= k
  <2>1. Enough(Index(n)) \subseteq Nat
    BY <1>1 DEF Enough
  <2> QED BY <1>1, <2>1, LeastFacts
<1>3. PICK i \in Indexes : i = Index(n) /\ i <= j /\ j \in Indexes
  <2>1. j \in Indexes /\ j >= Index(n)
    BY <1>2 DEF Enough
  <2>2. PICK m \in 0..MaxIndex + 1 : m = Index(n)
    BY <1>1
  <2>3. m \in 0..MaxIndex /\ m <= j
    BY <1>1, <2>1, <2>2
  <2> QED BY <1>1, <2>1, <2>2, <2>3
<1>4. PICK off \in tree[j] :
        /\ tree' = Split(i, j, off)
        /\ pinned' = pinned \cup {[addr |-> off, index |-> i, asked |-> n]}
  BY <1>2, <1>3 DEF CreateAsync
<1>5. ASSUME NEW k \in Indexes, i <= k, k < j
      PROVE  tree[k] = {}
  <2>1. k \notin Enough(Index(n))
    BY <1>1, <1>2, <1>3, <1>5
  <2> QED BY <1>1, <1>3, <1>5, <2>1 DEF Enough
<1>6. Used' = Used \cup Chunk(i, off)
  <2> DEFINE b == [addr |-> off, index |-> i, asked |-> n]
  <2>1. pinned' = pinned \cup {b} /\ b.addr = off /\ b.index = i
    BY <1>4
  <2> HIDE DEF b
  <2>2. Used' = Used \cup Chunk(b.index, b.addr)
    BY <2>1 DEF Used
  <2> QED BY <2>1, <2>2
<1>7. Splits(i, j, off)
  BY <1>4, <1>5, <1>6 DEF Splits
<1>8. /\ off \in Offsets /\ off \in Nat /\ off = Masked(off, i) /\ Unused(j, off)
      /\ Chunk(i, off) \subseteq Chunk(j, off)
  BY <1>1, <1>3, SplitChunk
<1>9. Unused(i, off)
  BY <1>8 DEF Unused
<1> QED BY <1>3, <1>4, <1>7, <1>8, <1>9

LEMMA CreateStep ==
    ASSUME IInv, NEW n \in Requests, CreateAsync(n)
    PROVE  IInv'
<1>1. PICK off \in Offsets, i \in Indexes, j \in Indexes :
        /\ i = Index(n) /\ i <= j /\ off \in Nat
        /\ pinned' = pinned \cup {[addr |-> off, index |-> i, asked |-> n]}
        /\ tree' = Split(i, j, off)
        /\ Splits(i, j, off)
        /\ off = Masked(off, i) /\ Unused(i, off)
  BY CreatedChunk
<1>2. FreeChunksMaximal'
  BY <1>1, SplitKeepsMaximal DEF IInv
<1> DEFINE b == [addr |-> off, index |-> i, asked |-> n]
<1>3. pinned' = pinned \cup {b} /\ b.addr = off /\ b.index = i /\ b.asked = n
      /\ b \in [addr : Offsets, index : Indexes, asked : Requests]
  BY <1>1
<1> HIDE DEF b
<1>4. \A c \in pinned : ChunkOfBuffer(c) \cap ChunkOfBuffer(b) = {}
  <2>1. ASSUME NEW c \in pinned
        PROVE  ChunkOfBuffer(c) \cap Chunk(i, off) = {}
    BY <1>1, BufferFacts DEF Unused
  <2> QED BY <1>3, <2>1 DEF ChunkOfBuffer
<1>5. BuffersApart'
  <2>1. ASSUME NEW c \in pinned'
        PROVE  c.addr = Masked(c.addr, c.index) /\ c.index = Index(c.asked)
    BY <1>1, <1>3, BufferFacts
  <2>2. ASSUME NEW c \in pinned', NEW d \in pinned', c # d
        PROVE  ChunkOfBuffer(c) \cap ChunkOfBuffer(d) = {}
    BY <1>3, <1>4, <2>2 DEF IInv, BuffersApart
  <2>3. \A c : ChunkOfBuffer(c)' = ChunkOfBuffer(c)
    BY DEF ChunkOfBuffer
  <2> QED BY <2>1, <2>2, <2>3 DEF BuffersApart
<1>6. TypeOK'
  <2>1. tree' \in [Indexes -> SUBSET Offsets]
    <3>1. \A k \in Indexes : tree'[k] \subseteq Offsets
      BY <1>2 DEF FreeChunksMaximal
    <3>2. tree' = [k \in Indexes |-> tree'[k]]
      BY <1>1 DEF Split
    <3> QED BY <3>1, <3>2
  <2>2. pageable' = pageable
    BY DEF CreateAsync
  <2> QED BY <1>3, <2>1, <2>2 DEF IInv, TypeOK
<1> QED BY <1>2, <1>5, <1>6 DEF IInv

LEMMA DestroyStep ==
    ASSUME IInv, NEW b \in pinned, DestroyAsync(b)
    PROVE  IInv'
<1>1. /\ b.addr \in Offsets /\ b.index \in Indexes /\ b.addr = Masked(b.addr, b.index)
      /\ ChunkOfBuffer(b) \subseteq Used
  BY BufferFacts
<1>2. pinned' = pinned \ {b} /\ pageable' = pageable /\ tree' = PutToList(b.index, b.addr)
  BY DEF DestroyAsync
<1>3. Used' = Used \ ChunkOfBuffer(b)
  <2>1. \A c \in pinned : c # b => ChunkOfBuffer(c) \cap ChunkOfBuffer(b) = {}
    BY DEF IInv, BuffersApart
  <2>2. Used' = UNION {ChunkOfBuffer(c) : c \in pinned \ {b}}
    BY <1>2 DEF Used, ChunkOfBuffer
  <2> QED BY <2>1, <2>2, UsedChunks
<1>4. PICK i \in Indexes, off \in Offsets : i = b.index /\ off = b.addr
  BY <1>1
<1>5. Returns(i, off)
  BY <1>1, <1>2, <1>3, <1>4 DEF Returns, ChunkOfBuffer
<1>6. FreeChunksMaximal'
  BY <1>5, ReturnKeepsMaximal DEF IInv
<1>7. BuffersApart'
  <2>1. \A c : ChunkOfBuffer(c)' = ChunkOfBuffer(c)
    BY DEF ChunkOfBuffer
  <2> QED BY <1>2, <2>1 DEF IInv, BuffersApart
<1>8. TypeOK'
  <2>1. \A k \in Indexes : tree'[k] \subseteq Offsets
    BY <1>6 DEF FreeChunksMaximal
  <2>2. tree' = [k \in Indexes |-> tree'[k]]
    BY <1>2 DEF PutToList
  <2>3. tree' \in [Indexes -> SUBSET Offsets]
    BY <2>1, <2>2
  <2> QED BY <1>2, <2>3 DEF IInv, TypeOK
<1> QED BY <1>6, <1>7, <1>8 DEF IInv

LEMMA StutterStep ==
    ASSUME IInv, UNCHANGED <<tree, pinned>>, pageable' \subseteq Requests
    PROVE  IInv'
<1>1. Used' = Used
  BY DEF Used
<1>2. ASSUME NEW i, NEW a
      PROVE  Maximal(i, a)' <=> Maximal(i, a)
  BY <1>1 DEF Maximal, Unused
<1>3. FreeChunksMaximal'
  BY <1>2 DEF IInv, FreeChunksMaximal
<1>4. BuffersApart'
  BY DEF IInv, BuffersApart, ChunkOfBuffer
<1> QED BY <1>3, <1>4 DEF IInv, TypeOK

LEMMA InvariantStep == IInv /\ [Next]_vars => IInv'
<1> SUFFICES ASSUME IInv, [Next]_vars PROVE IInv'
  OBVIOUS
<1>1. pageable \subseteq Requests
  BY DEF IInv, TypeOK
<1>2. ASSUME NEW n \in Requests, CreatePageable(n)
      PROVE  IInv'
  BY <1>1, <1>2, StutterStep DEF CreatePageable
<1>3. ASSUME NEW n \in Requests, DestroyPageable(n)
      PROVE  IInv'
  BY <1>1, <1>3, StutterStep DEF DestroyPageable
<1>4. CASE UNCHANGED vars
  BY <1>1, <1>4, StutterStep DEF vars
<1> QED BY <1>2, <1>3, <1>4, CreateStep, DestroyStep DEF Next

LEMMA InvariantHolds == Spec => []IInv
BY InvariantInit, InvariantStep, PTL DEF Spec

(* Free chunks and buffers are what the code's tree and sets can hold.       *)
THEOREM BuddyTypeCorrect == Spec => []TypeOK
<1>1. IInv => TypeOK
  BY DEF IInv
<1> QED BY <1>1, InvariantHolds, PTL

(* Splitting in getFromList and merging in putToList keep free memory in     *)
(* chunks that are as big as they can be, each byte in one of them or in one *)
(* buffer, in whatever order buffers are created and destroyed.              *)
THEOREM FreeMemoryMaximal == Spec => []FreeChunksMaximal
<1>1. IInv => FreeChunksMaximal
  BY DEF IInv
<1> QED BY <1>1, InvariantHolds, PTL

(* Once all buffers are destroyed the memory is the one chunk Buddy::Buddy   *)
(* makes of it: no sequence of calls leaves it in pieces.                    *)
THEOREM MemoryMerges == Spec => [](pinned = {} => tree = Whole)
<1>1. ASSUME IInv, pinned = {}
      PROVE  tree = Whole
  <2>1. \A i \in Indexes : tree[i] = Whole[i]
    BY <1>1, NothingUsed DEF IInv
  <2>2. tree = [i \in Indexes |-> tree[i]] /\ Whole = [i \in Indexes |-> Whole[i]]
    BY <1>1 DEF IInv, TypeOK, Whole
  <2> QED BY <2>1, <2>2
<1>2. IInv => (pinned = {} => tree = Whole)
  BY <1>1
<1> QED BY <1>2, InvariantHolds, PTL

-------------------------------------------------------------------------------
(* Those who create buffers get what BufferPool promises.                    *)

LEMMA SameSizes ==
    /\ Contract!Size = Size /\ Contract!Indexes = Indexes /\ Contract!Requests = Requests
    /\ 0..Contract!Size[MaxIndex] - 1 = Offsets
<1>1. Contract!Size = Size
  BY DEF Size, Contract!Size
<1> QED BY <1>1 DEF Indexes, Contract!Indexes, Requests, Contract!Requests, Offsets

LEMMA RangeFacts ==
    ASSUME NEW n \in Requests, NEW r
    PROVE  r \in Contract!Ranges(n) <=>
             /\ r \in [addr : Offsets, index : Indexes, asked : {n}]
             /\ r.addr % Size[r.index] = 0
             /\ n <= Size[r.index]
             /\ r.index > 0 => Size[r.index - 1] < n
BY SameSizes DEF Contract!Ranges

(* The ranges of a size for n bytes are the aligned ones of index Index(n).  *)
LEMMA RangeIndex ==
    ASSUME NEW n \in Requests, NEW r \in Contract!Ranges(n)
    PROVE  r.index = Index(n) /\ r.addr \in Offsets /\ r.index \in Indexes
           /\ r.addr = Masked(r.addr, r.index)
<1>1. /\ r \in [addr : Offsets, index : Indexes, asked : {n}]
      /\ r.addr % Size[r.index] = 0
      /\ n <= Size[r.index]
      /\ r.index > 0 => Size[r.index - 1] < n
  BY RangeFacts
<1>2. PICK i \in Indexes, a \in Offsets : i = r.index /\ a = r.addr
  BY <1>1
<1>3. PICK m \in 0..MaxIndex + 1 :
        m = Index(n) /\ n <= Size[m] /\ \A j \in 0..MaxIndex + 1 : n <= Size[j] => m <= j
  BY IndexFacts
<1>4. i \in 0..MaxIndex /\ i \in 0..MaxIndex + 1 /\ MaxIndex \in Nat /\ a \in Nat /\ n \in Nat
  <2>1. Size[MaxIndex + 1] \in Nat
    BY SizeFacts
  <2> QED BY <1>2, <2>1, SizeFacts, InPiece DEF Requests
<1>5. m <= i
  BY <1>1, <1>2, <1>3, <1>4
<1>6. ASSUME m < i
      PROVE  FALSE
  <2>1. /\ m \in 0..MaxIndex + 1 /\ i - 1 \in m..MaxIndex + 1 /\ i - 1 \in 0..MaxIndex + 1 /\ i > 0
    BY <1>4, <1>6
  <2>2. Size[m] <= Size[i - 1]
    <3>1. PICK p \in Nat \ {0}, q \in Nat \ {0} : p = Size[m] /\ q = Size[i - 1]
      BY <2>1, SizeFacts
    <3>2. Masked(0, i - 1) = 0 /\ Masked(0, m) = 0
      <4>1. 0 < Size[m] /\ 0 < Size[i - 1]
        BY <3>1
      <4> QED BY <2>1, <4>1, MaskedToZero
    <3>3. Masked(0, m) + Size[m] <= Masked(0, i - 1) + Size[i - 1]
      BY <2>1, Nested
    <3> QED BY <3>1, <3>2, <3>3
  <2>3. Size[i - 1] < n /\ n <= Size[m]
    BY <1>1, <1>2, <1>3, <2>1
  <2>4. PICK p \in Nat, q \in Nat : p = Size[m] /\ q = Size[i - 1]
    BY <2>1, SizeFacts
  <2> QED BY <1>4, <2>2, <2>3, <2>4
<1>7. m = i
  BY <1>3, <1>4, <1>5, <1>6
<1>8. a = Masked(a, i)
  <2>1. a % Size[i] = 0
    BY <1>1, <1>2
  <2> QED BY <1>4, <2>1 DEF Masked
<1> QED BY <1>2, <1>3, <1>7, <1>8

(* Ranges are apart exactly if they share no byte.                           *)
LEMMA ApartFacts ==
    ASSUME NEW r, NEW s, r.index \in Indexes, s.index \in Indexes,
           r.addr \in Nat, s.addr \in Nat
    PROVE  Contract!Apart(r, s) <=> ChunkOfBuffer(r) \cap ChunkOfBuffer(s) = {}
<1>1. PICK a \in Nat, b \in Nat, m \in Nat \ {0}, n \in Nat \ {0} :
        a = r.addr /\ b = s.addr /\ m = Size[r.index] /\ n = Size[s.index]
  <2>1. r.index \in 0..MaxIndex + 1 /\ s.index \in 0..MaxIndex + 1
    BY SizeFacts
  <2>2. Size[r.index] \in Nat \ {0} /\ Size[s.index] \in Nat \ {0}
    BY <2>1, SizeFacts
  <2> QED BY <2>2
<1>2. Contract!Apart(r, s) <=> a + m <= b \/ b + n <= a
  BY <1>1, SameSizes DEF Contract!Apart
<1>3. ChunkOfBuffer(r) = a..a + m - 1 /\ ChunkOfBuffer(s) = b..b + n - 1
  BY <1>1 DEF ChunkOfBuffer, Chunk
<1>4. ASSUME a + m <= b \/ b + n <= a, NEW x \in a..a + m - 1, x \in b..b + n - 1
      PROVE  FALSE
  BY <1>4
<1>5. ASSUME ~(a + m <= b \/ b + n <= a)
      PROVE  \E x \in a..a + m - 1 : x \in b..b + n - 1
  <2>1. CASE a <= b
    <3>1. b \in a..a + m - 1 /\ b \in b..b + n - 1
      BY <1>5, <2>1
    <3> QED BY <3>1
  <2>2. CASE b < a
    <3>1. a \in a..a + m - 1 /\ a \in b..b + n - 1
      BY <1>5, <2>2
    <3> QED BY <3>1
  <2> QED BY <2>1, <2>2
<1> QED BY <1>2, <1>3, <1>4, <1>5

(* A buffer has room for what was asked, in a range nobody has.              *)
LEMMA CreateAsyncKeepsContract ==
    ASSUME IInv, NEW n \in Requests, CreateAsync(n)
    PROVE  Contract!Create(n)
<1>1. PICK off \in Offsets, i \in Indexes :
        /\ i = Index(n) /\ off \in Nat
        /\ pinned' = pinned \cup {[addr |-> off, index |-> i, asked |-> n]}
        /\ off = Masked(off, i) /\ Unused(i, off)
  BY CreatedChunk
<1> DEFINE b == [addr |-> off, index |-> i, asked |-> n]
<1>2. /\ b \in [addr : Offsets, index : Indexes, asked : {n}]
      /\ b.addr = off /\ b.index = i /\ pinned' = pinned \cup {b}
  BY <1>1
<1> HIDE DEF b
<1>3. i \in 0..MaxIndex /\ MaxIndex \in Nat /\ n \in Nat
  <2>1. Size[MaxIndex + 1] \in Nat
    BY SizeFacts
  <2> QED BY <2>1, SizeFacts DEF Requests
<1>4. n <= Size[i] /\ \A j \in 0..MaxIndex + 1 : n <= Size[j] => i <= j
  BY <1>1, IndexFacts
<1>5. off % Size[i] = 0
  <2>1. PICK s \in Nat \ {0} : s = Size[i]
    BY <1>3, SizeFacts
  <2>2. PICK m \in Nat : m = off % s
    BY <1>1, <2>1, DivisionFacts
  <2>3. off = off - m
    BY <1>1, <2>1, <2>2 DEF Masked
  <2> QED BY <1>1, <2>1, <2>2, <2>3
<1>6. ASSUME i > 0
      PROVE  Size[i - 1] < n
  <2>1. i - 1 \in 0..MaxIndex + 1 /\ ~(i <= i - 1)
    BY <1>3, <1>6
  <2>2. ~(n <= Size[i - 1])
    BY <1>4, <2>1
  <2>3. PICK s \in Nat : s = Size[i - 1]
    BY <2>1, SizeFacts
  <2> QED BY <1>3, <2>2, <2>3
<1>7. b \in Contract!Ranges(n)
  BY <1>2, <1>4, <1>5, <1>6, RangeFacts
<1>8. ASSUME NEW s \in pinned
      PROVE  Contract!Apart(b, s)
  <2>1. s.addr \in Nat /\ s.index \in Indexes /\ ChunkOfBuffer(s) \subseteq Used
    BY BufferFacts
  <2>2. ChunkOfBuffer(b) \cap ChunkOfBuffer(s) = {}
    BY <1>1, <1>2, <2>1 DEF ChunkOfBuffer, Unused
  <2> QED BY <1>1, <1>2, <2>1, <2>2, ApartFacts
<1>9. b \in Contract!Room(n)
  BY <1>7, <1>8 DEF Contract!Room
<1>10. pageable' = pageable
  BY DEF CreateAsync
<1> QED BY <1>2, <1>9, <1>10 DEF Contract!Create

(* A range nobody has is in a free chunk from which one of its size can be   *)
(* taken: pageable memory is the last resort.                                *)
LEMMA CreatePageableKeepsContract ==
    ASSUME IInv, NEW n \in Requests, CreatePageable(n)
    PROVE  Contract!Create(n)
<1>1. ASSUME NEW r \in Contract!Room(n)
      PROVE  FALSE
  <2>1. r \in Contract!Ranges(n) /\ \A s \in pinned : Contract!Apart(r, s)
    BY DEF Contract!Room
  <2>2. PICK i \in Indexes, a \in Offsets :
          i = r.index /\ a = r.addr /\ i = Index(n) /\ a = Masked(a, i) /\ a \in Nat
    BY <2>1, RangeIndex, InPiece
  <2>3. ASSUME NEW s \in pinned
        PROVE  Chunk(i, a) \cap ChunkOfBuffer(s) = {}
    <3>1. s.addr \in Nat /\ s.index \in Indexes
      BY BufferFacts
    <3>2. ChunkOfBuffer(r) \cap ChunkOfBuffer(s) = {}
      BY <2>1, <2>2, <3>1, ApartFacts
    <3> QED BY <2>2, <3>2 DEF ChunkOfBuffer
  <2>4. Unused(i, a)
    BY <2>3, UsedChunks DEF Unused
  <2>5. PICK k \in i..MaxIndex : Masked(a, k) \in tree[k]
    BY <2>2, <2>4, FreeAround DEF IInv
  <2>6. k \in Indexes /\ k >= i
    BY <2>5, SizeFacts
  <2>7. k \in Enough(Index(n))
    BY <2>2, <2>5, <2>6 DEF Enough
  <2> QED BY <2>7 DEF CreatePageable
<1>2. Contract!Room(n) = {}
  BY <1>1
<1>3. /\ n \notin pageable /\ Cardinality(pageable) < MaxPageable
      /\ pageable' = pageable \cup {n} /\ pinned' = pinned
  BY DEF CreatePageable
<1>4. Contract!Cardinality(pageable) = Cardinality(pageable)
  BY DEF Cardinality, Contract!Cardinality
<1> QED BY <1>2, <1>3, <1>4 DEF Contract!Create

(* IOMemory implements BufferPool: the buddy allocator under createIOBuffer  *)
(* never lends a byte twice, never gives too little, and gives up only when  *)
(* no aligned range of the size is left.                                     *)
THEOREM BuffersKeepContract == Spec => KeepsContract
<1>1. Init => Contract!Init
  BY DEF Init, Contract!Init
<1>2. ASSUME IInv, [Next]_vars
      PROVE  [Contract!Next]_Contract!vars
  <2>1. ASSUME NEW n \in Requests, CreateAsync(n) \/ CreatePageable(n)
        PROVE  Contract!Next
    <3>1. Contract!Create(n)
      BY <1>2, <2>1, CreateAsyncKeepsContract, CreatePageableKeepsContract
    <3> QED BY <3>1, SameSizes DEF Contract!Next
  <2>2. ASSUME NEW n \in Requests, DestroyPageable(n)
        PROVE  Contract!Next
    BY <2>2 DEF DestroyPageable, Contract!Next, Contract!Destroy
  <2>3. ASSUME NEW b \in pinned, DestroyAsync(b)
        PROVE  Contract!Next
    BY <2>3 DEF DestroyAsync, Contract!Next, Contract!Destroy
  <2>4. CASE UNCHANGED vars
    BY <2>4 DEF vars, Contract!vars
  <2> QED BY <1>2, <2>1, <2>2, <2>3, <2>4 DEF Next
<1> QED BY <1>1, <1>2, InvariantHolds, PTL DEF Spec, KeepsContract, Contract!Spec

================================================================================
