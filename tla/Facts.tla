--------------------------------- MODULE Facts --------------------------------
(***************************************************************************)
(* What several proofs need of numbers, and what the operations of the     *)
(* Dirty Block List do to a list without repetitions: BlockList::push      *)
(* appends, and remove deletes an entry wherever it is                     *)
(* (protocol/common/BlockList-impl.h).                                     *)
(***************************************************************************)
EXTENDS SequencesExt, SequenceTheorems, FiniteSetTheorems, TLAPS

-------------------------------------------------------------------------------
(* Numbers.                                                                  *)

(* Quotient and remainder.                                                   *)
LEMMA DivisionFacts ==
    ASSUME NEW x \in Nat, NEW n \in Nat \ {0}
    PROVE  /\ x \div n \in Nat /\ x % n \in 0 .. n - 1 /\ x \div n <= x
           /\ x = n * (x \div n) + (x % n)
OBVIOUS

LEMMA RemainderFacts ==
    ASSUME NEW q \in Nat, NEW n \in Nat \ {0}, NEW r \in 0 .. n - 1
    PROVE  (q * n + r) \div n = q /\ (q * n + r) % n = r
OBVIOUS

LEMMA MultipleFacts ==
    ASSUME NEW q \in Nat, NEW n \in Nat \ {0}
    PROVE  (q * n) \div n = q /\ (q * n) % n = 0
<1>1. 0 \in 0 .. n - 1 /\ q * n + 0 = q * n
  OBVIOUS
<1> QED BY <1>1, RemainderFacts

(* A set of numbers has a least one: the intervals below them are finite.    *)
LEMMA HasLeast ==
    ASSUME NEW T, T \subseteq Nat, T # {}
    PROVE  \E x \in T : \A y \in T : x <= y
<1> DEFINE below == {0 .. x : x \in T}
<1>1. IsWellFoundedOn(StrictSubsetOrdering(Nat), FiniteSubsetsOf(Nat))
  BY FS_StrictSubsetOrderingWellFounded
<1>2. below \subseteq FiniteSubsetsOf(Nat) /\ below # {}
  <2>1. \A x \in T : IsFiniteSet(0 .. x) /\ 0 .. x \subseteq Nat
    BY FS_Interval
  <2> QED BY <2>1 DEF FiniteSubsetsOf
<1>3. \E s \in below : \A r \in below : <<r, s>> \notin StrictSubsetOrdering(Nat)
  <2> HIDE DEF below
  <2> QED BY <1>1, <1>2, WFMin
<1>4. PICK x \in T : \A y \in T : <<0 .. y, 0 .. x>> \notin StrictSubsetOrdering(Nat)
  BY <1>3
<1>5. ASSUME NEW y \in T, y < x
      PROVE  FALSE
  <2>1. 0 .. y \subseteq 0 .. x /\ 0 .. y # 0 .. x
    <3>1. x \in 0 .. x /\ x \notin 0 .. y
      BY <1>5
    <3> QED BY <1>5, <3>1
  <2>2. 0 .. y \in SUBSET Nat /\ 0 .. x \in SUBSET Nat
    OBVIOUS
  <2> QED BY <1>4, <2>1, <2>2 DEF StrictSubsetOrdering
<1> QED BY <1>5

-------------------------------------------------------------------------------
(* Lists.                                                                    *)

(* Appending a block that is not listed keeps the list free of repetitions   *)
(* and adds the block to what it lists.                                      *)
LEMMA AppendListed ==
    ASSUME NEW S, NEW s \in Seq(S), NEW e \in S, IsInjective(s), e \notin Range(s)
    PROVE  /\ Append(s, e) \in Seq(S)
           /\ IsInjective(Append(s, e))
           /\ Range(Append(s, e)) = Range(s) \cup {e}
           /\ Len(Append(s, e)) = Len(s) + 1
<1>1. /\ Append(s, e) \in Seq(S)
      /\ Len(Append(s, e)) = Len(s) + 1
      /\ DOMAIN s = 1..Len(s)
      /\ Len(s) \in Nat
      /\ DOMAIN Append(s, e) = 1..(Len(s) + 1)
      /\ \A i \in 1..Len(s) : Append(s, e)[i] = s[i]
      /\ Append(s, e)[Len(s) + 1] = e
  OBVIOUS
<1>2. IsInjective(Append(s, e))
  <2> SUFFICES ASSUME NEW i \in 1..(Len(s) + 1), NEW j \in 1..(Len(s) + 1),
                      Append(s, e)[i] = Append(s, e)[j]
               PROVE  i = j
    BY <1>1 DEF IsInjective
  <2>1. CASE i \in 1..Len(s) /\ j \in 1..Len(s)
    BY <2>1, <1>1 DEF IsInjective
  <2>2. CASE i = Len(s) + 1 \/ j = Len(s) + 1
    BY <2>2, <1>1 DEF Range
  <2> QED BY <2>1, <2>2, <1>1
<1>3. Range(Append(s, e)) = Range(s) \cup {e}
  BY <1>1 DEF Range
<1> QED BY <1>1, <1>2, <1>3

(* Deleting the entry at a position closes the gap.                          *)
LEMMA RemoveAtProperties ==
    ASSUME NEW S, NEW s \in Seq(S), NEW k \in 1..Len(s)
    PROVE  /\ RemoveAt(s, k) \in Seq(S)
           /\ Len(RemoveAt(s, k)) = Len(s) - 1
           /\ \A i \in 1..(Len(s) - 1) :
                RemoveAt(s, k)[i] = IF i < k THEN s[i] ELSE s[i + 1]
<1> DEFINE u == SubSeq(s, 1, k - 1)
           v == SubSeq(s, k + 1, Len(s))
<1>0. DOMAIN s = 1..Len(s) /\ Len(s) \in Nat /\ k \in Int /\ 1 <= k /\ k <= Len(s)
  OBVIOUS
<1>1. u \in Seq(S) /\ Len(u) = k - 1 /\ \A i \in 1..(k - 1) : u[i] = s[i]
  <2>1. \A i \in 1..(k - 1) : s[i] \in S
    BY <1>0
  <2>2. /\ u \in Seq(S)
        /\ Len(u) = IF 1 <= k - 1 THEN (k - 1) - 1 + 1 ELSE 0
        /\ \A i \in 1..((k - 1) - 1 + 1) : u[i] = s[1 + i - 1]
    BY <2>1, <1>0, SubSeqProperties
  <2>3. \A i \in Int : 1 + i - 1 = i
    OBVIOUS
  <2> QED BY <2>2, <2>3, <1>0
<1>2. /\ v \in Seq(S)
      /\ Len(v) = Len(s) - k
      /\ \A i \in 1..(Len(s) - k) : v[i] = s[k + i]
  <2>1. \A i \in (k + 1)..Len(s) : s[i] \in S
    BY <1>0
  <2>2. /\ v \in Seq(S)
        /\ Len(v) = IF k + 1 <= Len(s) THEN Len(s) - (k + 1) + 1 ELSE 0
        /\ \A i \in 1..(Len(s) - (k + 1) + 1) : v[i] = s[(k + 1) + i - 1]
    BY <2>1, <1>0, SubSeqProperties
  <2>3. Len(v) = Len(s) - k /\ Len(s) - (k + 1) + 1 = Len(s) - k
    <3>1. \A n \in Nat : k <= n =>
             /\ n - (k + 1) + 1 = n - k
             /\ (IF k + 1 <= n THEN n - (k + 1) + 1 ELSE 0) = n - k
      BY <1>0
    <3> HIDE DEF v
    <3> QED BY <2>2, <3>1, <1>0
  <2>4. ASSUME NEW i \in 1..(Len(s) - k)
        PROVE  v[i] = s[k + i]
    <3>1. (k + 1) + i - 1 = k + i
      BY <1>0
    <3> QED BY <2>2, <2>3, <3>1
  <2> QED BY <2>2, <2>3, <2>4
<1>3. RemoveAt(s, k) = u \o v
  BY DEF RemoveAt
<1> HIDE DEF u, v
<1>4. /\ u \o v \in Seq(S)
      /\ Len(u \o v) = Len(u) + Len(v)
      /\ \A i \in 1..(Len(u) + Len(v)) :
            (u \o v)[i] = IF i <= Len(u) THEN u[i] ELSE v[i - Len(u)]
  BY <1>1, <1>2, ConcatProperties
<1>5. ASSUME NEW i \in 1..(Len(s) - 1)
      PROVE  (u \o v)[i] = IF i < k THEN s[i] ELSE s[i + 1]
  <2>1. CASE i < k
    BY <2>1, <1>0, <1>1, <1>2, <1>4
  <2>2. CASE i >= k
    <3>1. /\ i - (k - 1) \in 1..(Len(s) - k)
          /\ k + (i - (k - 1)) = i + 1
      BY <2>2, <1>0
    <3>2. v[i - (k - 1)] = s[i + 1]
      BY <3>1, <1>2
    <3>3. (u \o v)[i] = v[i - (k - 1)]
      BY <2>2, <1>0, <1>1, <1>2, <1>4
    <3> QED BY <2>2, <3>2, <3>3, <1>0
  <2>3. i < k \/ i >= k
    BY <1>0
  <2> QED BY <2>1, <2>2, <2>3
<1> QED BY <1>0, <1>1, <1>2, <1>3, <1>4, <1>5

(* Removing an entry of a list without repetitions removes the block from    *)
(* what the list shows and nothing else.                                     *)
LEMMA RemoveListed ==
    ASSUME NEW S, NEW s \in Seq(S), NEW e, IsInjective(s)
    PROVE  /\ RemoveFirst(s, e) \in Seq(S)
           /\ IsInjective(RemoveFirst(s, e))
           /\ Range(RemoveFirst(s, e)) = Range(s) \ {e}
           /\ Len(RemoveFirst(s, e)) <= Len(s)
           /\ Len(RemoveFirst(s, e)) >= Len(s) - 1
<1>0. DOMAIN s = 1..Len(s) /\ Len(s) \in Nat
  OBVIOUS
<1>1. CASE \A i \in 1..Len(s) : s[i] # e
  <2>1. RemoveFirst(s, e) = s
    BY <1>1 DEF RemoveFirst
  <2>2. e \notin Range(s)
    BY <1>0, <1>1 DEF Range
  <2> QED BY <1>0, <2>1, <2>2
<1>2. CASE \E i \in 1..Len(s) : s[i] = e
  <2>1. PICK k \in 1..Len(s) : s[k] = e
    BY <1>2
  <2>2. {i \in 1..Len(s) : s[i] = e} = {k}
    BY <1>0, <2>1 DEF IsInjective
  <2>3. SelectInSeq(s, LAMBDA v : v = e) = k
    <3>1. Min({k}) = k
      BY <1>0, <2>1 DEF Min
    <3> QED BY <2>2, <3>1 DEF SelectInSeq
  <2> DEFINE t == RemoveAt(s, k)
  <2>4. RemoveFirst(s, e) = t
    BY <1>2, <2>3 DEF RemoveFirst
  <2>5. /\ t \in Seq(S)
        /\ Len(t) = Len(s) - 1
        /\ \A i \in 1..Len(t) : t[i] = IF i < k THEN s[i] ELSE s[i + 1]
        /\ DOMAIN t = 1..Len(t)
    BY RemoveAtProperties
  <2> HIDE DEF t
  <2>6. IsInjective(t)
    BY SMTT(30), <1>0, <2>1, <2>5 DEF IsInjective
  <2>7. Range(t) = Range(s) \ {e}
    <3>1. ASSUME NEW x \in Range(t)
          PROVE  x \in Range(s) \ {e}
      <4>1. PICK i \in 1..Len(t) : x = t[i]
        BY <2>5 DEF Range
      <4>2. PICK j \in 1..Len(s) : x = s[j] /\ j # k
        BY <4>1, <2>5, <2>1, <1>0
      <4> QED BY <4>2, <2>1, <1>0 DEF Range, IsInjective
    <3>2. ASSUME NEW x \in Range(s) \ {e}
          PROVE  x \in Range(t)
      <4>1. PICK j \in 1..Len(s) : x = s[j]
        BY <1>0 DEF Range
      <4>2. j # k
        BY <4>1, <2>1, <3>2
      <4>3. CASE j < k
        <5>1. j \in 1..Len(t) /\ t[j] = x
          BY <4>1, <4>3, <2>1, <2>5, <1>0
        <5> QED BY <5>1, <2>5 DEF Range
      <4>4. CASE j > k
        <5>1. j - 1 \in 1..Len(t) /\ t[j - 1] = x
          BY <4>1, <4>4, <2>1, <2>5, <1>0
        <5> QED BY <5>1, <2>5 DEF Range
      <4> QED BY <4>2, <4>3, <4>4, <2>1, <4>1, <1>0
    <3> QED BY <3>1, <3>2
  <2> QED BY <2>4, <2>5, <2>6, <2>7, <1>0
<1> QED BY <1>1, <1>2

(* Removing the first of several entries keeps the last one.                 *)
LEMMA RemoveHeadKeepsLast ==
    ASSUME NEW S, NEW s \in Seq(S), IsInjective(s), Len(s) > 1
    PROVE  RemoveFirst(s, Head(s)) # <<>> /\ Last(RemoveFirst(s, Head(s))) = Last(s)
<1>0. /\ DOMAIN s = 1..Len(s) /\ Len(s) \in Nat /\ 1 \in 1..Len(s)
      /\ Head(s) = s[1]
  OBVIOUS
<1>1. {i \in 1..Len(s) : s[i] = Head(s)} = {1}
  BY <1>0 DEF IsInjective
<1>2. SelectInSeq(s, LAMBDA v : v = Head(s)) = 1
  <2>1. Min({1}) = 1
    BY DEF Min
  <2> QED BY <1>1, <2>1 DEF SelectInSeq
<1> DEFINE t == RemoveAt(s, 1)
<1>3. RemoveFirst(s, Head(s)) = t
  BY <1>0, <1>2 DEF RemoveFirst
<1>4. /\ t \in Seq(S)
      /\ Len(t) = Len(s) - 1
      /\ \A i \in 1..(Len(s) - 1) : t[i] = IF i < 1 THEN s[i] ELSE s[i + 1]
  BY <1>0, RemoveAtProperties
<1> HIDE DEF t
<1>5. t[Len(t)] = s[Len(s)] /\ t # <<>>
  BY <1>0, <1>4
<1> QED BY <1>3, <1>5 DEF Last

===============================================================================
