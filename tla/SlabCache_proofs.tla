---------------------------- MODULE SlabCache_proofs ----------------------------
(***************************************************************************)
(* Small objects are never lost and always found: proofs for any number of *)
(* threads, call sites, sizes and places.  The inductive invariant speaks  *)
(* of each address by itself: it is out, with the program or with one      *)
(* thread, exactly if its arena misses it.  The objects of a call site     *)
(* that asks for one size, which divides the block, do not overlap either. *)
(***************************************************************************)
EXTENDS SlabCache, Facts

-------------------------------------------------------------------------------
(* The inductive invariant.                                                  *)

\* Threads that carry address a, and the program, which has it.
Out(a) == a \in lent \/ \E t \in Threads : Carrying(t) /\ addr[t] = a

\* Addresses that gmacFree can still look up.
Known(a) == a \in lent \/ \E t \in Threads : pc[t] = "erase" /\ addr[t] = a

\* The arena at its place gives out address a and does not have it.
Missed(a) ==
    /\ arenas[a[1]] \in Caches
    /\ a \in Objects(arenas[a[1]], a[1])
    /\ a \notin objects[a[1]]

OutIsMissed == \A a \in Addresses : Out(a) <=> Missed(a)

ArenasMissSome == \A p \in Places : arenas[p] \in Caches => \E a \in Addresses : a[1] = p /\ Missed(a)

CarriedOnce ==
    \A t \in Threads :
        Carrying(t) => /\ addr[t] \notin lent
                       /\ \A u \in Threads : Carrying(u) /\ addr[u] = addr[t] => u = t

ListsInArenas ==
    \A p \in Places : \A a \in objects[p] : arenas[p] \in Caches /\ a \in Objects(arenas[p], p)

KnownByCache ==
    \A a \in Addresses : \A c \in Caches :
        <<a, c>> \in addresses <=> Known(a) /\ arenas[a[1]] = c

CachesRight ==
    \A t \in Threads :
        /\ Allocating(t) => cache[t] \in Caches
        /\ pc[t] \in {"take", "insert", "put"} =>
             cache[t] \in Caches /\ arenas[addr[t][1]] = cache[t]

\* No thread frees an object of a cache that another allocates from.
Disciplined ==
    \A t, u \in Threads : Allocating(t) /\ Freeing(u) => arenas[addr[u][1]] # cache[t]

IInv ==
    /\ TypeOK
    /\ OutIsMissed
    /\ ArenasMissSome
    /\ CarriedOnce
    /\ ListsInArenas
    /\ KnownByCache
    /\ CachesRight
    /\ Disciplined

-------------------------------------------------------------------------------
(* Arenas.                                                                   *)

\* The objects of an arena are addresses at its place, and one begins the block.
LEMMA ObjectsOfArena ==
    ASSUME NEW c \in Caches, NEW p \in Places
    PROVE  /\ Objects(c, p) \subseteq Addresses
           /\ <<p, 0>> \in Objects(c, p)
           /\ \A a \in Objects(c, p) : a[1] = p
<1>1. BlockSize \in Nat \ {0} /\ c.size \in Nat \ {0}
  BY SizesAssumption DEF Caches
<1>2. Objects(c, p) \subseteq Addresses /\ \A a \in Objects(c, p) : a[1] = p
  BY DEF Objects, Addresses
<1>3. 0 \in 0..BlockSize - 1 /\ 0 % c.size = 0
  <2>1. 0 * c.size = 0
    BY <1>1
  <2> QED BY <1>1, <2>1, MultipleFacts
<1>4. <<p, 0>> \in Objects(c, p)
  BY <1>3 DEF Objects
<1> QED
  BY <1>2, <1>4

\* The mark of a place without an arena is not a cache.
LEMMA NoCacheIsNone == NoCache \notin Caches
<1>1. \A c \in Caches : c.size \in 1..BlockSize
  BY DEF Caches
<1>2. NoCache.size \notin 1..BlockSize
  BY DEF NoCache
<1> QED BY <1>1, <1>2

\* Slab::get gives a cache of the mode and the call site.
LEMMA CacheForRight ==
    ASSUME TypeOK, NEW t \in Threads, NEW s \in Sites, NEW n \in SizesOf[s]
    PROVE  /\ CacheFor(t, s, n) \in Caches
           /\ CacheFor(t, s, n).mode = t /\ CacheFor(t, s, n).site = s
           /\ n \in 1..BlockSize
<1> DEFINE found == {c \in caches : c.mode = t /\ c.site = s}
<1>1. n \in 1..BlockSize
  BY SizesAssumption
<1>2. CASE found = {}
  <2>1. CacheFor(t, s, n) = [mode |-> t, site |-> s, size |-> n]
    BY <1>2 DEF CacheFor
  <2> QED BY <1>1, <2>1 DEF Caches
<1>3. CASE found # {}
  <2>1. CacheFor(t, s, n) \in found
    BY <1>3 DEF CacheFor
  <2> QED BY <1>1, <2>1 DEF TypeOK
<1> QED BY <1>2, <1>3

\* The first part of an address is a place.
LEMMA AddressParts == \A a \in Addresses : a[1] \in Places
BY DEF Addresses

\* There is an address for a thread that has none, and one at every place.
LEMMA SomeAddress ==
    /\ NoAddress \in Addresses
    /\ \A p \in Places : <<p, 0>> \in Addresses
<1>1. 0 \in 0..BlockSize - 1
  BY SizesAssumption
<1>2. \A p \in Places : <<p, 0>> \in Addresses
  BY <1>1 DEF Addresses
<1>3. \E a \in Addresses : TRUE
  BY <1>2, PlacesAssumption
<1> QED
  BY <1>2, <1>3 DEF NoAddress

\* Whoever carries an address has one that its arena misses.
LEMMA CarriedIsMissed ==
    ASSUME IInv, NEW t \in Threads, Carrying(t)
    PROVE  /\ addr[t] \in Addresses
           /\ addr[t][1] \in Places
           /\ Missed(addr[t])
<1>1. addr[t] \in Addresses
  BY DEF IInv, TypeOK
<1>2. Out(addr[t])
  BY DEF Out
<1> QED
  BY <1>1, <1>2, AddressParts DEF IInv, OutIsMissed

-------------------------------------------------------------------------------
(* The invariant holds at first and is kept by every step.                   *)

LEMMA InvariantInit == Init => IInv
<1> SUFFICES ASSUME Init PROVE IInv
  OBVIOUS
<1>1. TypeOK
  BY SomeAddress, SizesAssumption DEF Init, TypeOK
<1>2. \A t \in Threads : ~Carrying(t) /\ ~Allocating(t) /\ ~Freeing(t) /\ pc[t] = "idle"
  BY DEF Init, Carrying, Allocating, Freeing
<1>3. \A a \in Addresses : ~Out(a) /\ ~Known(a) /\ ~Missed(a)
  BY <1>2, NoCacheIsNone, AddressParts DEF Init, Out, Known, Missed
<1>4. OutIsMissed /\ ArenasMissSome /\ CarriedOnce
  BY <1>2, <1>3, NoCacheIsNone DEF Init, OutIsMissed, ArenasMissSome, CarriedOnce
<1>5. ListsInArenas /\ KnownByCache
  BY <1>3 DEF Init, ListsInArenas, KnownByCache
<1>6. CachesRight /\ Disciplined
  BY <1>2 DEF CachesRight, Disciplined
<1> QED
  BY <1>1, <1>4, <1>5, <1>6 DEF IInv

\* A step that moves no object and leaves the map of addresses alone.
LEMMA NothingMoves ==
    ASSUME IInv,
           UNCHANGED <<arenas, objects, addresses>>,
           \A a \in Addresses : Out(a)' <=> Out(a),
           \A a \in Addresses : Known(a)' <=> Known(a)
    PROVE  OutIsMissed' /\ ArenasMissSome' /\ ListsInArenas' /\ KnownByCache'
<1>1. \A a : Missed(a)' <=> Missed(a)
  BY DEF Missed, Objects
<1>2. OutIsMissed' /\ ArenasMissSome'
  BY <1>1 DEF IInv, OutIsMissed, ArenasMissSome
<1>3. ListsInArenas'
  BY DEF IInv, ListsInArenas
<1>4. KnownByCache'
  BY DEF IInv, KnownByCache
<1> QED
  BY <1>2, <1>3, <1>4

LEMMA AllocStep ==
    ASSUME IInv, NEW t \in Threads, NEW s \in Sites, NEW n \in SizesOf[s], Alloc(t, s, n)
    PROVE  IInv'
<1> DEFINE c == CacheFor(t, s, n)
<1>0. /\ pc[t] = "idle"
      /\ pc' = [pc EXCEPT ![t] = "get"]
      /\ cache' = [cache EXCEPT ![t] = c]
      /\ count' = [count EXCEPT ![t] = n]
      /\ caches' = caches \cup {c}
      /\ UNCHANGED <<arenas, objects, addresses, lent, asked, addr>>
      /\ \A u \in Threads : Freeing(u) => arenas[addr[u][1]] # c
  BY DEF Alloc, Goto, arenaVars, programVars, PlaceOf
<1>1. c \in Caches /\ n \in 0..BlockSize
  BY CacheForRight, SizesAssumption DEF IInv
<1> HIDE DEF c
<1>2. TypeOK'
  BY <1>0, <1>1 DEF IInv, TypeOK
<1>3. \A u \in Threads : /\ Carrying(u)' <=> Carrying(u)
                         /\ Freeing(u)' <=> Freeing(u)
                         /\ (pc[u] = "erase")' <=> (pc[u] = "erase")
  BY <1>0 DEF IInv, TypeOK, Carrying, Freeing
<1>4. \A a \in Addresses : (Out(a)' <=> Out(a)) /\ (Known(a)' <=> Known(a))
  BY <1>0, <1>3 DEF Out, Known
<1>5. OutIsMissed' /\ ArenasMissSome' /\ ListsInArenas' /\ KnownByCache'
  BY <1>0, <1>4, NothingMoves
<1>6. CarriedOnce'
  BY <1>0, <1>3 DEF IInv, CarriedOnce
<1>7. CachesRight'
  BY <1>0, <1>1 DEF IInv, TypeOK, CachesRight, Allocating
<1>8. Disciplined'
  BY <1>0, <1>3 DEF IInv, TypeOK, Disciplined, Allocating
<1> QED
  BY <1>2, <1>5, <1>6, <1>7, <1>8 DEF IInv

LEMMA ChooseArenaStep ==
    ASSUME IInv, NEW t \in Threads, ChooseArena(t)
    PROVE  IInv'
<1>1. PICK p \in Places : arenas[p] = cache[t] /\ addr' = [addr EXCEPT ![t] = <<p, 0>>]
  BY DEF ChooseArena, NonEmpty
<1>0. /\ pc[t] = "get"
      /\ pc' = [pc EXCEPT ![t] = "take"]
      /\ UNCHANGED <<caches, arenas, objects, addresses, lent, asked, count, cache>>
  BY DEF ChooseArena, Goto, arenaVars, programVars
<1>2. TypeOK'
  BY <1>0, <1>1, SomeAddress DEF IInv, TypeOK
<1>3. \A u \in Threads : /\ Carrying(u)' <=> Carrying(u)
                         /\ Freeing(u)' <=> Freeing(u)
                         /\ Allocating(u)' <=> Allocating(u)
                         /\ (pc[u] = "erase")' <=> (pc[u] = "erase")
  BY <1>0 DEF IInv, TypeOK, Carrying, Freeing, Allocating
<1>4. \A u \in Threads : u # t => addr'[u] = addr[u] /\ pc'[u] = pc[u]
  BY <1>0, <1>1 DEF IInv, TypeOK
<1>5. ~Carrying(t) /\ ~Freeing(t) /\ pc[t] # "erase"
  BY <1>0 DEF Carrying, Freeing
<1>6. \A a \in Addresses : (Out(a)' <=> Out(a)) /\ (Known(a)' <=> Known(a))
  BY <1>0, <1>3, <1>4, <1>5 DEF Out, Known
<1>7. OutIsMissed' /\ ArenasMissSome' /\ ListsInArenas' /\ KnownByCache'
  BY <1>0, <1>6, NothingMoves
<1>8. CarriedOnce'
  BY <1>0, <1>3, <1>4, <1>5 DEF IInv, CarriedOnce
<1>9. CachesRight'
  <2>1. cache[t] \in Caches
    BY <1>0 DEF IInv, CachesRight, Allocating
  <2>2. addr'[t][1] = p
    BY <1>1 DEF IInv, TypeOK
  <2> QED
    BY <1>0, <1>1, <1>3, <1>4, <2>1, <2>2 DEF IInv, CachesRight
<1>10. Disciplined'
  BY <1>0, <1>3, <1>4, <1>5 DEF IInv, Disciplined
<1> QED
  BY <1>2, <1>7, <1>8, <1>9, <1>10 DEF IInv

LEMMA TakeStep ==
    ASSUME IInv, NEW t \in Threads, Take(t)
    PROVE  IInv'
<1> DEFINE p == addr[t][1]
<1>1. p \in Places /\ arenas[p] = cache[t] /\ cache[t] \in Caches
  BY AddressParts DEF IInv, TypeOK, CachesRight, Take
<1>2. PICK a \in objects[p] : /\ objects' = [objects EXCEPT ![p] = @ \ {a}]
                              /\ addr' = [addr EXCEPT ![t] = a]
  BY DEF Take, PlaceOf
<1>3. /\ pc[t] = "take"
      /\ pc' = [pc EXCEPT ![t] = "insert"]
      /\ UNCHANGED <<caches, arenas, addresses, lent, asked, count, cache>>
  BY DEF Take, Goto, programVars
<1>4. a \in Addresses /\ a \in Objects(arenas[p], p) /\ a[1] = p
  <2>1. a \in Objects(arenas[p], p)
    BY <1>1 DEF IInv, ListsInArenas
  <2>2. /\ Objects(arenas[p], p) \subseteq Addresses
        /\ \A b \in Objects(arenas[p], p) : b[1] = p
    <3>1. arenas[p] \in Caches /\ p \in Places
      BY <1>1
    <3> HIDE DEF p
    <3> QED BY <3>1, ObjectsOfArena
  <2> QED
    BY <2>1, <2>2
<1>5. ~Out(a)
  BY <1>4 DEF IInv, OutIsMissed, Missed
<1>6. TypeOK'
  BY <1>1, <1>2, <1>3, <1>4 DEF IInv, TypeOK
<1>7. \A u \in Threads : u # t => addr'[u] = addr[u] /\ pc'[u] = pc[u] /\ (Carrying(u)' <=> Carrying(u))
  BY <1>2, <1>3 DEF IInv, TypeOK, Carrying
<1>8. /\ ~Carrying(t) /\ pc[t] # "erase" /\ ~Freeing(t)
      /\ Carrying(t)' /\ pc'[t] = "insert" /\ addr'[t] = a
  BY <1>2, <1>3 DEF IInv, TypeOK, Carrying, Freeing
<1>9. \A b \in Addresses : Out(b)' <=> Out(b) \/ b = a
  BY <1>3, <1>7, <1>8 DEF Out
<1>10. \A b \in Addresses : Missed(b)' <=> Missed(b) \/ b = a
  <2>1. \A b \in Addresses : b # a => (b \in objects'[b[1]] <=> b \in objects[b[1]])
    BY <1>1, <1>2, AddressParts DEF IInv, TypeOK
  <2>2. a \notin objects'[a[1]]
    BY <1>1, <1>2, <1>4 DEF IInv, TypeOK
  <2> QED
    BY <1>1, <1>3, <1>4, <2>1, <2>2 DEF Missed, Objects
<1>11. OutIsMissed'
  BY <1>9, <1>10 DEF IInv, OutIsMissed
<1>12. ArenasMissSome'
  BY <1>3, <1>10 DEF IInv, ArenasMissSome
<1>13. CarriedOnce'
  BY <1>3, <1>5, <1>7, <1>8 DEF IInv, CarriedOnce, Out
<1>14. ListsInArenas'
  BY <1>2, <1>3 DEF IInv, TypeOK, ListsInArenas
<1>15. KnownByCache'
  <2>1. \A b \in Addresses : Known(b)' <=> Known(b)
    BY <1>3, <1>7, <1>8 DEF Known
  <2> QED
    BY <1>3, <2>1 DEF IInv, KnownByCache
<1>16. CachesRight'
  BY <1>1, <1>3, <1>4, <1>7, <1>8 DEF IInv, CachesRight, Allocating
<1>17. Disciplined'
  BY <1>3, <1>7, <1>8 DEF IInv, Disciplined, Allocating, Freeing
<1> QED
  BY <1>6, <1>11, <1>12, <1>13, <1>14, <1>15, <1>16, <1>17 DEF IInv

LEMMA NewArenaStep ==
    ASSUME IInv, NEW t \in Threads, NewArena(t)
    PROVE  IInv'
<1> DEFINE c == cache[t]
<1>1. PICK p \in Places : /\ arenas[p] = NoCache
                          /\ arenas' = [arenas EXCEPT ![p] = c]
                          /\ objects' = [objects EXCEPT ![p] = Objects(c, p) \ {<<p, 0>>}]
                          /\ addr' = [addr EXCEPT ![t] = <<p, 0>>]
  BY DEF NewArena
<1>2. /\ pc[t] = "get"
      /\ pc' = [pc EXCEPT ![t] = "insert"]
      /\ UNCHANGED <<caches, addresses, lent, asked, count, cache>>
  BY DEF NewArena, Goto, programVars
<1>3. c \in Caches
  BY <1>2 DEF IInv, CachesRight, Allocating
<1> DEFINE a == <<p, 0>>
<1>4. a \in Addresses /\ a \in Objects(c, p) /\ a[1] = p
  BY <1>3, ObjectsOfArena, SomeAddress
<1>5. \A b \in Addresses : b[1] = p => ~Missed(b) /\ ~Out(b) /\ ~Known(b)
  <2>1. \A b \in Addresses : b[1] = p => ~Missed(b)
    BY <1>1, NoCacheIsNone DEF Missed
  <2>2. \A b : Known(b) => Out(b)
    BY DEF Known, Out, Carrying
  <2> QED
    BY <2>1, <2>2 DEF IInv, OutIsMissed
<1>6. \A u \in Threads : Carrying(u) => addr[u][1] # p
  BY <1>5, CarriedIsMissed
<1>7. TypeOK'
  BY <1>1, <1>2, <1>3, <1>4, ObjectsOfArena DEF IInv, TypeOK
<1>8. \A u \in Threads : u # t => addr'[u] = addr[u] /\ pc'[u] = pc[u] /\ (Carrying(u)' <=> Carrying(u))
  BY <1>1, <1>2 DEF IInv, TypeOK, Carrying
<1>9. /\ ~Carrying(t) /\ pc[t] # "erase" /\ ~Freeing(t)
      /\ Carrying(t)' /\ pc'[t] = "insert" /\ addr'[t] = a
  BY <1>1, <1>2 DEF IInv, TypeOK, Carrying, Freeing
<1>10. /\ arenas'[p] = c /\ objects'[p] = Objects(c, p) \ {a}
       /\ \A q \in Places \ {p} : arenas'[q] = arenas[q] /\ objects'[q] = objects[q]
  BY <1>1 DEF IInv, TypeOK
<1>11. \A b \in Addresses : Out(b)' <=> Out(b) \/ b = a
  BY <1>2, <1>8, <1>9 DEF Out
<1>12. \A b \in Addresses : Missed(b)' <=> Missed(b) \/ b = a
  <2> SUFFICES ASSUME NEW b \in Addresses PROVE Missed(b)' <=> Missed(b) \/ b = a
    OBVIOUS
  <2>1. CASE b[1] = p
    BY <1>3, <1>4, <1>5, <1>10, <2>1 DEF Missed, Objects
  <2>2. CASE b[1] # p
    BY <1>4, <1>10, <2>2, AddressParts DEF Missed, Objects
  <2> QED
    BY <2>1, <2>2
<1>13. OutIsMissed'
  BY <1>11, <1>12 DEF IInv, OutIsMissed
<1>14. ArenasMissSome'
  BY <1>4, <1>10, <1>12 DEF IInv, ArenasMissSome
<1>15. CarriedOnce'
  BY <1>2, <1>4, <1>5, <1>6, <1>8, <1>9 DEF IInv, CarriedOnce, Out
<1>16. ListsInArenas'
  <2> SUFFICES ASSUME NEW q \in Places, NEW b \in objects'[q]
               PROVE  arenas'[q] \in Caches /\ b \in Objects(arenas'[q], q)
    BY DEF ListsInArenas, Objects
  <2>1. CASE q = p
    BY <1>3, <1>10, <2>1
  <2>2. CASE q # p
    BY <1>10, <2>2 DEF IInv, ListsInArenas
  <2> QED
    BY <2>1, <2>2
<1>17. KnownByCache'
  <2>1. \A b \in Addresses : Known(b)' <=> Known(b)
    BY <1>2, <1>8, <1>9 DEF Known
  <2> SUFFICES ASSUME NEW b \in Addresses, NEW d \in Caches
               PROVE  <<b, d>> \in addresses <=> Known(b) /\ arenas'[b[1]] = d
    BY <1>2, <2>1 DEF KnownByCache
  <2>2. CASE b[1] = p
    BY <1>5, <2>2 DEF IInv, KnownByCache
  <2>3. CASE b[1] # p
    BY <1>10, <2>3, AddressParts DEF IInv, KnownByCache
  <2> QED
    BY <2>2, <2>3
<1>18. CachesRight'
  <2>1. \A u \in Threads : Allocating(u)' => cache'[u] \in Caches
    BY <1>2, <1>3, <1>8 DEF IInv, CachesRight, Allocating
  <2>2. arenas'[addr'[t][1]] = cache'[t] /\ cache'[t] \in Caches
    BY <1>2, <1>3, <1>4, <1>9, <1>10
  <2>3. ASSUME NEW u \in Threads, u # t, pc'[u] \in {"take", "insert", "put"}
        PROVE  cache'[u] \in Caches /\ arenas'[addr'[u][1]] = cache'[u]
    <3>1. cache[u] \in Caches /\ arenas[addr[u][1]] = cache[u] /\ addr[u][1] \in Places
      BY <1>8, <2>3, AddressParts DEF IInv, TypeOK, CachesRight
    <3>2. addr[u][1] # p
      BY <1>1, <3>1, NoCacheIsNone
    <3> QED
      BY <1>2, <1>8, <1>10, <2>3, <3>1, <3>2
  <2> QED
    BY <2>1, <2>2, <2>3 DEF CachesRight
<1>19. Disciplined'
  <2> SUFFICES ASSUME NEW v \in Threads, NEW u \in Threads, Allocating(v)', Freeing(u)'
               PROVE  arenas'[addr'[u][1]] # cache'[v]
    BY DEF Disciplined
  <2>1. u # t /\ Freeing(u) /\ Carrying(u) /\ Allocating(v)
    BY <1>2, <1>8, <1>9 DEF Allocating, Freeing, Carrying
  <2>2. addr[u][1] \in Places /\ addr[u][1] # p /\ addr'[u] = addr[u]
    BY <1>6, <1>8, <2>1, AddressParts DEF IInv, TypeOK
  <2> QED
    BY <1>2, <1>10, <2>1, <2>2 DEF IInv, Disciplined
<1> QED
  BY <1>7, <1>13, <1>14, <1>15, <1>16, <1>17, <1>18, <1>19 DEF IInv

LEMMA NoMemoryStep ==
    ASSUME IInv, NEW t \in Threads, NoMemory(t)
    PROVE  IInv'
<1>1. /\ pc[t] = "get"
      /\ pc' = [pc EXCEPT ![t] = "idle"]
      /\ count' = [count EXCEPT ![t] = 0]
      /\ cache' = [cache EXCEPT ![t] = NoCache]
      /\ addr' = [addr EXCEPT ![t] = NoAddress]
      /\ UNCHANGED <<caches, arenas, objects, addresses, lent, asked>>
  BY DEF NoMemory, Return, Goto, arenaVars, programVars
<1>2. TypeOK'
  BY <1>1, SomeAddress, SizesAssumption DEF IInv, TypeOK
<1>3. \A u \in Threads : u # t => /\ addr'[u] = addr[u] /\ pc'[u] = pc[u] /\ cache'[u] = cache[u]
                                  /\ Carrying(u)' <=> Carrying(u)
  BY <1>1 DEF IInv, TypeOK, Carrying
<1>4. /\ ~Carrying(t) /\ ~Carrying(t)' /\ pc[t] # "erase" /\ pc'[t] = "idle"
      /\ ~Freeing(t)' /\ ~Allocating(t)'
  BY <1>1 DEF IInv, TypeOK, Carrying, Freeing, Allocating
<1>5. \A a \in Addresses : (Out(a)' <=> Out(a)) /\ (Known(a)' <=> Known(a))
  BY <1>1, <1>3, <1>4 DEF Out, Known
<1>6. OutIsMissed' /\ ArenasMissSome' /\ ListsInArenas' /\ KnownByCache'
  BY <1>1, <1>5, NothingMoves
<1>7. CarriedOnce'
  BY <1>1, <1>3, <1>4 DEF IInv, CarriedOnce
<1>8. CachesRight'
  BY <1>1, <1>3, <1>4 DEF IInv, CachesRight, Allocating
<1>9. Disciplined'
  BY <1>1, <1>3, <1>4 DEF IInv, Disciplined, Allocating, Freeing
<1> QED
  BY <1>2, <1>6, <1>7, <1>8, <1>9 DEF IInv

LEMMA InsertAddressStep ==
    ASSUME IInv, NEW t \in Threads, InsertAddress(t)
    PROVE  IInv'
<1> DEFINE a == addr[t]
<1> DEFINE c == cache[t]
<1>1. /\ pc[t] = "insert"
      /\ pc' = [pc EXCEPT ![t] = "idle"]
      /\ count' = [count EXCEPT ![t] = 0]
      /\ cache' = [cache EXCEPT ![t] = NoCache]
      /\ addr' = [addr EXCEPT ![t] = NoAddress]
      /\ addresses' = addresses \cup {<<a, c>>}
      /\ lent' = lent \cup {a}
      /\ asked' = [asked EXCEPT ![a] = count[t]]
      /\ UNCHANGED <<caches, arenas, objects>>
  BY DEF InsertAddress, Return, Goto, arenaVars
<1>2. a \in Addresses /\ c \in Caches /\ arenas[a[1]] = c
  BY <1>1 DEF IInv, TypeOK, CachesRight
<1>3. TypeOK'
  BY <1>1, <1>2, SomeAddress, SizesAssumption DEF IInv, TypeOK
<1>4. \A u \in Threads : u # t => /\ addr'[u] = addr[u] /\ pc'[u] = pc[u] /\ cache'[u] = cache[u]
                                  /\ Carrying(u)' <=> Carrying(u)
  BY <1>1 DEF IInv, TypeOK, Carrying
<1>5. /\ Carrying(t) /\ ~Carrying(t)' /\ pc[t] # "erase" /\ pc'[t] = "idle"
      /\ ~Freeing(t)' /\ ~Allocating(t)'
  BY <1>1 DEF IInv, TypeOK, Carrying, Freeing, Allocating
<1>6. \A b \in Addresses : (Out(b)' <=> Out(b)) /\ (Known(b)' <=> Known(b) \/ b = a)
  BY <1>1, <1>4, <1>5 DEF Out, Known
<1>7. \A b : Missed(b)' <=> Missed(b)
  BY <1>1 DEF Missed, Objects
<1>8. OutIsMissed' /\ ArenasMissSome' /\ ListsInArenas'
  BY <1>1, <1>6, <1>7 DEF IInv, OutIsMissed, ArenasMissSome, ListsInArenas, Objects
<1>9. KnownByCache'
  BY <1>1, <1>2, <1>6 DEF IInv, KnownByCache
<1>10. CarriedOnce'
  BY <1>1, <1>4, <1>5 DEF IInv, CarriedOnce
<1>11. CachesRight'
  BY <1>1, <1>4, <1>5 DEF IInv, CachesRight, Allocating
<1>12. Disciplined'
  BY <1>1, <1>4, <1>5 DEF IInv, Disciplined, Allocating, Freeing
<1> QED
  BY <1>3, <1>8, <1>9, <1>10, <1>11, <1>12 DEF IInv

LEMMA FreeStep ==
    ASSUME IInv, NEW t \in Threads, NEW a \in lent, Free(t, a)
    PROVE  IInv'
<1>1. /\ pc[t] = "idle"
      /\ pc' = [pc EXCEPT ![t] = "erase"]
      /\ addr' = [addr EXCEPT ![t] = a]
      /\ lent' = lent \ {a}
      /\ asked' = [asked EXCEPT ![a] = 0]
      /\ UNCHANGED <<caches, arenas, objects, addresses, count, cache>>
      /\ \A u \in Threads : Allocating(u) => arenas[a[1]] # cache[u]
  BY DEF Free, Goto, arenaVars, PlaceOf
<1>2. TypeOK'
  BY <1>1, SizesAssumption DEF IInv, TypeOK
<1>3. \A u \in Threads : u # t => /\ addr'[u] = addr[u] /\ pc'[u] = pc[u]
                                  /\ Carrying(u)' <=> Carrying(u)
  BY <1>1 DEF IInv, TypeOK, Carrying
<1>4. /\ ~Carrying(t) /\ Carrying(t)' /\ pc[t] = "idle" /\ pc'[t] = "erase" /\ addr'[t] = a
      /\ ~Allocating(t)'
  BY <1>1 DEF IInv, TypeOK, Carrying, Allocating
<1>5. \A b \in Addresses : (Out(b)' <=> Out(b)) /\ (Known(b)' <=> Known(b))
  BY <1>1, <1>3, <1>4 DEF Out, Known
<1>6. OutIsMissed' /\ ArenasMissSome' /\ ListsInArenas' /\ KnownByCache'
  BY <1>1, <1>5, NothingMoves
<1>7. CarriedOnce'
  BY <1>1, <1>3, <1>4 DEF IInv, CarriedOnce
<1>8. CachesRight'
  BY <1>1, <1>3, <1>4 DEF IInv, CachesRight, Allocating
<1>9. Disciplined'
  BY <1>1, <1>3, <1>4 DEF IInv, Disciplined, Allocating, Freeing
<1> QED
  BY <1>2, <1>6, <1>7, <1>8, <1>9 DEF IInv

LEMMA EraseAddressStep ==
    ASSUME IInv, NEW t \in Threads, EraseAddress(t)
    PROVE  IInv'
<1> DEFINE a == addr[t]
<1>1. PICK c \in Caches : /\ <<a, c>> \in addresses
                          /\ addresses' = addresses \ {<<a, c>>}
                          /\ cache' = [cache EXCEPT ![t] = c]
  BY DEF EraseAddress
<1>2. /\ pc[t] = "erase"
      /\ pc' = [pc EXCEPT ![t] = "put"]
      /\ UNCHANGED <<caches, arenas, objects, lent, asked, count, addr>>
  BY DEF EraseAddress, Goto, arenaVars, programVars
<1>3. a \in Addresses /\ arenas[a[1]] = c
  BY <1>1 DEF IInv, TypeOK, KnownByCache
<1>4. TypeOK'
  BY <1>1, <1>2 DEF IInv, TypeOK
<1>5. \A u \in Threads : /\ Carrying(u)' <=> Carrying(u)
                         /\ Freeing(u)' <=> Freeing(u)
                         /\ Allocating(u)' <=> Allocating(u)
  BY <1>2 DEF IInv, TypeOK, Carrying, Freeing, Allocating
<1>6. \A u \in Threads : u # t => pc'[u] = pc[u] /\ cache'[u] = cache[u]
  BY <1>1, <1>2 DEF IInv, TypeOK
<1>7. Carrying(t) /\ ~Allocating(t) /\ pc'[t] = "put" /\ cache'[t] = c
  BY <1>1, <1>2 DEF IInv, TypeOK, Carrying, Allocating
<1>8. \A b \in Addresses : Out(b)' <=> Out(b)
  BY <1>2, <1>5 DEF Out
<1>9. \A b : Missed(b)' <=> Missed(b)
  BY <1>2 DEF Missed, Objects
<1>10. OutIsMissed' /\ ArenasMissSome' /\ ListsInArenas'
  BY <1>2, <1>8, <1>9 DEF IInv, OutIsMissed, ArenasMissSome, ListsInArenas, Objects
<1>11. \A b \in Addresses : Known(b)' <=> Known(b) /\ b # a
  <2>1. a \notin lent /\ \A u \in Threads : Carrying(u) /\ addr[u] = a => u = t
    BY <1>7 DEF IInv, CarriedOnce
  <2>2. \A u \in Threads : pc[u] = "erase" => Carrying(u)
    BY DEF Carrying
  <2> QED
    BY <1>2, <1>6, <1>7, <2>1, <2>2 DEF Known
<1>12. KnownByCache'
  BY <1>1, <1>2, <1>3, <1>11 DEF IInv, KnownByCache
<1>13. CarriedOnce'
  BY <1>2, <1>5 DEF IInv, CarriedOnce
<1>14. CachesRight'
  BY <1>1, <1>2, <1>3, <1>5, <1>6, <1>7 DEF IInv, CachesRight
<1>15. Disciplined'
  BY <1>2, <1>5, <1>6, <1>7 DEF IInv, Disciplined
<1> QED
  BY <1>4, <1>10, <1>12, <1>13, <1>14, <1>15 DEF IInv

LEMMA PutStep ==
    ASSUME IInv, NEW t \in Threads, Put(t)
    PROVE  IInv'
<1> DEFINE a == addr[t]
<1> DEFINE p == a[1]
<1> DEFINE c == cache[t]
<1> DEFINE back == objects[p] \cup {a}
<1> DEFINE full == back = Objects(c, p)
<1>1. /\ pc[t] = "put"
      /\ pc' = [pc EXCEPT ![t] = "idle"]
      /\ count' = [count EXCEPT ![t] = 0]
      /\ cache' = [cache EXCEPT ![t] = NoCache]
      /\ addr' = [addr EXCEPT ![t] = NoAddress]
      /\ objects' = [objects EXCEPT ![p] = IF full THEN {} ELSE back]
      /\ arenas' = [arenas EXCEPT ![p] = IF full THEN NoCache ELSE @]
      /\ UNCHANGED <<caches, addresses, lent, asked>>
  BY DEF Put, Return, Goto, PlaceOf, programVars
<1>2. Carrying(t) /\ Freeing(t)
  BY <1>1 DEF Carrying, Freeing
<1>3. /\ a \in Addresses /\ p \in Places /\ c \in Caches /\ arenas[p] = c
      /\ Missed(a) /\ a \in Objects(c, p)
  BY <1>1, <1>2, CarriedIsMissed DEF IInv, CachesRight, Missed
<1>4. back \subseteq Objects(c, p)
  BY <1>3 DEF IInv, ListsInArenas
<1>5. /\ a \notin lent
      /\ \A u \in Threads : Carrying(u) /\ addr[u] = a => u = t
  BY <1>2 DEF IInv, CarriedOnce
<1>6. TypeOK'
  BY <1>1, <1>3, SomeAddress, SizesAssumption DEF IInv, TypeOK
<1>7. \A u \in Threads : u # t => /\ addr'[u] = addr[u] /\ pc'[u] = pc[u] /\ cache'[u] = cache[u]
                                  /\ Carrying(u)' <=> Carrying(u)
  BY <1>1 DEF IInv, TypeOK, Carrying
<1>8. /\ ~Carrying(t)' /\ pc[t] # "erase" /\ pc'[t] = "idle"
      /\ ~Freeing(t)' /\ ~Allocating(t)'
  BY <1>1 DEF IInv, TypeOK, Carrying, Freeing, Allocating
<1>9. /\ arenas'[p] = IF full THEN NoCache ELSE c
      /\ objects'[p] = IF full THEN {} ELSE back
      /\ \A q \in Places \ {p} : arenas'[q] = arenas[q] /\ objects'[q] = objects[q]
  BY <1>1, <1>3 DEF IInv, TypeOK
<1>10. \A b \in Addresses : (Out(b)' <=> Out(b) /\ b # a) /\ (Known(b)' <=> Known(b))
  BY <1>1, <1>2, <1>5, <1>7, <1>8 DEF Out, Known
<1>11. ASSUME full
       PROVE  \A b \in Addresses : b[1] = p /\ Missed(b) => b = a
  BY <1>3, <1>11 DEF Missed
<1>12. \A b \in Addresses : Missed(b)' <=> Missed(b) /\ b # a
  <2> SUFFICES ASSUME NEW b \in Addresses PROVE Missed(b)' <=> Missed(b) /\ b # a
    OBVIOUS
  <2>1. CASE b[1] # p
    BY <1>9, <2>1, AddressParts DEF Missed, Objects
  <2>2. CASE b[1] = p /\ full
    BY <1>9, <1>11, <2>2, NoCacheIsNone DEF Missed
  <2>3. CASE b[1] = p /\ ~full
    BY <1>3, <1>9, <2>3 DEF Missed, Objects
  <2> QED
    BY <2>1, <2>2, <2>3
<1>13. OutIsMissed'
  BY <1>10, <1>12 DEF IInv, OutIsMissed
<1>14. ArenasMissSome'
  <2> SUFFICES ASSUME NEW q \in Places, arenas'[q] \in Caches
               PROVE  \E b \in Addresses : b[1] = q /\ Missed(b)'
    BY DEF ArenasMissSome
  <2>1. CASE q = p
    <3>1. ~full
      BY <1>9, <2>1, NoCacheIsNone
    <3>2. PICK b \in Objects(c, p) : b \notin back
      BY <1>4, <3>1
    <3>3. b \in Addresses /\ b[1] = p
      <4>1. Objects(c, p) \subseteq Addresses /\ \A x \in Objects(c, p) : x[1] = p
        BY <1>3, ObjectsOfArena
      <4> QED
        BY <3>2, <4>1
    <3> QED
      BY <1>3, <1>12, <2>1, <3>2, <3>3 DEF Missed
  <2>2. CASE q # p
    BY <1>9, <1>12, <2>2 DEF IInv, ArenasMissSome
  <2> QED
    BY <2>1, <2>2
<1>15. CarriedOnce'
  BY <1>1, <1>7, <1>8 DEF IInv, CarriedOnce
<1>16. ListsInArenas'
  <2> SUFFICES ASSUME NEW q \in Places, NEW b \in objects'[q]
               PROVE  arenas'[q] \in Caches /\ b \in Objects(arenas'[q], q)
    BY DEF ListsInArenas, Objects
  <2>1. CASE q = p
    BY <1>3, <1>4, <1>9, <2>1
  <2>2. CASE q # p
    BY <1>9, <2>2 DEF IInv, ListsInArenas
  <2> QED
    BY <2>1, <2>2
<1>17. KnownByCache'
  <2> SUFFICES ASSUME NEW b \in Addresses, NEW d \in Caches
               PROVE  <<b, d>> \in addresses <=> Known(b) /\ arenas'[b[1]] = d
    BY <1>1, <1>10 DEF KnownByCache
  <2>1. CASE b[1] # p \/ ~full
    BY <1>3, <1>9, <2>1, AddressParts DEF IInv, KnownByCache
  <2>2. CASE b[1] = p /\ full
    <3>1. Known(b) => Out(b)
      BY DEF Known, Out, Carrying
    <3>2. Known(b) => b = a
      BY <1>11, <2>2, <3>1 DEF IInv, OutIsMissed
    <3>3. ~Known(a)
      BY <1>1, <1>5 DEF Known, Carrying
    <3> QED
      BY <3>2, <3>3 DEF IInv, KnownByCache
  <2> QED
    BY <2>1, <2>2
<1>18. CachesRight'
  <2>1. \A u \in Threads : Allocating(u)' => cache'[u] \in Caches
    BY <1>7, <1>8 DEF IInv, CachesRight, Allocating
  <2>2. ASSUME NEW u \in Threads, pc'[u] \in {"take", "insert", "put"}
        PROVE  cache'[u] \in Caches /\ arenas'[addr'[u][1]] = cache'[u]
    <3>1. u # t /\ pc[u] \in {"take", "insert", "put"}
      BY <1>7, <1>8, <2>2
    <3>2. cache[u] \in Caches /\ arenas[addr[u][1]] = cache[u] /\ addr[u][1] \in Places
      BY <3>1, AddressParts DEF IInv, TypeOK, CachesRight
    <3>3. addr[u][1] = p => ~full
      <4>1. CASE Allocating(u)
        BY <1>2, <3>2, <4>1 DEF IInv, Disciplined
      <4>2. CASE Carrying(u)
        BY <1>5, <1>11, <3>1, <4>2, CarriedIsMissed
      <4> QED
        BY <3>1, <4>1, <4>2 DEF Allocating, Carrying
    <3> QED
      BY <1>3, <1>7, <1>9, <3>1, <3>2, <3>3
  <2> QED
    BY <2>1, <2>2 DEF CachesRight
<1>19. Disciplined'
  <2> SUFFICES ASSUME NEW v \in Threads, NEW u \in Threads, Allocating(v)', Freeing(u)'
               PROVE  arenas'[addr'[u][1]] # cache'[v]
    BY DEF Disciplined
  <2>1. u # t /\ v # t /\ Freeing(u) /\ Allocating(v)
    BY <1>7, <1>8 DEF Allocating, Freeing
  <2>2. addr[u][1] \in Places /\ cache[v] \in Caches /\ arenas[addr[u][1]] # cache[v]
    BY <2>1, AddressParts DEF IInv, TypeOK, CachesRight, Disciplined
  <2> QED
    BY <1>3, <1>7, <1>9, <2>1, <2>2, NoCacheIsNone
<1> QED
  BY <1>6, <1>13, <1>14, <1>15, <1>16, <1>17, <1>18, <1>19 DEF IInv

LEMMA StutterStep ==
    ASSUME IInv, UNCHANGED vars
    PROVE  IInv'
<1>1. UNCHANGED <<caches, arenas, objects, addresses, lent, asked, pc, count, cache, addr>>
  BY DEF vars
<1>2. \A u \in Threads : /\ Carrying(u)' <=> Carrying(u)
                         /\ Freeing(u)' <=> Freeing(u)
                         /\ Allocating(u)' <=> Allocating(u)
  BY <1>1 DEF Carrying, Freeing, Allocating
<1>3. \A a \in Addresses : (Out(a)' <=> Out(a)) /\ (Known(a)' <=> Known(a))
  BY <1>1, <1>2 DEF Out, Known
<1>4. OutIsMissed' /\ ArenasMissSome' /\ ListsInArenas' /\ KnownByCache'
  BY <1>1, <1>3, NothingMoves
<1>5. TypeOK' /\ CarriedOnce' /\ CachesRight' /\ Disciplined'
  BY <1>1, <1>2 DEF IInv, TypeOK, CarriedOnce, CachesRight, Disciplined
<1> QED
  BY <1>4, <1>5 DEF IInv

LEMMA InvariantStep == IInv /\ [Next]_vars => IInv'
<1> SUFFICES ASSUME IInv, Next PROVE IInv'
  BY StutterStep
<1>1. PICK t \in Threads : \/ \E s \in Sites : \E n \in SizesOf[s] : Alloc(t, s, n)
                           \/ ChooseArena(t) \/ Take(t) \/ NewArena(t) \/ NoMemory(t)
                           \/ InsertAddress(t)
                           \/ \E a \in lent : Free(t, a)
                           \/ EraseAddress(t) \/ Put(t)
  BY DEF Next
<1> QED
  BY <1>1, AllocStep, ChooseArenaStep, TakeStep, NewArenaStep, NoMemoryStep,
     InsertAddressStep, FreeStep, EraseAddressStep, PutStep

-------------------------------------------------------------------------------
(* What the invariant says of the lists and of the map.                      *)

LEMMA ImpliesArenasAccountFor == IInv => ArenasAccountFor
<1> SUFFICES ASSUME IInv PROVE ArenasAccountFor
  OBVIOUS
<1> DEFINE held == lent \cup {addr[t] : t \in {u \in Threads : Carrying(u)}}
<1>1. held \subseteq Addresses /\ \A a : a \in held <=> Out(a)
  BY DEF IInv, TypeOK, Out
<1>2. ASSUME NEW p \in Places
      PROVE  /\ Missing(p) = {a \in held : PlaceOf(a) = p}
             /\ arenas[p] # NoCache => Missing(p) # {}
  <2>1. arenas[p] \in Caches <=> arenas[p] # NoCache
    BY NoCacheIsNone DEF IInv, TypeOK
  <2>2. \A a : a \in Missing(p) => a \in Addresses /\ a[1] = p /\ Missed(a)
    BY <2>1, ObjectsOfArena DEF Missing, Missed
  <2>3. \A a \in Addresses : a[1] = p /\ Missed(a) => a \in Missing(p)
    BY <2>1 DEF Missing, Missed
  <2>4. Missing(p) = {a \in held : PlaceOf(a) = p}
    BY <1>1, <2>2, <2>3 DEF IInv, OutIsMissed, PlaceOf
  <2>5. arenas[p] # NoCache => Missing(p) # {}
    BY <2>1, <2>3 DEF IInv, ArenasMissSome
  <2> QED
    BY <2>4, <2>5
<1>3. \A t \in Threads :
        Carrying(t) => /\ addr[t] \notin lent
                       /\ \A u \in Threads \ {t} : Carrying(u) => addr[u] # addr[t]
  BY DEF IInv, CarriedOnce
<1> QED
  BY <1>2, <1>3 DEF ArenasAccountFor

LEMMA ImpliesAddressesExact == IInv => AddressesExact
<1> SUFFICES ASSUME IInv PROVE AddressesExact
  OBVIOUS
<1> DEFINE held == lent \cup {addr[t] : t \in {u \in Threads : pc[u] = "erase"}}
<1>1. held \subseteq Addresses /\ \A a : a \in held <=> Known(a)
  BY DEF IInv, TypeOK, Known
<1>2. ASSUME NEW x \in addresses
      PROVE  x[1] \in held /\ arenas[PlaceOf(x[1])] = x[2]
  <2>1. x[1] \in Addresses /\ x[2] \in Caches /\ x = <<x[1], x[2]>>
    BY DEF IInv, TypeOK
  <2>2. Known(x[1]) /\ arenas[x[1][1]] = x[2]
    BY <2>1 DEF IInv, KnownByCache
  <2> QED
    BY <1>1, <2>2 DEF PlaceOf
<1>3. ASSUME NEW a \in held
      PROVE  \E x \in addresses : x[1] = a
  <2>1. a \in Addresses /\ Known(a)
    BY <1>1
  <2>2. Known(a) => Out(a)
    BY DEF Known, Out, Carrying
  <2>3. arenas[a[1]] \in Caches
    BY <2>1, <2>2 DEF IInv, OutIsMissed, Missed
  <2>4. <<a, arenas[a[1]]>> \in addresses
    BY <2>1, <2>3 DEF IInv, KnownByCache
  <2> QED
    BY <2>4
<1>4. {x[1] : x \in addresses} = held
  BY <1>2, <1>3
<1>5. \A t \in Threads : pc[t] = "put" => arenas[PlaceOf(addr[t])] = cache[t]
  BY DEF IInv, CachesRight, PlaceOf
<1> QED
  BY <1>2, <1>4, <1>5 DEF AddressesExact

-------------------------------------------------------------------------------
(* What is asked for is what an object has.                                  *)

\* A thread that allocates for a regular site asks for what its cache gives.
RightCount(t) == Allocating(t) /\ Regular(cache[t].site) => count[t] = cache[t].size

SizesKept ==
    /\ \A t \in Threads : RightCount(t)
    /\ \A a \in lent : Regular(arenas[a[1]].site) => asked[a] = arenas[a[1]].size

\* Two objects of one size do not overlap.
LEMMA MultiplesApart ==
    ASSUME NEW x \in Nat, NEW y \in Nat, NEW n \in Nat \ {0}, x % n = 0, y % n = 0, x < y
    PROVE  x + n <= y
<1> DEFINE q == x \div n
<1> DEFINE r == y \div n
<1>1. q \in Nat /\ x = n * q
  BY DivisionFacts
<1>2. r \in Nat /\ y = n * r
  BY DivisionFacts
<1> HIDE DEF q, r
<1>3. q < r
  <2>1. r <= q => n * r <= n * q
    BY <1>1, <1>2
  <2> QED BY <1>1, <1>2, <2>1
<1>4. PICK d \in Nat : r = q + 1 + d
  <2>1. r - (q + 1) \in Nat /\ r = q + 1 + (r - (q + 1))
    BY <1>1, <1>2, <1>3
  <2> QED BY <2>1
<1>5. n * (q + 1 + d) = n * q + n + n * d /\ n * d \in Nat
  BY <1>1, <1>4
<1> QED BY <1>1, <1>2, <1>4, <1>5

\* Where the program has an object there is an arena, before a step and after.
LEMMA LentInArena ==
    ASSUME IInv, NEW a \in lent
    PROVE  /\ a \in Addresses /\ a[1] \in Places /\ arenas[a[1]] \in Caches
           /\ a \in Objects(arenas[a[1]], a[1])
<1>1. a \in Addresses /\ Out(a)
  BY DEF IInv, TypeOK, Out
<1> QED BY <1>1, AddressParts DEF IInv, OutIsMissed, Missed

\* An arena keeps its cache while the program has one of its objects.
LEMMA ArenaStays ==
    ASSUME IInv, IInv', Next, NEW a \in lent, a \in lent'
    PROVE  arenas'[a[1]] = arenas[a[1]]
<1>1. arenas[a[1]] \in Caches /\ arenas'[a[1]] \in Caches /\ a[1] \in Places
  <2>1. arenas[a[1]] \in Caches /\ a[1] \in Places
    BY LentInArena
  <2>2. a \in Addresses /\ Out(a)'
    BY DEF IInv, TypeOK, Out
  <2>3. Missed(a)'
    BY <2>2 DEF IInv, OutIsMissed
  <2> QED BY <2>1, <2>3 DEF Missed
<1>2. PICK t \in Threads :
        \/ arenas' = arenas
        \/ NewArena(t)
        \/ Put(t)
  BY DEF Next, Alloc, ChooseArena, Take, NoMemory, InsertAddress, Free, EraseAddress, arenaVars
<1>3. CASE NewArena(t)
  <2>1. PICK p \in Places : arenas[p] = NoCache /\ arenas' = [arenas EXCEPT ![p] = cache[t]]
    BY <1>3 DEF NewArena
  <2>2. a[1] # p
    BY <1>1, <2>1, NoCacheIsNone
  <2> QED BY <1>1, <2>1, <2>2 DEF IInv, TypeOK
<1>4. CASE Put(t)
  <2>1. \A p \in Places : arenas'[p] = arenas[p] \/ arenas'[p] = NoCache
    BY <1>4 DEF Put, IInv, TypeOK
  <2> QED BY <1>1, <2>1, NoCacheIsNone
<1> QED BY <1>2, <1>3, <1>4

LEMMA SizesKeptInit == Init => SizesKept
BY DEF Init, SizesKept, RightCount, Allocating

LEMMA SizesKeptStep ==
    ASSUME IInv, IInv', SizesKept, [Next]_vars
    PROVE  SizesKept'
<1>1. CASE UNCHANGED vars
  BY <1>1 DEF vars, SizesKept, RightCount, Allocating, Regular
<1>2. CASE Next
  <2>1. PICK t \in Threads : \/ \E s \in Sites : \E n \in SizesOf[s] : Alloc(t, s, n)
                             \/ ChooseArena(t) \/ Take(t) \/ NewArena(t) \/ NoMemory(t)
                             \/ InsertAddress(t)
                             \/ \E a \in lent : Free(t, a)
                             \/ EraseAddress(t) \/ Put(t)
    BY <1>2 DEF Next
  <2>2. ASSUME NEW a \in lent', a \in lent, asked'[a] = asked[a]
        PROVE  Regular(arenas'[a[1]].site) => asked'[a] = arenas'[a[1]].size
    BY <1>2, <2>2, ArenaStays DEF SizesKept
  <2>3. CASE \E s \in Sites : \E n \in SizesOf[s] : Alloc(t, s, n)
    <3>s. PICK s \in Sites : \E n \in SizesOf[s] : Alloc(t, s, n)
      BY <2>3
    <3>1. PICK n \in SizesOf[s] : Alloc(t, s, n)
      BY <3>s
    <3>2. Regular(CacheFor(t, s, n).site) => CacheFor(t, s, n).size = n
      BY CacheForRight DEF IInv, Regular, Caches
    <3>3. /\ pc' = [pc EXCEPT ![t] = "get"] /\ count' = [count EXCEPT ![t] = n]
          /\ cache' = [cache EXCEPT ![t] = CacheFor(t, s, n)]
          /\ lent' = lent /\ asked' = asked
      BY <3>1 DEF Alloc, Goto, programVars
    <3>4. \A u \in Threads : RightCount(u)'
      BY <3>2, <3>3 DEF IInv, TypeOK, SizesKept, RightCount, Allocating, Regular
    <3> QED BY <2>2, <3>3, <3>4 DEF SizesKept
  <2>4. CASE ChooseArena(t) \/ Take(t) \/ NewArena(t)
    <3>1. /\ UNCHANGED <<count, cache, lent, asked>> /\ Allocating(t)
          /\ \A u \in Threads \ {t} : pc'[u] = pc[u]
      BY <2>4 DEF ChooseArena, Take, NewArena, Goto, programVars, Allocating, IInv, TypeOK
    <3>2. \A u \in Threads : RightCount(u)'
      BY <3>1 DEF SizesKept, RightCount, Allocating, Regular
    <3> QED BY <2>2, <3>1, <3>2 DEF SizesKept
  <2>5. CASE NoMemory(t) \/ InsertAddress(t) \/ Put(t)
    <3>1. /\ ~Allocating(t)'
          /\ \A u \in Threads \ {t} : /\ pc'[u] = pc[u] /\ count'[u] = count[u]
                                       /\ cache'[u] = cache[u]
      BY <2>5 DEF NoMemory, InsertAddress, Put, Return, Goto, Allocating, IInv, TypeOK
    <3>2. \A u \in Threads : RightCount(u)'
      BY <3>1 DEF SizesKept, RightCount, Allocating, Regular
    <3>3. CASE NoMemory(t) \/ Put(t)
      <4>1. UNCHANGED <<lent, asked>>
        BY <3>3 DEF NoMemory, Put, programVars
      <4> QED BY <2>2, <3>2, <4>1 DEF SizesKept
    <3>4. CASE InsertAddress(t)
      <4>1. /\ lent' = lent \cup {addr[t]} /\ asked' = [asked EXCEPT ![addr[t]] = count[t]]
            /\ arenas' = arenas /\ pc[t] = "insert"
        BY <3>4 DEF InsertAddress, arenaVars
      <4>2. addr[t] \in Addresses /\ lent \subseteq Addresses /\ asked \in [Addresses -> 0..BlockSize]
        BY DEF IInv, TypeOK
      <4>3. /\ Regular(cache[t].site) => count[t] = cache[t].size
            /\ arenas[addr[t][1]] = cache[t]
        BY <4>1 DEF IInv, CachesRight, SizesKept, RightCount, Allocating
      <4>4. \A a \in lent' : Regular(arenas'[a[1]].site) => asked'[a] = arenas'[a[1]].size
        BY <4>1, <4>2, <4>3 DEF SizesKept
      <4> QED BY <3>2, <4>4 DEF SizesKept
    <3> QED BY <2>5, <3>3, <3>4
  <2>6. CASE EraseAddress(t) \/ \E a \in lent : Free(t, a)
    <3>1. /\ ~Allocating(t)'
          /\ \A u \in Threads \ {t} : /\ pc'[u] = pc[u] /\ count'[u] = count[u]
                                       /\ cache'[u] = cache[u]
      <4>1. /\ pc' = [pc EXCEPT ![t] = "erase"] \/ pc' = [pc EXCEPT ![t] = "put"]
            /\ count' = count
            /\ cache' = cache \/ \E c \in Caches : cache' = [cache EXCEPT ![t] = c]
        BY <2>6 DEF EraseAddress, Free, Goto
      <4>2. pc'[t] \in {"erase", "put"} /\ \A u \in Threads \ {t} : pc'[u] = pc[u]
        BY <4>1 DEF IInv, TypeOK
      <4>3. \A u \in Threads \ {t} : cache'[u] = cache[u]
        BY <4>1 DEF IInv, TypeOK
      <4> QED BY <4>1, <4>2, <4>3 DEF Allocating
    <3>2. \A u \in Threads : RightCount(u)'
      BY <3>1 DEF SizesKept, RightCount, Allocating, Regular
    <3>3. \A a \in lent' : a \in lent /\ asked'[a] = asked[a]
      BY <2>6 DEF EraseAddress, Free, programVars, IInv, TypeOK
    <3> QED BY <2>2, <3>2, <3>3 DEF SizesKept
  <2> QED BY <2>1, <2>3, <2>4, <2>5, <2>6
<1> QED BY <1>1, <1>2

LEMMA ImpliesObjectsApart ==
    ASSUME IInv, SizesKept
    PROVE  ObjectsApart
<1> SUFFICES ASSUME NEW a \in lent, Regular(arenas[a[1]].site)
             PROVE  /\ a[2] + asked[a] <= BlockSize
                    /\ \A b \in lent \ {a} : PlaceOf(b) = PlaceOf(a) =>
                          a[2] + asked[a] <= b[2] \/ b[2] + asked[b] <= a[2]
  BY DEF ObjectsApart, HasItsBytes, PlaceOf
<1> DEFINE c == arenas[a[1]]
<1>1. c \in Caches /\ asked[a] = c.size
  BY LentInArena DEF SizesKept
<1>2. PICK n \in Nat \ {0} : n = c.size /\ BlockSize % n = 0
  <2>1. c.site \in Sites /\ c.size \in SizesOf[c.site] /\ c.size \in 1..BlockSize
    BY <1>1 DEF Caches
  <2>2. BlockSize % c.size = 0
    BY <2>1 DEF Regular
  <2>3. c.size \in Nat \ {0}
    BY <2>1, SizesAssumption
  <2> HIDE DEF c
  <2> QED BY <2>2, <2>3
<1>3. \A b \in lent : PlaceOf(b) = PlaceOf(a) =>
        /\ b \in Addresses /\ b[2] \in 0..BlockSize - 1 /\ b[2] % n = 0 /\ asked[b] = n
  <2> SUFFICES ASSUME NEW b \in lent, b[1] = a[1]
               PROVE  b \in Addresses /\ b[2] \in 0..BlockSize - 1 /\ b[2] % n = 0 /\ asked[b] = n
    BY DEF PlaceOf
  <2>1. b \in Addresses /\ b \in Objects(c, b[1]) /\ asked[b] = c.size
    BY LentInArena DEF SizesKept
  <2> QED BY <1>2, <2>1 DEF Objects, Addresses
<1>4. BlockSize \in Nat \ {0}
  BY SizesAssumption
<1>5. a[2] + asked[a] <= BlockSize
  BY <1>2, <1>3, <1>4, MultiplesApart
<1>6. ASSUME NEW b \in lent \ {a}, PlaceOf(b) = PlaceOf(a)
      PROVE  a[2] + asked[a] <= b[2] \/ b[2] + asked[b] <= a[2]
  <2>1. /\ a[2] \in Nat /\ b[2] \in Nat /\ a[2] % n = 0 /\ b[2] % n = 0
        /\ asked[a] = n /\ asked[b] = n
    BY <1>3, <1>4, <1>6
  <2>2. a[2] # b[2]
    BY <1>3, <1>6 DEF Addresses, PlaceOf
  <2> QED BY <1>2, <2>1, <2>2, MultiplesApart
<1> QED BY <1>5, <1>6

-------------------------------------------------------------------------------
(* The theorems.                                                             *)

LEMMA InvariantHolds == Spec => []IInv
BY InvariantInit, InvariantStep, PTL DEF Spec

(* The state has its types: the objects in a list and the addresses in the   *)
(* map are addresses, whatever the threads do (Cache.cpp, Slab.cpp).         *)
THEOREM SlabTypeCorrect == Spec => []TypeOK
<1>1. IInv => TypeOK
  BY DEF IInv
<1> QED
  BY <1>1, InvariantHolds, PTL

(* Every object of an arena is in its list, with the program or with one     *)
(* thread, never in two of these places, and the arena goes exactly when it  *)
(* has them all back (Arena::get, Arena::put, Cache::put), for any threads,   *)
(* call sites and places, and whatever sizes are asked for.                  *)
THEOREM ObjectsAccountedFor == Spec => []ArenasAccountFor
BY InvariantHolds, ImpliesArenasAccountFor, PTL

(* gmacFree finds every object the program has, in the cache it came from    *)
(* (Slab::free, Cache::put), although arenas move between caches.            *)
THEOREM ObjectsFound == Spec => []AddressesExact
BY InvariantHolds, ImpliesAddressesExact, PTL

(* A call site that asks for one size, which divides the block, gets the    *)
(* bytes it asks for, in the block and shared with no other object, whatever *)
(* the other call sites ask for (Arena::Arena, Slab::get).                   *)
THEOREM ObjectsStayApart == Spec => []ObjectsApart
<1>1. IInv /\ IInv' /\ SizesKept /\ [Next]_vars => SizesKept'
  BY SizesKeptStep
<1>2. IInv /\ SizesKept => ObjectsApart
  BY ImpliesObjectsApart
<1> QED
  BY <1>1, <1>2, SizesKeptInit, InvariantHolds, PTL DEF Spec

===============================================================================
