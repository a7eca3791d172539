------------------------------- MODULE SlabCache -------------------------------
(***************************************************************************)
(* Small shared objects: gmacMalloc of less than half a block takes them   *)
(* from an arena of one block that belongs to the cache of its mode and    *)
(* call site, and gmacFree finds the cache in a map of all addresses       *)
(* (memory/allocator/Slab.cpp, Cache.cpp, Cache-impl.h, hpe/gmac.cpp).     *)
(*                                                                         *)
(* A step is what a thread does under one lock, or without one.  Threads   *)
(* have modes of their own and free what others allocate, but not while    *)
(* the other allocates from the same cache: Cache::get gives up its lock   *)
(* before it takes the object.  A cache has the size of the first request  *)
(* of its call site, and serves all others of that site with it.           *)
(***************************************************************************)
EXTENDS Integers

CONSTANTS
    Threads,        \* threads, each with its mode
    Sites,          \* places in the program that call gmacMalloc
    SizesOf,        \* the sizes each asks for
    BlockSize,      \* memory::BlockSize_
    Places          \* where Manager::alloc can put a block

ASSUME PlacesAssumption == Places # {}
ASSUME SizesAssumption ==
    /\ BlockSize \in Nat \ {0}
    /\ SizesOf \in [Sites -> SUBSET {n \in 1..BlockSize : 2 * n < BlockSize}]

\* The caches there can be: one of a mode and a call site, and its objectSize.
Caches == {c \in [mode : Threads, site : Sites, size : 1..BlockSize] : c.size \in SizesOf[c.site]}

NoCache == [mode |-> "none", site |-> "none", size |-> 0]

VARIABLES
    caches,     \* the caches of all modes (Slab::modes)
    arenas,     \* the cache each place belongs to
    objects,    \* Arena::objects_ of the arena there
    addresses,  \* Slab::addresses
    lent,       \* addresses the program has
    asked,      \* the bytes it asked for there
    pc,         \* where each thread is
    count,      \* the bytes it asks for
    cache,      \* the cache it works with
    addr        \* the address of an arena or an object

vars == <<caches, arenas, objects, addresses, lent, asked, pc, count, cache, addr>>
arenaVars == <<arenas, objects>>
programVars == <<lent, asked>>

\* An address, as the place of a block and the offset in it.
Addresses == Places \X (0..BlockSize - 1)

PlaceOf(a) == a[1]

\* Mutant: the loop of the constructor goes one object too far.
ObjectsOneMore(c, p) == {<<p, k>> : k \in {i \in 0..BlockSize : i % c.size = 0}}

\* Arena::Arena: the objects of an arena of cache c at place p.  The last one
\* may go on behind the end of the block.
Objects(c, p) == {<<p, k>> : k \in {i \in 0..BlockSize - 1 : i % c.size = 0}}

TypeOK ==
    /\ caches \subseteq Caches
    /\ arenas \in [Places -> Caches \cup {NoCache}]
    /\ objects \in [Places -> SUBSET Addresses]
    /\ addresses \subseteq Addresses \X Caches
    /\ lent \subseteq Addresses
    /\ asked \in [Addresses -> 0..BlockSize]
    /\ pc \in [Threads -> {"idle", "get", "take", "insert", "erase", "put"}]
    /\ count \in [Threads -> 0..BlockSize]
    /\ cache \in [Threads -> Caches \cup {NoCache}]
    /\ addr \in [Threads -> Addresses]

\* The value of addr where it has none.
NoAddress == CHOOSE a \in Addresses : TRUE

Init ==
    /\ caches = {}
    /\ arenas = [p \in Places |-> NoCache]
    /\ objects = [p \in Places |-> {}]
    /\ addresses = {}
    /\ lent = {}
    /\ asked = [a \in Addresses |-> 0]
    /\ pc = [t \in Threads |-> "idle"]
    /\ count = [t \in Threads |-> 0]
    /\ cache = [t \in Threads |-> NoCache]
    /\ addr = [t \in Threads |-> NoAddress]

Goto(t, l) == pc' = [pc EXCEPT ![t] = l]

Return(t) ==
    /\ Goto(t, "idle")
    /\ count' = [count EXCEPT ![t] = 0]
    /\ cache' = [cache EXCEPT ![t] = NoCache]
    /\ addr' = [addr EXCEPT ![t] = NoAddress]

\* Threads that are inside gmacMalloc, and inside gmacFree.
Allocating(t) == pc[t] \in {"get", "take", "insert"}
Freeing(t) == pc[t] \in {"erase", "put"}

-------------------------------------------------------------------------------
(* gmacMalloc of a small object.                                             *)

\* Mutant: a cache is looked up by its mode alone.
CacheOfMode(t, s, n) ==
    LET found == {c \in caches : c.mode = t}
    IN  IF found = {} THEN [mode |-> t, site |-> s, size |-> n] ELSE CHOOSE c \in found : TRUE

\* Slab::get: the cache of the mode and the call site, or a new one for the size.
CacheFor(t, s, n) ==
    LET found == {c \in caches : c.mode = t /\ c.site = s}
    IN  IF found = {} THEN [mode |-> t, site |-> s, size |-> n] ELSE CHOOSE c \in found : TRUE

Alloc(t, s, n) ==
    /\ pc[t] = "idle"
    /\ \A u \in Threads : Freeing(u) => arenas[PlaceOf(addr[u])] # CacheFor(t, s, n)
    /\ caches' = caches \cup {CacheFor(t, s, n)}
    /\ Goto(t, "get")
    /\ count' = [count EXCEPT ![t] = n]
    /\ cache' = [cache EXCEPT ![t] = CacheFor(t, s, n)]
    /\ UNCHANGED <<arenaVars, addresses, programVars, addr>>

\* Arenas of cache c that have objects to give.
NonEmpty(c) == {p \in Places : arenas[p] = c /\ objects[p] # {}}

\* Cache::get chooses an arena and gives up its lock.
ChooseArena(t) ==
    /\ pc[t] = "get"
    /\ \E p \in NonEmpty(cache[t]) : addr' = [addr EXCEPT ![t] = <<p, 0>>]
    /\ Goto(t, "take")
    /\ UNCHANGED <<caches, arenaVars, addresses, programVars, count, cache>>

\* Arena::get.
Take(t) ==
    /\ pc[t] = "take"
    /\ LET p == PlaceOf(addr[t])
       IN  \E a \in objects[p] :
             /\ objects' = [objects EXCEPT ![p] = @ \ {a}]
             /\ addr' = [addr EXCEPT ![t] = a]
    /\ Goto(t, "insert")
    /\ UNCHANGED <<caches, arenas, addresses, programVars, count, cache>>

\* Cache::get creates an arena and takes its first object.
NewArena(t) ==
    /\ pc[t] = "get"
    /\ NonEmpty(cache[t]) = {}
    /\ \E p \in Places :
         /\ arenas[p] = NoCache
         /\ arenas' = [arenas EXCEPT ![p] = cache[t]]
         /\ objects' = [objects EXCEPT ![p] = Objects(cache[t], p) \ {<<p, 0>>}]
         /\ addr' = [addr EXCEPT ![t] = <<p, 0>>]
    /\ Goto(t, "insert")
    /\ UNCHANGED <<caches, addresses, programVars, count, cache>>

\* Manager::alloc fails, and gmacMalloc returns NULL.
NoMemory(t) ==
    /\ pc[t] = "get"
    /\ NonEmpty(cache[t]) = {}
    /\ \A p \in Places : arenas[p] # NoCache
    /\ Return(t)
    /\ UNCHANGED <<caches, arenaVars, addresses, programVars>>

\* Slab::alloc records the address and returns it.
InsertAddress(t) ==
    /\ pc[t] = "insert"
    /\ addresses' = addresses \cup {<<addr[t], cache[t]>>}
    /\ lent' = lent \cup {addr[t]}
    /\ asked' = [asked EXCEPT ![addr[t]] = count[t]]
    /\ Return(t)
    /\ UNCHANGED <<caches, arenaVars>>

-------------------------------------------------------------------------------
(* gmacFree of a small object.                                               *)

Free(t, a) ==
    /\ pc[t] = "idle"
    /\ a \in lent
    /\ lent' = lent \ {a}
    /\ asked' = [asked EXCEPT ![a] = 0]
    /\ \A u \in Threads : Allocating(u) => arenas[PlaceOf(a)] # cache[u]
    /\ Goto(t, "erase")
    /\ addr' = [addr EXCEPT ![t] = a]
    /\ UNCHANGED <<caches, arenaVars, addresses, count, cache>>

\* Mutant: the address stays in the map.
EraseForgotten(t) ==
    /\ pc[t] = "erase"
    /\ \E c \in Caches :
         /\ <<addr[t], c>> \in addresses
         /\ cache' = [cache EXCEPT ![t] = c]
    /\ Goto(t, "put")
    /\ UNCHANGED <<caches, arenaVars, addresses, programVars, count, addr>>

\* Slab::free under the lock of the map.
EraseAddress(t) ==
    /\ pc[t] = "erase"
    /\ \E c \in Caches :
         /\ <<addr[t], c>> \in addresses
         /\ addresses' = addresses \ {<<addr[t], c>>}
         /\ cache' = [cache EXCEPT ![t] = c]
    /\ Goto(t, "put")
    /\ UNCHANGED <<caches, arenaVars, programVars, count, addr>>

\* Mutant: an arena that still misses an object is full.
PutAllButOne(t) ==
    /\ pc[t] = "put"
    /\ LET p == PlaceOf(addr[t])
           back == objects[p] \cup {addr[t]}
           full == \E a \in Addresses : back \cup {a} = Objects(cache[t], p)
       IN  /\ objects' = [objects EXCEPT ![p] = IF full THEN {} ELSE back]
           /\ arenas' = [arenas EXCEPT ![p] = IF full THEN NoCache ELSE @]
    /\ Return(t)
    /\ UNCHANGED <<caches, addresses, programVars>>

\* Cache::put: the arena goes when it has all its objects back.
Put(t) ==
    /\ pc[t] = "put"
    /\ LET p == PlaceOf(addr[t])
           back == objects[p] \cup {addr[t]}
           full == back = Objects(cache[t], p)
       IN  /\ objects' = [objects EXCEPT ![p] = IF full THEN {} ELSE back]
           /\ arenas' = [arenas EXCEPT ![p] = IF full THEN NoCache ELSE @]
    /\ Return(t)
    /\ UNCHANGED <<caches, addresses, programVars>>

-------------------------------------------------------------------------------

Next ==
    \E t \in Threads :
        \/ \E s \in Sites : \E n \in SizesOf[s] : Alloc(t, s, n)
        \/ ChooseArena(t)
        \/ Take(t)
        \/ NewArena(t)
        \/ NoMemory(t)
        \/ InsertAddress(t)
        \/ \E a \in lent : Free(t, a)
        \/ EraseAddress(t)
        \/ Put(t)

Spec == Init /\ [][Next]_vars

-------------------------------------------------------------------------------
(* Properties.                                                               *)

\* Threads that hold an object on its way to the program or back.
Carrying(t) == pc[t] \in {"insert", "erase", "put"}

\* The objects of the arena at p that are not in its list.
Missing(p) == IF arenas[p] = NoCache THEN {} ELSE Objects(arenas[p], p) \ objects[p]

(* The list of an arena and the objects that are out, each with the program  *)
(* or with one thread, make up its block; the arena lives while one of them  *)
(* is out (Arena asserts that it is complete when it goes), and goes with    *)
(* the last of them, although memory moves from one cache to another while   *)
(* threads free each other's objects.                                        *)
ArenasAccountFor ==
    /\ \A p \in Places :
         /\ Missing(p) = {a \in lent \cup {addr[t] : t \in {u \in Threads : Carrying(u)}} :
                            PlaceOf(a) = p}
         /\ arenas[p] # NoCache => Missing(p) # {}
    /\ \A t \in Threads :
         Carrying(t) => /\ addr[t] \notin lent
                        /\ \A u \in Threads \ {t} : Carrying(u) => addr[u] # addr[t]

\* Call sites that always ask for the same size, one that divides the block.
Regular(s) == \A n, m \in SizesOf[s] : n = m /\ BlockSize % n = 0

\* The bytes asked for at address a: in the block, and nobody else has one.
HasItsBytes(a) ==
    /\ a[2] + asked[a] <= BlockSize
    /\ \A b \in lent \ {a} : PlaceOf(b) = PlaceOf(a) =>
          a[2] + asked[a] <= b[2] \/ b[2] + asked[b] <= a[2]

(* gmacMalloc returns the bytes it is asked for at every call site that is   *)
(* regular, whatever the other sites of the mode ask for and whoever frees:  *)
(* no two requests of different sites meet in one arena (Slab::get).         *)
ObjectsApart == \A a \in lent : Regular(arenas[PlaceOf(a)].site) => HasItsBytes(a)

(* gmacMalloc returns the bytes it is asked for, at every call site.  Not so *)
(* in the code: a cache keeps the size of the first request of its site, and *)
(* the last object of an odd size goes on behind the block (Cache.cpp:12).   *)
BytesOwned == \A a \in lent : HasItsBytes(a)

(* gmacFree finds every object of the program, in the cache it is from:      *)
(* an address leaves the map before its memory can come back for another,    *)
(* and put() finds the arena of the object in its cache (CFATAL of put).     *)
AddressesExact ==
    /\ {x[1] : x \in addresses} =
         lent \cup {addr[t] : t \in {u \in Threads : pc[u] = "erase"}}
    /\ \A x \in addresses : arenas[PlaceOf(x[1])] = x[2]
    /\ \A t \in Threads : pc[t] = "put" => arenas[PlaceOf(addr[t])] = cache[t]

===============================================================================
