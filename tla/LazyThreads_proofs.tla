-------------------------- MODULE LazyThreads_proofs --------------------------
(***************************************************************************)
(* Proofs about threads and the locks they take, for any number of         *)
(* threads, modes and objects.                                             *)
(***************************************************************************)
EXTENDS LazyThreads, Facts

-------------------------------------------------------------------------------
(* The inductive invariant.                                                  *)

\* Calls that walk over all objects of the mode.
Walks == {"launchAll", "synchronize"}

\* Places in a loop over the Dirty Block List, and in its protocol.
InLoop == {"loop", "front", "lockVictim", "evict"}
InProtocol == {"lockProtocol", "push"} \cup InLoop

\* The locks that a thread holds, read off the place where it is.
HoldsMap(t) ==
    \/ pc[t] \in {"each", "enter"} /\ call[t] \in Walks
    \/ pc[t] \in {"lockBlock", "operate"} /\ call[t] = "synchronize"

HoldsObject(t) ==
    \/ pc[t] \in {"notify", "lockBlock", "operate"}
    \/ pc[t] \in InProtocol /\ call[t] = "writeFault"

HoldsBlock(t) ==
    \/ pc[t] = "operate"
    \/ pc[t] \in InProtocol /\ call[t] = "writeFault"

HoldsProtocol(t) == pc[t] \in InLoop \cup {"push"}

HoldsVictim(t) == pc[t] = "evict"

Holds(t, h) ==
    \/ HoldsMap(t) /\ h = << <<"map", ModeOf[t]>>, "read" >>
    \/ HoldsObject(t) /\ call[t] = "writeFault" /\ h = << <<"object", arg[t]>>, "read" >>
    \/ HoldsObject(t) /\ call[t] # "writeFault" /\ h = << <<"object", arg[t]>>, "write" >>
    \/ HoldsBlock(t) /\ h = << <<"block", arg[t]>>, "write" >>
    \/ HoldsProtocol(t) /\ h = << <<"protocol", protocol[t]>>, "write" >>
    \/ HoldsVictim(t) /\ h = << <<"block", victim[t]>>, "write" >>

\* The places each call comes to.
Placed(t) ==
    /\ pc[t] = "idle" <=> call[t] = "none"
    /\ pc[t] = "find" => call[t] \in {"writeFault", "launchListed"}
    /\ pc[t] \in {"check", "each"} => call[t] \in Walks
    /\ pc[t] \in {"notify", "push"} => call[t] = "writeFault"
    /\ pc[t] \in {"lockBlock", "operate"} => call[t] # "launchAll"
    /\ pc[t] \in InProtocol => call[t] # "synchronize"
    /\ pc[t] \in InLoop => call[t] # "launchListed"
    /\ pc[t] = "finish" => call[t] # "writeFault"

\* A fault works on the protocol of its object, a launch on that of its mode
\* and then on the global one.
OwnProtocol(t) ==
    pc[t] \in InProtocol =>
        IF call[t] = "writeFault"
        THEN protocol[t] = Home[arg[t]]
        ELSE protocol[t] \in {ModeOf[t], "global"}

\* A block that is on its way into the list stays Dirty.
Adding(t) == call[t] = "writeFault" /\ pc[t] \in {"lockProtocol", "push"}

ToList(t) == Adding(t) => arg[t] \in dirty

\* What is so of each thread by itself.
Well(t) ==
    /\ Placed(t)
    /\ OwnProtocol(t)
    /\ ToList(t)
    /\ \A h : h \in held[t] <=> Holds(t, h)

\* No two threads hold one block or one protocol, and no thread a block twice.
Apart(t, u) ==
    /\ t # u /\ HoldsBlock(t) /\ HoldsBlock(u) => arg[t] # arg[u]
    /\ t # u /\ HoldsProtocol(t) /\ HoldsProtocol(u) => protocol[t] # protocol[u]
    /\ t # u /\ HoldsVictim(t) /\ HoldsVictim(u) => victim[t] # victim[u]
    /\ HoldsBlock(t) /\ HoldsVictim(u) => arg[t] # victim[u]

LockInv ==
    /\ TypeOK
    /\ \A t \in Threads : Well(t)
    /\ \A t, u \in Threads : Apart(t, u)
    /\ DirtyListed

-------------------------------------------------------------------------------
(* What a granted lock means.                                                *)

LEMMA RequestAt ==
    ASSUME NEW t \in Threads
    PROVE  /\ pc[t] = "enter" /\ call[t] = "writeFault" =>
                  Request(t) = << <<"object", arg[t]>>, "read" >>
           /\ pc[t] = "enter" /\ call[t] # "writeFault" =>
                  Request(t) = << <<"object", arg[t]>>, "write" >>
           /\ pc[t] = "lockBlock" => Request(t) = << <<"block", arg[t]>>, "write" >>
           /\ pc[t] = "lockProtocol" => Request(t) = << <<"protocol", protocol[t]>>, "write" >>
           /\ pc[t] = "lockVictim" => Request(t) = << <<"block", victim[t]>>, "write" >>
           /\ pc[t] \in {"find", "check"} => Request(t) = << <<"map", ModeOfCall(t)>>, "read" >>
           /\ pc[t] = "notify" => Request(t) = << <<"map", Home[arg[t]]>>, "write" >>
           /\ pc[t] = "finish" => Request(t) = << <<"map", ModeOf[t]>>, "write" >>
BY DEF Request

(* A block a thread gets to lock is held by nobody.                          *)
LEMMA BlockFree ==
    ASSUME NEW t \in Threads, NEW o, Granted(t), pc[t] \in Locking,
           Request(t) = << <<"block", o>>, "write" >>,
           NEW u \in Threads, Well(u)
    PROVE  /\ HoldsBlock(u) => arg[u] # o
           /\ HoldsVictim(u) => victim[u] # o
<1>1. << <<"block", o>>, "write" >> \notin held[u]
  BY DEF Granted, Blocks
<1>2. ~Holds(u, << <<"block", o>>, "write" >>)
  BY <1>1 DEF Well
<1> QED BY <1>2 DEF Holds

LEMMA ProtocolFree ==
    ASSUME NEW t \in Threads, NEW p, Granted(t), pc[t] \in Locking,
           Request(t) = << <<"protocol", p>>, "write" >>,
           NEW u \in Threads, Well(u)
    PROVE  HoldsProtocol(u) => protocol[u] # p
<1>1. << <<"protocol", p>>, "write" >> \notin held[u]
  BY DEF Granted, Blocks
<1>2. ~Holds(u, << <<"protocol", p>>, "write" >>)
  BY <1>1 DEF Well
<1> QED BY <1>2 DEF Holds

-------------------------------------------------------------------------------
(* What a step of one thread leaves alone.                                   *)

\* Nothing that belongs to another thread changes.
OnlyMoves(t) ==
    \A u \in Threads \ {t} :
        /\ call'[u] = call[u]
        /\ pc'[u] = pc[u]
        /\ arg'[u] = arg[u]
        /\ victim'[u] = victim[u]
        /\ protocol'[u] = protocol[u]
        /\ held'[u] = held[u]

\* The thread locks nothing that keeps others from a block or a protocol.
LocksNothing(t) ==
    /\ HoldsBlock(t)' => HoldsBlock(t) /\ arg'[t] = arg[t]
    /\ HoldsProtocol(t)' => HoldsProtocol(t) /\ protocol'[t] = protocol[t]
    /\ HoldsVictim(t)' => HoldsVictim(t) /\ victim'[t] = victim[t]

LEMMA OthersSame ==
    ASSUME NEW t \in Threads, OnlyMoves(t), NEW u \in Threads \ {t}
    PROVE  /\ HoldsMap(u)' <=> HoldsMap(u)
           /\ HoldsObject(u)' <=> HoldsObject(u)
           /\ HoldsBlock(u)' <=> HoldsBlock(u)
           /\ HoldsProtocol(u)' <=> HoldsProtocol(u)
           /\ HoldsVictim(u)' <=> HoldsVictim(u)
           /\ Adding(u)' <=> Adding(u)
           /\ Placed(u)' <=> Placed(u)
           /\ OwnProtocol(u)' <=> OwnProtocol(u)
BY DEF OnlyMoves, HoldsMap, HoldsObject, HoldsBlock, HoldsProtocol, HoldsVictim, Adding,
       Placed, OwnProtocol

LEMMA OthersHold ==
    ASSUME NEW t \in Threads, OnlyMoves(t), NEW u \in Threads \ {t}, NEW h
    PROVE  Holds(u, h)' <=> Holds(u, h)
BY OthersSame DEF OnlyMoves, Holds

LEMMA OthersWell ==
    ASSUME NEW t \in Threads, OnlyMoves(t), NEW u \in Threads \ {t}, Well(u), ToList(u)'
    PROVE  Well(u)'
<1>1. Placed(u)' /\ OwnProtocol(u)'
  BY OthersSame DEF Well
<1>2. held'[u] = held[u]
  BY DEF OnlyMoves
<1>3. \A h : h \in held'[u] <=> Holds(u, h)'
  BY <1>2, OthersHold DEF Well
<1> QED BY <1>1, <1>3 DEF Well

LEMMA OthersApart ==
    ASSUME NEW t \in Threads, OnlyMoves(t), NEW u \in Threads \ {t}, NEW v \in Threads \ {t},
           Apart(u, v)
    PROVE  Apart(u, v)'
<1>1. /\ arg'[u] = arg[u] /\ victim'[u] = victim[u] /\ protocol'[u] = protocol[u]
      /\ arg'[v] = arg[v] /\ victim'[v] = victim[v] /\ protocol'[v] = protocol[v]
  BY DEF OnlyMoves
<1> QED BY <1>1, OthersSame DEF Apart

LEMMA StillApart ==
    ASSUME NEW t \in Threads, OnlyMoves(t), LocksNothing(t), NEW u \in Threads,
           Apart(t, u), Apart(u, t), Apart(t, t)
    PROVE  Apart(t, u)' /\ Apart(u, t)'
<1>1. CASE u = t
  BY <1>1 DEF LocksNothing, Apart
<1>2. CASE u # t
  <2>1. arg'[u] = arg[u] /\ victim'[u] = victim[u] /\ protocol'[u] = protocol[u]
    BY <1>2 DEF OnlyMoves
  <2>2. /\ HoldsBlock(u)' <=> HoldsBlock(u)
        /\ HoldsProtocol(u)' <=> HoldsProtocol(u)
        /\ HoldsVictim(u)' <=> HoldsVictim(u)
    BY <1>2, OthersSame
  <2> QED BY <2>1, <2>2 DEF LocksNothing, Apart
<1> QED BY <1>1, <1>2

LEMMA UnlistedIs ==
    ASSUME NEW p, NEW o
    PROVE  o \in Unlisted(p) <=> \E u \in Threads : Adding(u) /\ protocol[u] = p /\ arg[u] = o
BY DEF Unlisted, Adding

LEMMA UnlistedSame ==
    ASSUME NEW t \in Threads, OnlyMoves(t), Adding(t)' <=> Adding(t),
           Adding(t) => arg'[t] = arg[t] /\ protocol'[t] = protocol[t], NEW p
    PROVE  Unlisted(p)' = Unlisted(p)
<1>1. ASSUME NEW u \in Threads
      PROVE  /\ Adding(u)' <=> Adding(u)
             /\ Adding(u) => arg'[u] = arg[u] /\ protocol'[u] = protocol[u]
  BY OthersSame DEF OnlyMoves
<1> QED BY <1>1 DEF Unlisted, Adding

LEMMA ListSame ==
    ASSUME DirtyListed, NEW t \in Threads, OnlyMoves(t), dirty' = dirty, dbl' = dbl,
           Adding(t)' <=> Adding(t),
           Adding(t) => arg'[t] = arg[t] /\ protocol'[t] = protocol[t]
    PROVE  DirtyListed'
<1>1. \A p : Unlisted(p)' = Unlisted(p)
  BY UnlistedSame
<1> QED BY <1>1 DEF DirtyListed

(* A step of one thread, from what it does to that thread and to the list.   *)
LEMMA ThreadStep ==
    ASSUME LockInv, NEW t \in Threads, OnlyMoves(t), TypeOK', Well(t)', DirtyListed',
           \A u \in Threads \ {t} : ToList(u)',
           \A u \in Threads : Apart(t, u)' /\ Apart(u, t)'
    PROVE  LockInv'
<1>1. ASSUME NEW u \in Threads \ {t}
      PROVE  Well(u)'
  BY OthersWell DEF LockInv
<1>2. ASSUME NEW u \in Threads, NEW v \in Threads
      PROVE  Apart(u, v)'
  <2>1. CASE u # t /\ v # t
    <3>1. Apart(u, v)
      BY DEF LockInv
    <3> QED BY <2>1, <3>1, OthersApart
  <2> QED BY <2>1
<1> QED BY <1>1, <1>2 DEF LockInv

(* A step that changes neither the list nor what is Dirty.                   *)
LEMMA SameListStep ==
    ASSUME LockInv, NEW t \in Threads, OnlyMoves(t), TypeOK', Well(t)',
           dirty' = dirty, dbl' = dbl,
           Adding(t)' <=> Adding(t),
           Adding(t) => arg'[t] = arg[t] /\ protocol'[t] = protocol[t],
           \A u \in Threads : Apart(t, u)' /\ Apart(u, t)'
    PROVE  LockInv'
<1>1. \A u \in Threads \ {t} : ToList(u)'
  BY OthersSame DEF LockInv, Well, ToList, OnlyMoves
<1>2. DirtyListed'
  BY ListSame DEF LockInv
<1> QED BY <1>1, <1>2, ThreadStep

(* One that locks no block and no protocol either.                           *)
LEMMA QuietStep ==
    ASSUME LockInv, NEW t \in Threads, OnlyMoves(t), LocksNothing(t),
           dirty' = dirty, dbl' = dbl,
           Adding(t)' <=> Adding(t),
           Adding(t) => arg'[t] = arg[t] /\ protocol'[t] = protocol[t],
           TypeOK', Well(t)'
    PROVE  LockInv'
<1>1. ASSUME NEW u \in Threads
      PROVE  Apart(t, u)' /\ Apart(u, t)'
  <2>1. Apart(t, u) /\ Apart(u, t) /\ Apart(t, t)
    BY DEF LockInv
  <2> QED BY <2>1, StillApart
<1> QED BY <1>1, SameListStep

-------------------------------------------------------------------------------
(* Calls begin and return.                                                   *)

LEMMA NoObjectIsObject == NoObject \in Objects
BY ObjectsAssumption DEF NoObject

LEMMA InvariantInit == Init => LockInv
<1> SUFFICES ASSUME Init PROVE LockInv
  OBVIOUS
<1>1. TypeOK
  BY NoObjectIsObject, MaxLimitAssumption DEF Init, TypeOK, Calls, Protocols
<1>2. ASSUME NEW t \in Threads
      PROVE  /\ ~HoldsMap(t) /\ ~HoldsObject(t) /\ ~HoldsBlock(t) /\ ~HoldsProtocol(t)
             /\ ~HoldsVictim(t) /\ ~Adding(t)
             /\ pc[t] = "idle" /\ call[t] = "none" /\ held[t] = {}
  BY DEF Init, HoldsMap, HoldsObject, HoldsBlock, HoldsProtocol, HoldsVictim, Adding,
         InProtocol, InLoop
<1>3. ASSUME NEW t \in Threads
      PROVE  Well(t)
  BY <1>2 DEF Well, Placed, OwnProtocol, ToList, Holds, InProtocol, InLoop
<1>4. \A t, u \in Threads : Apart(t, u)
  BY <1>2 DEF Apart
<1>5. DirtyListed
  BY DEF Init, DirtyListed, IsInjective, Range
<1> QED BY <1>1, <1>3, <1>4, <1>5 DEF LockInv

LEMMA CallStep ==
    ASSUME LockInv, NEW t \in Threads, NEW c \in Calls, NEW o \in Objects, NEW l,
           Call(t, c, o, l),
           \/ l = "find" /\ c \in {"writeFault", "launchListed"}
           \/ l = "check" /\ c \in Walks
    PROVE  LockInv'
<1>1. /\ pc[t] = "idle" /\ pc'[t] = l /\ call'[t] = c /\ arg'[t] = o
      /\ victim' = victim /\ protocol' = protocol /\ held' = held /\ dirty' = dirty
      /\ dbl' = dbl
      /\ OnlyMoves(t)
  BY DEF Call, Goto, OnlyMoves, LockInv, TypeOK
<1>2. TypeOK'
  BY DEF Call, Goto, LockInv, TypeOK, Locking
<1>3. ~Adding(t) /\ ~Adding(t)' /\ LocksNothing(t)
  BY <1>1 DEF Adding, LocksNothing, HoldsBlock, HoldsProtocol, HoldsVictim, InProtocol, InLoop
<1>4. Placed(t)' /\ OwnProtocol(t)' /\ ToList(t)'
  BY <1>1, <1>3 DEF Placed, OwnProtocol, ToList, InProtocol, InLoop, Walks
<1>5. ASSUME NEW h
      PROVE  ~Holds(t, h) /\ ~Holds(t, h)'
  BY <1>1 DEF Holds, HoldsMap, HoldsObject, HoldsBlock, HoldsProtocol, HoldsVictim,
     InProtocol, InLoop
<1>6. Well(t)'
  BY <1>1, <1>4, <1>5 DEF Well, LockInv
<1> QED BY <1>1, <1>2, <1>3, <1>6, QuietStep

LEMMA ReturnStep ==
    ASSUME LockInv, NEW t \in Threads, Return(t), ~Adding(t),
           UNCHANGED <<todo, dirty, dbl, limit>>
    PROVE  LockInv'
<1>1. /\ pc'[t] = "idle" /\ call'[t] = "none" /\ held'[t] = {}
      /\ OnlyMoves(t)
  BY DEF Return, Goto, OnlyMoves, LockInv, TypeOK
<1>2. TypeOK'
  BY NoObjectIsObject DEF Return, Goto, LockInv, TypeOK, Calls, Protocols
<1>3. ~Adding(t)' /\ LocksNothing(t)
  BY <1>1 DEF Adding, LocksNothing, HoldsBlock, HoldsProtocol, HoldsVictim, InProtocol, InLoop
<1>4. Placed(t)' /\ OwnProtocol(t)' /\ ToList(t)'
  BY <1>1, <1>3 DEF Placed, OwnProtocol, ToList, InProtocol, InLoop
<1>5. ASSUME NEW h
      PROVE  ~Holds(t, h)'
  BY <1>1 DEF Holds, HoldsMap, HoldsObject, HoldsBlock, HoldsProtocol, HoldsVictim,
     InProtocol, InLoop
<1>6. Well(t)'
  BY <1>1, <1>4, <1>5 DEF Well
<1> QED BY <1>1, <1>2, <1>3, <1>6, QuietStep

-------------------------------------------------------------------------------
(* Steps that change neither the list nor what is Dirty.                     *)

LEMMA TakeTyped ==
    ASSUME TypeOK, NEW t \in Threads, pc[t] \in Locking, Take(t)
    PROVE  /\ held' \in [Threads -> SUBSET (Locks \X {"read", "write"})]
           /\ held'[t] = held[t] \cup {Request(t)}
           /\ \A u \in Threads \ {t} : held'[u] = held[u]
<1>1. ModeOfCall(t) \in Modes /\ ModeOf[t] \in Modes /\ Home[arg[t]] \in Modes
  BY ModesAssumption DEF TypeOK, ModeOfCall
<1>2. Request(t) \in Locks \X {"read", "write"}
  <2>1. \A how \in {"read", "write"} :
          /\ \A m \in Modes : << <<"map", m>>, how >> \in Locks \X {"read", "write"}
          /\ \A o \in Objects : /\ << <<"object", o>>, how >> \in Locks \X {"read", "write"}
                                /\ << <<"block", o>>, how >> \in Locks \X {"read", "write"}
          /\ \A p \in Protocols : << <<"protocol", p>>, how >> \in Locks \X {"read", "write"}
    BY DEF Locks
  <2>2. arg[t] \in Objects /\ victim[t] \in Objects /\ protocol[t] \in Protocols
    BY DEF TypeOK
  <2>3. pc[t] \in {"find", "check", "finish", "notify"} => Request(t) \in Locks \X {"read", "write"}
    BY <1>1, <2>1, RequestAt
  <2>4. pc[t] = "enter" => Request(t) \in Locks \X {"read", "write"}
    BY ZenonT(60), <2>1, <2>2, RequestAt
  <2>5. pc[t] \in {"lockBlock", "lockVictim", "lockProtocol"} => Request(t) \in Locks \X {"read", "write"}
    BY <2>1, <2>2, RequestAt
  <2> QED BY <2>3, <2>4, <2>5 DEF Locking
<1> QED BY <1>2 DEF Take, TypeOK

LEMMA DropTyped ==
    ASSUME TypeOK, NEW t \in Threads, NEW locks, Drop(t, locks)
    PROVE  /\ held' \in [Threads -> SUBSET (Locks \X {"read", "write"})]
           /\ \A h : h \in held'[t] <=> h \in held[t] /\ h[1] \notin locks
           /\ \A u \in Threads \ {t} : held'[u] = held[u]
BY DEF Drop, TypeOK

LEMMA FindStep ==
    ASSUME LockInv, NEW t \in Threads, Find(t)
    PROVE  LockInv'
<1>0. Well(t) /\ TypeOK
  BY DEF LockInv
<1>1. /\ pc[t] = "find" /\ pc'[t] = "enter"
      /\ call' = call /\ arg' = arg /\ victim' = victim /\ protocol' = protocol /\ held' = held
      /\ dirty' = dirty /\ dbl' = dbl
      /\ OnlyMoves(t)
  BY <1>0 DEF Find, Goto, OnlyMoves, TypeOK
<1>2. TypeOK'
  BY <1>0 DEF Find, Goto, TypeOK, Locking, Working
<1>3. ~Adding(t) /\ ~Adding(t)' /\ LocksNothing(t)
  BY <1>0, <1>1 DEF Adding, LocksNothing, HoldsBlock, HoldsProtocol, HoldsVictim,
     InProtocol, InLoop, Well, Placed
<1>4. Placed(t)' /\ OwnProtocol(t)' /\ ToList(t)'
  BY <1>0, <1>1 DEF Placed, OwnProtocol, ToList, Adding, InProtocol, InLoop, Walks, Well
<1>5. ASSUME NEW h
      PROVE  h \in held'[t] <=> Holds(t, h)'
  BY <1>0, <1>1 DEF Well, Placed, Holds, HoldsMap, HoldsObject, HoldsBlock, HoldsProtocol,
     HoldsVictim, InProtocol, InLoop, Walks
<1>6. Well(t)'
  BY <1>4, <1>5 DEF Well
<1> QED BY <1>1, <1>2, <1>3, <1>6, QuietStep

LEMMA EachStep ==
    ASSUME LockInv, NEW t \in Threads, Each(t)
    PROVE  LockInv'
<1>0. Well(t) /\ TypeOK
  BY DEF LockInv
<1>1. /\ pc[t] = "each" /\ pc'[t] = "enter"
      /\ call' = call /\ victim' = victim /\ protocol' = protocol /\ held' = held
      /\ dirty' = dirty /\ dbl' = dbl
      /\ OnlyMoves(t)
  BY <1>0 DEF Each, Goto, OnlyMoves, TypeOK
<1>2. TypeOK'
  BY <1>0 DEF Each, Goto, TypeOK, Locking, Working
<1>3. ~Adding(t) /\ ~Adding(t)' /\ LocksNothing(t)
  BY <1>0, <1>1 DEF Adding, LocksNothing, HoldsBlock, HoldsProtocol, HoldsVictim,
     InProtocol, InLoop, Well, Placed
<1>4. Placed(t)' /\ OwnProtocol(t)' /\ ToList(t)'
  BY <1>0, <1>1 DEF Placed, OwnProtocol, ToList, Adding, InProtocol, InLoop, Walks, Well
<1>5. ASSUME NEW h
      PROVE  h \in held'[t] <=> Holds(t, h)'
  BY <1>0, <1>1 DEF Well, Placed, Holds, HoldsMap, HoldsObject, HoldsBlock, HoldsProtocol,
     HoldsVictim, InProtocol, InLoop, Walks
<1>6. Well(t)'
  BY <1>4, <1>5 DEF Well
<1> QED BY <1>1, <1>2, <1>3, <1>6, QuietStep

LEMMA NotifyStep ==
    ASSUME LockInv, NEW t \in Threads, Notify(t)
    PROVE  LockInv'
<1>0. Well(t) /\ TypeOK
  BY DEF LockInv
<1>1. /\ pc[t] = "notify" /\ pc'[t] = "lockBlock"
      /\ call' = call /\ arg' = arg /\ victim' = victim /\ protocol' = protocol /\ held' = held
      /\ dirty' = dirty /\ dbl' = dbl
      /\ OnlyMoves(t)
  BY <1>0 DEF Notify, Goto, OnlyMoves, TypeOK
<1>2. TypeOK'
  BY <1>0 DEF Notify, Goto, TypeOK, Locking, Working
<1>3. ~Adding(t) /\ ~Adding(t)' /\ LocksNothing(t)
  BY <1>0, <1>1 DEF Adding, LocksNothing, HoldsBlock, HoldsProtocol, HoldsVictim,
     InProtocol, InLoop, Well, Placed
<1>4. Placed(t)' /\ OwnProtocol(t)' /\ ToList(t)'
  BY <1>0, <1>1 DEF Placed, OwnProtocol, ToList, Adding, InProtocol, InLoop, Walks, Well
<1>5. ASSUME NEW h
      PROVE  h \in held'[t] <=> Holds(t, h)'
  BY <1>0, <1>1 DEF Well, Placed, Holds, HoldsMap, HoldsObject, HoldsBlock, HoldsProtocol,
     HoldsVictim, InProtocol, InLoop, Walks
<1>6. Well(t)'
  BY <1>4, <1>5 DEF Well
<1> QED BY <1>1, <1>2, <1>3, <1>6, QuietStep

LEMMA LoopAgainStep ==
    ASSUME LockInv, NEW t \in Threads, LoopAgain(t)
    PROVE  LockInv'
<1>0. Well(t) /\ TypeOK
  BY DEF LockInv
<1>1. /\ pc[t] = "loop" /\ pc'[t] = "front"
      /\ call' = call /\ arg' = arg /\ victim' = victim /\ protocol' = protocol /\ held' = held
      /\ dirty' = dirty /\ dbl' = dbl
      /\ OnlyMoves(t)
  BY <1>0 DEF LoopAgain, Goto, OnlyMoves, TypeOK
<1>2. TypeOK'
  BY <1>0 DEF LoopAgain, Goto, TypeOK, Locking, Working
<1>3. ~Adding(t) /\ ~Adding(t)' /\ LocksNothing(t)
  BY <1>0, <1>1 DEF Adding, LocksNothing, HoldsBlock, HoldsProtocol, HoldsVictim,
     InProtocol, InLoop, Well, Placed
<1>4. Placed(t)' /\ OwnProtocol(t)' /\ ToList(t)'
  BY <1>0, <1>1 DEF Placed, OwnProtocol, ToList, Adding, InProtocol, InLoop, Walks, Well
<1>5. ASSUME NEW h
      PROVE  h \in held'[t] <=> Holds(t, h)'
  BY <1>0, <1>1 DEF Well, Placed, Holds, HoldsMap, HoldsObject, HoldsBlock, HoldsProtocol,
     HoldsVictim, InProtocol, InLoop, Walks
<1>6. Well(t)'
  BY <1>4, <1>5 DEF Well
<1> QED BY <1>1, <1>2, <1>3, <1>6, QuietStep

LEMMA TakeFrontStep ==
    ASSUME LockInv, NEW t \in Threads, TakeFront(t)
    PROVE  LockInv'
<1>0. Well(t) /\ TypeOK
  BY DEF LockInv
<1>1. /\ pc[t] = "front" /\ pc'[t] = "lockVictim"
      /\ call' = call /\ arg' = arg /\ protocol' = protocol /\ held' = held
      /\ dirty' = dirty /\ dbl' = dbl
      /\ OnlyMoves(t)
  BY <1>0 DEF TakeFront, Goto, OnlyMoves, TypeOK
<1>2. TypeOK'
  BY <1>0 DEF TakeFront, Goto, TypeOK, Locking, Working
<1>3. ~Adding(t) /\ ~Adding(t)' /\ LocksNothing(t)
  BY <1>0, <1>1 DEF Adding, LocksNothing, HoldsBlock, HoldsProtocol, HoldsVictim,
     InProtocol, InLoop, Well, Placed
<1>4. Placed(t)' /\ OwnProtocol(t)' /\ ToList(t)'
  BY <1>0, <1>1 DEF Placed, OwnProtocol, ToList, Adding, InProtocol, InLoop, Walks, Well
<1>5. ASSUME NEW h
      PROVE  h \in held'[t] <=> Holds(t, h)'
  BY <1>0, <1>1 DEF Well, Placed, Holds, HoldsMap, HoldsObject, HoldsBlock, HoldsProtocol,
     HoldsVictim, InProtocol, InLoop, Walks
<1>6. Well(t)'
  BY <1>4, <1>5 DEF Well
<1> QED BY <1>1, <1>2, <1>3, <1>6, QuietStep

LEMMA AcquireStep ==
    ASSUME LockInv, NEW t \in Threads, Acquire(t)
    PROVE  LockInv'
<1>0. Well(t) /\ TypeOK
  BY DEF LockInv
<1>1. /\ pc[t] = "operate" /\ pc'[t] = "each" /\ call[t] = "synchronize"
      /\ call' = call /\ arg' = arg /\ victim' = victim /\ protocol' = protocol
      /\ \A h : h \in held'[t] <=> h \in held[t] /\ h[1] \notin {<<"block", arg[t]>>, <<"object", arg[t]>>}
      /\ dirty' = dirty /\ dbl' = dbl
      /\ OnlyMoves(t)
  BY <1>0, DropTyped DEF Acquire, Goto, OnlyMoves, TypeOK
<1>2. TypeOK'
  BY <1>0, DropTyped DEF Acquire, Goto, TypeOK, Locking, Working
<1>3. ~Adding(t) /\ ~Adding(t)' /\ LocksNothing(t)
  BY <1>0, <1>1 DEF Adding, LocksNothing, HoldsBlock, HoldsProtocol, HoldsVictim,
     InProtocol, InLoop, Well, Placed
<1>4. Placed(t)' /\ OwnProtocol(t)' /\ ToList(t)'
  BY <1>0, <1>1 DEF Placed, OwnProtocol, ToList, Adding, InProtocol, InLoop, Walks, Well
<1>5. ASSUME NEW h
      PROVE  h \in held'[t] <=> Holds(t, h)'
  BY <1>0, <1>1 DEF Well, Placed, Holds, HoldsMap, HoldsObject, HoldsBlock, HoldsProtocol,
     HoldsVictim, InProtocol, InLoop, Walks
<1>6. Well(t)'
  BY <1>4, <1>5 DEF Well
<1> QED BY <1>1, <1>2, <1>3, <1>6, QuietStep

LEMMA CheckStep ==
    ASSUME LockInv, NEW t \in Threads, Check(t)
    PROVE  LockInv'
<1>0. Well(t) /\ TypeOK /\ pc[t] = "check" /\ Take(t) /\ pc[t] \in Locking
  BY DEF LockInv, Check, Locking
<1>1. /\ pc'[t] = "each"
      /\ call' = call /\ arg' = arg /\ victim' = victim /\ protocol' = protocol
      /\ held'[t] = held[t] \cup {<< <<"map", ModeOf[t]>>, "read" >>}
      /\ dirty' = dirty /\ dbl' = dbl
      /\ OnlyMoves(t)
  <2>1. Request(t) = << <<"map", ModeOf[t]>>, "read" >>
    BY <1>0, RequestAt DEF ModeOfCall, Well, Placed, Walks
  <2> QED BY <1>0, <2>1, TakeTyped DEF Check, Goto, OnlyMoves, TypeOK
<1>2. TypeOK'
  BY <1>0, TakeTyped DEF Check, Goto, TypeOK, Working, Mapped
<1>3. ~Adding(t) /\ ~Adding(t)' /\ LocksNothing(t)
  BY <1>0, <1>1 DEF Adding, LocksNothing, HoldsBlock, HoldsProtocol, HoldsVictim,
     InProtocol, InLoop
<1>4. Placed(t)' /\ OwnProtocol(t)' /\ ToList(t)'
  BY <1>0, <1>1 DEF Placed, OwnProtocol, ToList, Adding, InProtocol, InLoop, Walks, Well
<1>5. ASSUME NEW h
      PROVE  h \in held'[t] <=> Holds(t, h)'
  BY <1>0, <1>1 DEF Well, Placed, Holds, HoldsMap, HoldsObject, HoldsBlock, HoldsProtocol,
     HoldsVictim, InProtocol, InLoop, Walks
<1>6. Well(t)'
  BY <1>4, <1>5 DEF Well
<1> QED BY <1>1, <1>2, <1>3, <1>6, QuietStep

LEMMA EachDoneStep ==
    ASSUME LockInv, NEW t \in Threads, EachDone(t)
    PROVE  LockInv'
<1>0. Well(t) /\ TypeOK /\ pc[t] = "each" /\ Drop(t, {<<"map", ModeOf[t]>>})
  BY DEF LockInv, EachDone
<1>1. /\ pc'[t] = IF call[t] = "launchAll" THEN "lockProtocol" ELSE "finish"
      /\ call' = call /\ arg' = arg /\ victim' = victim /\ protocol'[t] = ModeOf[t]
      /\ \A h : h \in held'[t] <=> h \in held[t] /\ h[1] # <<"map", ModeOf[t]>>
      /\ dirty' = dirty /\ dbl' = dbl
      /\ OnlyMoves(t)
  BY <1>0, DropTyped DEF EachDone, Goto, OnlyMoves, TypeOK
<1>2. TypeOK'
  BY <1>0, DropTyped, ModesAssumption DEF EachDone, Goto, TypeOK, Locking, Protocols
<1>3. ~Adding(t) /\ ~Adding(t)' /\ LocksNothing(t)
  BY <1>0, <1>1 DEF Adding, LocksNothing, HoldsBlock, HoldsProtocol, HoldsVictim,
     InProtocol, InLoop, Well, Placed, Walks
<1>4. Placed(t)' /\ OwnProtocol(t)' /\ ToList(t)'
  BY <1>0, <1>1 DEF Placed, OwnProtocol, ToList, Adding, InProtocol, InLoop, Walks, Well
<1>5. ASSUME NEW h
      PROVE  h \in held'[t] <=> Holds(t, h)'
  BY <1>0, <1>1 DEF Well, Placed, Holds, HoldsMap, HoldsObject, HoldsBlock, HoldsProtocol,
     HoldsVictim, InProtocol, InLoop, Walks
<1>6. Well(t)'
  BY <1>4, <1>5 DEF Well
<1> QED BY <1>1, <1>2, <1>3, <1>6, QuietStep

LEMMA EnterStep ==
    ASSUME LockInv, NEW t \in Threads, Enter(t)
    PROVE  LockInv'
<1>0. Well(t) /\ TypeOK /\ pc[t] = "enter" /\ pc[t] \in Locking
  BY DEF LockInv, Enter, Locking
<1>1. /\ call' = call /\ arg' = arg /\ victim' = victim /\ protocol' = protocol
      /\ todo' = todo /\ dirty' = dirty /\ dbl' = dbl /\ limit' = limit
  BY DEF Enter
<1>2. CASE call[t] = "launchAll"
  <2>1. pc' = [pc EXCEPT ![t] = "each"] /\ held' = held
    BY <1>2 DEF Enter, Goto
  <2>2. OnlyMoves(t) /\ TypeOK'
    BY <1>0, <1>1, <2>1 DEF OnlyMoves, TypeOK, Working
  <2>3. ~Adding(t) /\ ~Adding(t)' /\ LocksNothing(t)
    BY <1>0, <1>1, <1>2, <2>1 DEF Adding, LocksNothing, HoldsBlock, HoldsProtocol, HoldsVictim,
       InProtocol, InLoop, TypeOK
  <2>4. Placed(t)' /\ OwnProtocol(t)' /\ ToList(t)'
    BY <1>0, <1>1, <1>2, <2>1, <2>3
    DEF Placed, OwnProtocol, ToList, InProtocol, InLoop, Walks, TypeOK
  <2>5. ASSUME NEW h
        PROVE  h \in held'[t] <=> Holds(t, h)'
    BY <1>0, <1>1, <1>2, <2>1 DEF Well, Holds, HoldsMap, HoldsObject, HoldsBlock, HoldsProtocol,
       HoldsVictim, InProtocol, InLoop, Walks, TypeOK
  <2>6. Well(t)'
    BY <2>4, <2>5 DEF Well
  <2> QED BY <1>1, <2>2, <2>3, <2>6, QuietStep
<1>3. CASE call[t] # "launchAll"
  <2>1. /\ pc' = [pc EXCEPT ![t] = IF call[t] = "writeFault" THEN "notify" ELSE "lockBlock"]
        /\ Take(t)
    BY <1>3 DEF Enter, Goto
  <2>2. OnlyMoves(t) /\ TypeOK'
    BY <1>0, <1>1, <2>1, TakeTyped DEF OnlyMoves, TypeOK, Locking
  <2>3. ~Adding(t) /\ ~Adding(t)' /\ LocksNothing(t)
    BY <1>0, <1>1, <2>1 DEF Adding, LocksNothing, HoldsBlock, HoldsProtocol, HoldsVictim,
       InProtocol, InLoop, TypeOK
  <2>4. Placed(t)' /\ OwnProtocol(t)' /\ ToList(t)'
    BY <1>0, <1>1, <1>3, <2>1, <2>3
    DEF Placed, OwnProtocol, ToList, InProtocol, InLoop, Walks, Well, TypeOK
  <2>5. held'[t] = held[t] \cup
           {<< <<"object", arg[t]>>, IF call[t] = "writeFault" THEN "read" ELSE "write" >>}
    BY <1>0, <2>1, TakeTyped, RequestAt
  <2>6. ASSUME NEW h
        PROVE  h \in held'[t] <=> Holds(t, h)'
    BY <1>0, <1>1, <1>3, <2>1, <2>5 DEF Well, Placed, Holds, HoldsMap, HoldsObject, HoldsBlock,
       HoldsProtocol, HoldsVictim, InProtocol, InLoop, Walks, TypeOK
  <2>7. Well(t)'
    BY <2>4, <2>6 DEF Well
  <2> QED BY <1>1, <2>2, <2>3, <2>7, QuietStep
<1> QED BY <1>2, <1>3

LEMMA ShrinkTyped ==
    ASSUME TypeOK, NEW p \in Protocols, Shrink(p)
    PROVE  limit' \in [Protocols -> 1..MaxLimit]
<1>1. \A n \in 1..MaxLimit : n > 1 => n \div 2 \in 1..MaxLimit
  BY MaxLimitAssumption
<1>2. limit[p] \in 1..MaxLimit
  BY DEF TypeOK
<1>3. (IF Len(dbl[p]) < limit[p] /\ limit[p] > 1 THEN limit[p] \div 2 ELSE limit[p]) \in 1..MaxLimit
  BY <1>1, <1>2
<1> QED BY <1>3 DEF Shrink, TypeOK

LEMMA ReleasedAllStep ==
    ASSUME LockInv, NEW t \in Threads, ReleasedAll(t)
    PROVE  LockInv'
<1>0. /\ Well(t) /\ TypeOK /\ pc[t] = "lockProtocol" /\ call[t] = "launchListed"
      /\ protocol[t] \in Protocols
  BY DEF LockInv, ReleasedAll, TypeOK
<1>1. /\ pc'[t] \in {"lockProtocol", "finish"}
      /\ call' = call /\ arg' = arg /\ victim' = victim /\ held' = held
      /\ pc'[t] = "lockProtocol" => protocol'[t] = "global"
      /\ dirty' = dirty /\ dbl' = dbl
      /\ OnlyMoves(t)
  BY <1>0 DEF ReleasedAll, NextProtocol, Goto, OnlyMoves, TypeOK
<1>2. TypeOK'
  <2>1. limit' \in [Protocols -> 1..MaxLimit]
    BY <1>0, ShrinkTyped DEF ReleasedAll
  <2>2. pc' \in [Threads -> Locking \cup Working \cup {"idle"}] /\ protocol' \in [Threads -> Protocols]
    BY <1>0 DEF ReleasedAll, NextProtocol, Goto, TypeOK, Locking, Protocols
  <2> QED BY <1>0, <2>1, <2>2 DEF ReleasedAll, TypeOK
<1>3. ~Adding(t) /\ ~Adding(t)' /\ LocksNothing(t)
  BY <1>0, <1>1 DEF Adding, LocksNothing, HoldsBlock, HoldsProtocol, HoldsVictim,
     InProtocol, InLoop
<1>4. Placed(t)' /\ OwnProtocol(t)' /\ ToList(t)'
  BY <1>0, <1>1, <1>3 DEF Placed, OwnProtocol, ToList, InProtocol, InLoop, Walks, Well
<1>5. ASSUME NEW h
      PROVE  h \in held'[t] <=> Holds(t, h)'
  BY <1>0, <1>1 DEF Well, Holds, HoldsMap, HoldsObject, HoldsBlock, HoldsProtocol,
     HoldsVictim, InProtocol, InLoop, Walks
<1>6. Well(t)'
  BY <1>4, <1>5 DEF Well
<1> QED BY <1>1, <1>2, <1>3, <1>6, QuietStep

LEMMA ReleaseAllReturnsStep ==
    ASSUME LockInv, NEW t \in Threads, ReleaseAllReturns(t)
    PROVE  LockInv'
<1>0. /\ Well(t) /\ TypeOK /\ pc[t] = "loop" /\ call[t] = "launchAll"
      /\ Drop(t, {<<"protocol", protocol[t]>>})
  BY DEF LockInv, ReleaseAllReturns
<1>1. /\ pc'[t] \in {"lockProtocol", "finish"}
      /\ call' = call /\ arg' = arg /\ victim' = victim
      /\ \A h : h \in held'[t] <=> h \in held[t] /\ h[1] # <<"protocol", protocol[t]>>
      /\ pc'[t] = "lockProtocol" => protocol'[t] = "global"
      /\ dirty' = dirty /\ dbl' = dbl
      /\ OnlyMoves(t)
  <2>1. \A h : h \in held'[t] <=> h \in held[t] /\ h[1] # <<"protocol", protocol[t]>>
    BY <1>0, DropTyped
  <2> QED BY <1>0, <2>1, DropTyped DEF ReleaseAllReturns, NextProtocol, Goto, OnlyMoves, TypeOK
<1>2. TypeOK'
  <2>1. pc' \in [Threads -> Locking \cup Working \cup {"idle"}] /\ protocol' \in [Threads -> Protocols]
    BY <1>0 DEF ReleaseAllReturns, NextProtocol, Goto, TypeOK, Locking, Protocols
  <2> QED BY <1>0, <2>1, DropTyped DEF ReleaseAllReturns, TypeOK
<1>3. ~Adding(t) /\ ~Adding(t)' /\ LocksNothing(t)
  BY <1>0, <1>1 DEF Adding, LocksNothing, HoldsBlock, HoldsProtocol, HoldsVictim,
     InProtocol, InLoop
<1>4. Placed(t)' /\ OwnProtocol(t)' /\ ToList(t)'
  BY <1>0, <1>1, <1>3 DEF Placed, OwnProtocol, ToList, InProtocol, InLoop, Walks, Well
<1>5. ASSUME NEW h
      PROVE  h \in held'[t] <=> Holds(t, h)'
  BY <1>0, <1>1 DEF Well, Holds, HoldsMap, HoldsObject, HoldsBlock, HoldsProtocol,
     HoldsVictim, InProtocol, InLoop, Walks
<1>6. Well(t)'
  BY <1>4, <1>5 DEF Well
<1> QED BY <1>1, <1>2, <1>3, <1>6, QuietStep

-------------------------------------------------------------------------------
(* Steps that lock a block or a protocol.                                    *)

LEMMA LockBlockStep ==
    ASSUME LockInv, NEW t \in Threads, LockBlock(t)
    PROVE  LockInv'
<1>0. /\ Well(t) /\ TypeOK /\ pc[t] = "lockBlock" /\ pc[t] \in Locking
      /\ Take(t) /\ Granted(t)
      /\ Request(t) = << <<"block", arg[t]>>, "write" >>
  BY RequestAt DEF LockInv, LockBlock, Locking
<1>1. /\ pc'[t] = "operate"
      /\ call' = call /\ arg' = arg /\ victim' = victim /\ protocol' = protocol
      /\ held'[t] = held[t] \cup {<< <<"block", arg[t]>>, "write" >>}
      /\ dirty' = dirty /\ dbl' = dbl
      /\ OnlyMoves(t)
  BY <1>0, TakeTyped DEF LockBlock, Goto, OnlyMoves, TypeOK
<1>2. TypeOK'
  BY <1>0, TakeTyped DEF LockBlock, Goto, TypeOK, Working
<1>3. ~Adding(t) /\ ~Adding(t)'
  BY <1>0, <1>1 DEF Adding
<1>4. Placed(t)' /\ OwnProtocol(t)' /\ ToList(t)'
  BY <1>0, <1>1, <1>3 DEF Placed, OwnProtocol, ToList, InProtocol, InLoop, Walks, Well
<1>5. ASSUME NEW h
      PROVE  h \in held'[t] <=> Holds(t, h)'
  BY <1>0, <1>1 DEF Well, Holds, HoldsMap, HoldsObject, HoldsBlock, HoldsProtocol,
     HoldsVictim, InProtocol, InLoop, Walks
<1>6. Well(t)'
  BY <1>4, <1>5 DEF Well
<1>7. ASSUME NEW u \in Threads
      PROVE  Apart(t, u)' /\ Apart(u, t)'
  <2>1. /\ HoldsBlock(u) => arg[u] # arg[t]
        /\ HoldsVictim(u) => victim[u] # arg[t]
    BY <1>0, BlockFree DEF LockInv
  <2>2. ~HoldsProtocol(t)' /\ ~HoldsVictim(t)'
    BY <1>1 DEF HoldsProtocol, HoldsVictim, InLoop
  <2>3. CASE u = t
    BY <2>2, <2>3 DEF Apart
  <2>4. CASE u # t
    <3>1. /\ HoldsBlock(u)' <=> HoldsBlock(u)
          /\ HoldsVictim(u)' <=> HoldsVictim(u)
      BY <1>1, <2>4, OthersSame
    <3> QED BY <1>1, <2>1, <2>2, <2>4, <3>1 DEF Apart
  <2> QED BY <2>3, <2>4
<1> QED BY <1>1, <1>2, <1>3, <1>6, <1>7, SameListStep

LEMMA LockVictimStep ==
    ASSUME LockInv, NEW t \in Threads, LockVictim(t)
    PROVE  LockInv'
<1>0. /\ Well(t) /\ TypeOK /\ pc[t] = "lockVictim" /\ pc[t] \in Locking
      /\ Take(t) /\ Granted(t)
      /\ Request(t) = << <<"block", victim[t]>>, "write" >>
  BY RequestAt DEF LockInv, LockVictim, Locking
<1>1. /\ pc'[t] = "evict"
      /\ call' = call /\ arg' = arg /\ victim' = victim /\ protocol' = protocol
      /\ held'[t] = held[t] \cup {<< <<"block", victim[t]>>, "write" >>}
      /\ dirty' = dirty /\ dbl' = dbl
      /\ OnlyMoves(t)
  BY <1>0, TakeTyped DEF LockVictim, Goto, OnlyMoves, TypeOK
<1>2. TypeOK'
  BY <1>0, TakeTyped DEF LockVictim, Goto, TypeOK, Working
<1>3. ~Adding(t) /\ ~Adding(t)'
  BY <1>0, <1>1 DEF Adding
<1>4. Placed(t)' /\ OwnProtocol(t)' /\ ToList(t)'
  BY <1>0, <1>1, <1>3 DEF Placed, OwnProtocol, ToList, InProtocol, InLoop, Walks, Well
<1>5. ASSUME NEW h
      PROVE  h \in held'[t] <=> Holds(t, h)'
  BY <1>0, <1>1 DEF Well, Holds, HoldsMap, HoldsObject, HoldsBlock, HoldsProtocol,
     HoldsVictim, InProtocol, InLoop, Walks
<1>6. Well(t)'
  BY <1>4, <1>5 DEF Well
<1>7. ASSUME NEW u \in Threads
      PROVE  Apart(t, u)' /\ Apart(u, t)'
  <2>1. /\ HoldsBlock(u) => arg[u] # victim[t]
        /\ HoldsVictim(u) => victim[u] # victim[t]
    BY <1>0, BlockFree DEF LockInv
  <2>2. /\ HoldsProtocol(t)' <=> HoldsProtocol(t)
        /\ HoldsBlock(t)' <=> HoldsBlock(t)
    BY <1>0, <1>1 DEF HoldsProtocol, HoldsBlock, InProtocol, InLoop
  <2>3. Apart(t, u) /\ Apart(u, t)
    BY DEF LockInv
  <2>4. CASE u = t
    BY <1>1, <2>1, <2>2, <2>3, <2>4 DEF Apart
  <2>5. CASE u # t
    <3>1. /\ HoldsBlock(u)' <=> HoldsBlock(u)
          /\ HoldsProtocol(u)' <=> HoldsProtocol(u)
          /\ HoldsVictim(u)' <=> HoldsVictim(u)
      BY <1>1, <2>5, OthersSame
    <3> QED BY <1>1, <2>1, <2>2, <2>3, <2>5, <3>1 DEF Apart
  <2> QED BY <2>4, <2>5
<1> QED BY <1>1, <1>2, <1>3, <1>6, <1>7, SameListStep

(* A protocol that a thread locks is nobody else's.                          *)
LEMMA ProtocolApart ==
    ASSUME LockInv, NEW t \in Threads, OnlyMoves(t), Granted(t), pc[t] \in Locking,
           Request(t) = << <<"protocol", protocol[t]>>, "write" >>,
           arg' = arg, victim' = victim, protocol' = protocol,
           HoldsBlock(t)' => HoldsBlock(t), ~HoldsVictim(t)',
           NEW u \in Threads
    PROVE  Apart(t, u)' /\ Apart(u, t)'
<1>1. HoldsProtocol(u) => protocol[u] # protocol[t]
  BY ProtocolFree DEF LockInv
<1>2. Apart(t, u) /\ Apart(u, t)
  BY DEF LockInv
<1>3. CASE u = t
  BY <1>3 DEF Apart
<1>4. CASE u # t
  <2>1. /\ HoldsBlock(u)' <=> HoldsBlock(u)
        /\ HoldsProtocol(u)' <=> HoldsProtocol(u)
        /\ HoldsVictim(u)' <=> HoldsVictim(u)
    BY <1>4, OthersSame
  <2> QED BY <1>1, <1>2, <1>4, <2>1 DEF Apart
<1> QED BY <1>3, <1>4

LEMMA AddDirtyStep ==
    ASSUME LockInv, NEW t \in Threads, AddDirty(t)
    PROVE  LockInv'
<1>0. /\ Well(t) /\ TypeOK /\ pc[t] = "lockProtocol" /\ pc[t] \in Locking
      /\ call[t] = "writeFault" /\ Take(t) /\ Granted(t)
      /\ Request(t) = << <<"protocol", protocol[t]>>, "write" >>
  BY RequestAt DEF LockInv, AddDirty, Locking
<1>1. /\ pc'[t] = "push"
      /\ call' = call /\ arg' = arg /\ victim' = victim /\ protocol' = protocol
      /\ held'[t] = held[t] \cup {<< <<"protocol", protocol[t]>>, "write" >>}
      /\ dirty' = dirty /\ dbl' = dbl
      /\ OnlyMoves(t)
  BY <1>0, TakeTyped DEF AddDirty, Goto, OnlyMoves, TypeOK
<1>2. TypeOK'
  BY <1>0, TakeTyped DEF AddDirty, Goto, TypeOK, Working
<1>3. /\ Adding(t) /\ Adding(t)'
      /\ HoldsBlock(t) /\ ~HoldsVictim(t)'
  BY <1>0, <1>1 DEF Adding, HoldsBlock, HoldsVictim, InProtocol
<1>4. Placed(t)' /\ OwnProtocol(t)' /\ ToList(t)'
  BY <1>0, <1>1, <1>3 DEF Placed, OwnProtocol, ToList, InProtocol, InLoop, Walks, Well
<1>5. ASSUME NEW h
      PROVE  h \in held'[t] <=> Holds(t, h)'
  BY <1>0, <1>1 DEF Well, Holds, HoldsMap, HoldsObject, HoldsBlock, HoldsProtocol,
     HoldsVictim, InProtocol, InLoop, Walks
<1>6. Well(t)'
  BY <1>4, <1>5 DEF Well
<1>7. \A u \in Threads : Apart(t, u)' /\ Apart(u, t)'
  BY <1>0, <1>1, <1>3, ProtocolApart
<1> QED BY <1>1, <1>2, <1>3, <1>6, <1>7, SameListStep

LEMMA ReleaseAllStep ==
    ASSUME LockInv, NEW t \in Threads, ReleaseAll(t)
    PROVE  LockInv'
<1>0. /\ Well(t) /\ TypeOK /\ pc[t] = "lockProtocol" /\ pc[t] \in Locking
      /\ call[t] = "launchAll" /\ Take(t) /\ Granted(t)
      /\ Request(t) = << <<"protocol", protocol[t]>>, "write" >>
      /\ protocol[t] \in Protocols
  BY RequestAt DEF LockInv, ReleaseAll, Locking, TypeOK
<1>1. /\ pc'[t] = "loop"
      /\ call' = call /\ arg' = arg /\ victim' = victim /\ protocol' = protocol
      /\ held'[t] = held[t] \cup {<< <<"protocol", protocol[t]>>, "write" >>}
      /\ dirty' = dirty /\ dbl' = dbl
      /\ OnlyMoves(t)
  BY <1>0, TakeTyped DEF ReleaseAll, Goto, OnlyMoves, TypeOK
<1>2. TypeOK'
  BY <1>0, TakeTyped, ShrinkTyped DEF ReleaseAll, Goto, TypeOK, Working
<1>3. /\ ~Adding(t) /\ ~Adding(t)'
      /\ HoldsBlock(t)' => HoldsBlock(t)
      /\ ~HoldsVictim(t)'
  BY <1>0, <1>1 DEF Adding, HoldsBlock, HoldsVictim
<1>4. Placed(t)' /\ OwnProtocol(t)' /\ ToList(t)'
  BY <1>0, <1>1, <1>3 DEF Placed, OwnProtocol, ToList, InProtocol, InLoop, Walks, Well
<1>5. ASSUME NEW h
      PROVE  h \in held'[t] <=> Holds(t, h)'
  BY <1>0, <1>1 DEF Well, Holds, HoldsMap, HoldsObject, HoldsBlock, HoldsProtocol,
     HoldsVictim, InProtocol, InLoop, Walks
<1>6. Well(t)'
  BY <1>4, <1>5 DEF Well
<1>7. \A u \in Threads : Apart(t, u)' /\ Apart(u, t)'
  BY <1>0, <1>1, <1>3, ProtocolApart
<1> QED BY <1>1, <1>2, <1>3, <1>6, <1>7, SameListStep

-------------------------------------------------------------------------------
(* Steps that change the list or what is Dirty.                              *)

LEMMA ModifyStep ==
    ASSUME LockInv, NEW t \in Threads, Modify(t)
    PROVE  LockInv'
<1>0. /\ Well(t) /\ TypeOK /\ pc[t] = "operate" /\ call[t] = "writeFault"
      /\ ~Adding(t)
      /\ arg[t] \in Objects /\ Home[arg[t]] \in Modes
  BY ModesAssumption DEF LockInv, Modify, Adding, TypeOK
<1>1. CASE arg[t] \in dirty
  BY <1>0, <1>1, ReturnStep DEF Modify
<1>2. CASE arg[t] \notin dirty
  <2>1. /\ pc'[t] = "lockProtocol" /\ protocol'[t] = Home[arg[t]]
        /\ call' = call /\ arg' = arg /\ victim' = victim /\ held' = held
        /\ dirty' = dirty \cup {arg[t]} /\ dbl' = dbl
        /\ OnlyMoves(t)
    BY <1>0, <1>2 DEF Modify, Goto, OnlyMoves, TypeOK
  <2>2. TypeOK'
    BY ZenonT(60), <1>0, <1>2 DEF Modify, Goto, TypeOK, Locking, Protocols
  <2>3. Adding(t)' /\ LocksNothing(t)
    BY <1>0, <2>1 DEF Adding, LocksNothing, HoldsBlock, HoldsProtocol, HoldsVictim, InLoop
  <2>4. Placed(t)' /\ OwnProtocol(t)' /\ ToList(t)'
    BY <1>0, <2>1 DEF Placed, OwnProtocol, ToList, InProtocol, InLoop, Walks
  <2>5. ASSUME NEW h
        PROVE  h \in held'[t] <=> Holds(t, h)'
    BY <1>0, <2>1 DEF Well, Holds, HoldsMap, HoldsObject, HoldsBlock, HoldsProtocol,
       HoldsVictim, InProtocol, InLoop, Walks
  <2>6. Well(t)'
    BY <2>4, <2>5 DEF Well
  <2>7. ASSUME NEW u \in Threads
        PROVE  Apart(t, u)' /\ Apart(u, t)'
    <3>1. Apart(t, u) /\ Apart(u, t) /\ Apart(t, t)
      BY DEF LockInv
    <3> QED BY <2>1, <2>3, <3>1, StillApart
  <2>8. \A u \in Threads \ {t} : ToList(u)'
    BY <2>1, OthersSame DEF LockInv, Well, ToList, OnlyMoves
  <2>9. DirtyListed'
    <3>1. ASSUME NEW p \in Protocols, NEW o
          PROVE  o \in Unlisted(p)' <=>
                    o \in Unlisted(p) \/ (o = arg[t] /\ p = Home[arg[t]])
      <4>1. o \in Unlisted(p) <=>
               \E u \in Threads \ {t} : Adding(u) /\ protocol[u] = p /\ arg[u] = o
        BY <1>0, UnlistedIs
      <4>2. o \in Unlisted(p)' <=>
               \E u \in Threads : Adding(u)' /\ protocol'[u] = p /\ arg'[u] = o
        BY DEF Unlisted, Adding
      <4>3. ASSUME NEW u \in Threads \ {t}
            PROVE  Adding(u)' /\ protocol'[u] = p /\ arg'[u] = o <=>
                      Adding(u) /\ protocol[u] = p /\ arg[u] = o
        BY <2>1, OthersSame DEF OnlyMoves
      <4> QED BY <2>1, <2>3, <4>1, <4>2, <4>3
    <3>2. ASSUME NEW p \in Protocols
          PROVE  IsInjective(dbl[p])'
                 /\ Range(dbl[p])' = {o \in dirty : Home[o] = p}' \ Unlisted(p)'
      <4>1. /\ IsInjective(dbl[p])
            /\ Range(dbl[p]) = {o \in dirty : Home[o] = p} \ Unlisted(p)
        BY DEF LockInv, DirtyListed
      <4> QED BY <1>2, <2>1, <3>1, <4>1
    <3> QED BY <3>2 DEF DirtyListed
  <2> QED BY <2>1, <2>2, <2>6, <2>7, <2>8, <2>9, ThreadStep
<1> QED BY <1>1, <1>2

(* A thread that adds a block to the list is the only one to hold it.        *)
LEMMA AddsAlone ==
    ASSUME LockInv, NEW t \in Threads, NEW u \in Threads, Adding(u), t # u
    PROVE  /\ HoldsBlock(t) => arg[u] # arg[t]
           /\ HoldsVictim(t) => arg[u] # victim[t]
BY DEF LockInv, Apart, Adding, HoldsBlock, InProtocol

(* Releasing a block that no thread is about to list keeps the list exact.   *)
LEMMA ReleaseKeepsList ==
    ASSUME LockInv, NEW t \in Threads, OnlyMoves(t), NEW o \in Objects, Release(o),
           ~Adding(t), ~Adding(t)',
           \A u \in Threads : Adding(u) => arg[u] # o
    PROVE  /\ DirtyListed'
           /\ \A u \in Threads \ {t} : ToList(u)'
           /\ dirty' \subseteq Objects
           /\ dbl' \in [Protocols -> Seq(Objects)]
<1>0. TypeOK /\ DirtyListed /\ Home[o] \in Protocols
  BY ModesAssumption DEF LockInv, Protocols
<1>1. /\ dirty' = dirty \ {o}
      /\ \A p \in Protocols : dbl'[p] = IF p = Home[o] /\ o \in dirty
                                        THEN RemoveFirst(dbl[p], o) ELSE dbl[p]
      /\ dbl' = [p \in Protocols |-> dbl'[p]]
  BY <1>0 DEF Release, TypeOK
<1>2. \A p : Unlisted(p)' = Unlisted(p)
  BY UnlistedSame
<1>3. \A p : o \notin Unlisted(p)
  BY UnlistedIs
<1>4. ASSUME NEW p \in Protocols
      PROVE  /\ dbl'[p] \in Seq(Objects)
             /\ IsInjective(dbl'[p])
             /\ Range(dbl'[p]) = {b \in dirty' : Home[b] = p} \ Unlisted(p)'
  <2>1. /\ dbl[p] \in Seq(Objects)
        /\ IsInjective(dbl[p])
        /\ Range(dbl[p]) = {b \in dirty : Home[b] = p} \ Unlisted(p)
    BY <1>0 DEF TypeOK, DirtyListed
  <2>2. CASE p = Home[o] /\ o \in dirty
    <3>1. /\ RemoveFirst(dbl[p], o) \in Seq(Objects)
          /\ IsInjective(RemoveFirst(dbl[p], o))
          /\ Range(RemoveFirst(dbl[p], o)) = Range(dbl[p]) \ {o}
      BY <2>1, RemoveListed
    <3> QED BY <1>1, <1>2, <1>3, <2>1, <2>2, <3>1
  <2>3. CASE ~(p = Home[o] /\ o \in dirty)
    <3>1. {b \in dirty' : Home[b] = p} = {b \in dirty : Home[b] = p}
      BY <1>1, <2>3
    <3> QED BY <1>1, <1>2, <2>1, <2>3, <3>1
  <2> QED BY <2>2, <2>3
<1>5. DirtyListed'
  BY <1>4 DEF DirtyListed
<1>6. \A u \in Threads \ {t} : ToList(u)'
  BY <1>1, OthersSame DEF LockInv, Well, ToList, OnlyMoves
<1>7. dbl' \in [Protocols -> Seq(Objects)] /\ dirty' \subseteq Objects
  BY <1>0, <1>1, <1>4 DEF TypeOK
<1> QED BY <1>5, <1>6, <1>7

LEMMA ReleaseListedStep ==
    ASSUME LockInv, NEW t \in Threads, ReleaseListed(t)
    PROVE  LockInv'
<1>0. /\ Well(t) /\ TypeOK /\ pc[t] = "operate" /\ call[t] = "launchListed"
      /\ Drop(t, {<<"block", arg[t]>>, <<"object", arg[t]>>}) /\ Release(arg[t])
      /\ arg[t] \in Objects
  BY DEF LockInv, ReleaseListed, TypeOK
<1>1. /\ pc'[t] = "lockProtocol" /\ protocol'[t] = ModeOf[t]
      /\ call' = call /\ arg' = arg /\ victim' = victim
      /\ \A h : h \in held'[t] <=>
                   h \in held[t] /\ h[1] \notin {<<"block", arg[t]>>, <<"object", arg[t]>>}
      /\ OnlyMoves(t)
  <2>1. \A h : h \in held'[t] <=>
                  h \in held[t] /\ h[1] \notin {<<"block", arg[t]>>, <<"object", arg[t]>>}
    BY <1>0, DropTyped
  <2> QED BY <1>0, <2>1, DropTyped DEF ReleaseListed, Goto, OnlyMoves, TypeOK
<1>2. /\ HoldsBlock(t) /\ ~Adding(t) /\ ~Adding(t)'
      /\ LocksNothing(t)
  BY <1>0, <1>1 DEF Adding, LocksNothing, HoldsBlock, HoldsProtocol, HoldsVictim, InLoop
<1>3. \A u \in Threads : Adding(u) => arg[u] # arg[t]
  BY <1>2, AddsAlone
<1>4. /\ DirtyListed'
      /\ \A u \in Threads \ {t} : ToList(u)'
      /\ dirty' \subseteq Objects
      /\ dbl' \in [Protocols -> Seq(Objects)]
  BY <1>0, <1>1, <1>2, <1>3, ReleaseKeepsList
<1>5. TypeOK'
  BY <1>0, <1>4, DropTyped, ModesAssumption DEF ReleaseListed, Goto, TypeOK, Locking, Protocols
<1>6. Placed(t)' /\ OwnProtocol(t)' /\ ToList(t)'
  BY <1>0, <1>1, <1>2 DEF Placed, OwnProtocol, ToList, InProtocol, InLoop, Walks
<1>7. ASSUME NEW h
      PROVE  h \in held'[t] <=> Holds(t, h)'
  BY <1>0, <1>1 DEF Well, Holds, HoldsMap, HoldsObject, HoldsBlock, HoldsProtocol,
     HoldsVictim, InProtocol, InLoop, Walks
<1>8. Well(t)'
  BY <1>6, <1>7 DEF Well
<1>9. ASSUME NEW u \in Threads
      PROVE  Apart(t, u)' /\ Apart(u, t)'
  <2>1. Apart(t, u) /\ Apart(u, t) /\ Apart(t, t)
    BY DEF LockInv
  <2> QED BY <1>1, <1>2, <2>1, StillApart
<1> QED BY <1>1, <1>4, <1>5, <1>8, <1>9, ThreadStep

LEMMA EvictStep ==
    ASSUME LockInv, NEW t \in Threads, Evict(t)
    PROVE  LockInv'
<1>0. /\ Well(t) /\ TypeOK /\ pc[t] = "evict"
      /\ Drop(t, {<<"block", victim[t]>>}) /\ Release(victim[t])
      /\ victim[t] \in Objects
      /\ HoldsBlock(t) => arg[t] # victim[t]
  BY DEF LockInv, Evict, TypeOK, Apart, HoldsVictim
<1>1. /\ pc'[t] = "loop"
      /\ call' = call /\ arg' = arg /\ protocol' = protocol
      /\ \A h : h \in held'[t] <=> h \in held[t] /\ h[1] # <<"block", victim[t]>>
      /\ OnlyMoves(t)
  <2>1. \A h : h \in held'[t] <=> h \in held[t] /\ h[1] # <<"block", victim[t]>>
    BY <1>0, DropTyped
  <2> QED BY <1>0, <2>1, DropTyped DEF Evict, Goto, OnlyMoves, TypeOK
<1>2. /\ HoldsVictim(t) /\ ~Adding(t) /\ ~Adding(t)'
      /\ LocksNothing(t)
  BY <1>0, <1>1 DEF Adding, LocksNothing, HoldsBlock, HoldsProtocol, HoldsVictim, InProtocol, InLoop
<1>3. \A u \in Threads : Adding(u) => arg[u] # victim[t]
  BY <1>2, AddsAlone
<1>4. /\ DirtyListed'
      /\ \A u \in Threads \ {t} : ToList(u)'
      /\ dirty' \subseteq Objects
      /\ dbl' \in [Protocols -> Seq(Objects)]
  BY <1>0, <1>1, <1>2, <1>3, ReleaseKeepsList
<1>5. TypeOK'
  BY <1>0, <1>4, DropTyped, NoObjectIsObject DEF Evict, Goto, TypeOK, Working
<1>6. Placed(t)' /\ OwnProtocol(t)' /\ ToList(t)'
  BY <1>0, <1>1, <1>2 DEF Placed, OwnProtocol, ToList, InProtocol, InLoop, Well
<1>7. ASSUME NEW h
      PROVE  h \in held'[t] <=> Holds(t, h)'
  BY <1>0, <1>1 DEF Well, Placed, Holds, HoldsMap, HoldsObject, HoldsBlock, HoldsProtocol,
     HoldsVictim, InProtocol, InLoop, Walks
<1>8. Well(t)'
  BY <1>6, <1>7 DEF Well
<1>9. ASSUME NEW u \in Threads
      PROVE  Apart(t, u)' /\ Apart(u, t)'
  <2>1. Apart(t, u) /\ Apart(u, t) /\ Apart(t, t)
    BY DEF LockInv
  <2> QED BY <1>1, <1>2, <2>1, StillApart
<1> QED BY <1>1, <1>4, <1>5, <1>8, <1>9, ThreadStep

LEMMA PushStep ==
    ASSUME LockInv, NEW t \in Threads, Push(t)
    PROVE  LockInv'
<1>0. /\ Well(t) /\ TypeOK /\ DirtyListed /\ pc[t] = "push" /\ call[t] = "writeFault"
      /\ protocol[t] = Home[arg[t]] /\ protocol[t] \in Protocols
      /\ arg[t] \in Objects /\ arg[t] \in dirty
      /\ Adding(t) /\ HoldsBlock(t)
  BY DEF LockInv, Push, TypeOK, Well, Placed, OwnProtocol, ToList, Adding, HoldsBlock, InProtocol
<1>1. /\ pc'[t] = "loop"
      /\ call' = call /\ arg' = arg /\ victim' = victim /\ protocol' = protocol
      /\ held' = held /\ dirty' = dirty
      /\ dbl' = [dbl EXCEPT ![protocol[t]] = Append(@, arg[t])]
      /\ OnlyMoves(t)
  BY <1>0 DEF Push, Goto, OnlyMoves, TypeOK
<1>2. ~Adding(t)' /\ LocksNothing(t)
  BY <1>0, <1>1 DEF Adding, LocksNothing, HoldsBlock, HoldsProtocol, HoldsVictim, InProtocol, InLoop
<1>3. ASSUME NEW p, NEW o
      PROVE  o \in Unlisted(p)' <=> o \in Unlisted(p) /\ ~(o = arg[t] /\ p = protocol[t])
  <2>1. o \in Unlisted(p) <=> \E u \in Threads : Adding(u) /\ protocol[u] = p /\ arg[u] = o
    BY UnlistedIs
  <2>2. o \in Unlisted(p)' <=>
           \E u \in Threads : Adding(u)' /\ protocol'[u] = p /\ arg'[u] = o
    BY DEF Unlisted, Adding
  <2>3. ASSUME NEW u \in Threads \ {t}
        PROVE  /\ Adding(u)' <=> Adding(u)
               /\ Adding(u) => arg[u] # arg[t]
    BY <1>0, <1>1, OthersSame, AddsAlone
  <2> QED BY <1>0, <1>1, <1>2, <2>1, <2>2, <2>3
<1>4. arg[t] \in Unlisted(protocol[t])
  BY <1>0, UnlistedIs
<1>5. ASSUME NEW p \in Protocols
      PROVE  /\ dbl'[p] \in Seq(Objects)
             /\ IsInjective(dbl'[p])
             /\ Range(dbl'[p]) = {b \in dirty' : Home[b] = p} \ Unlisted(p)'
  <2>1. /\ dbl[p] \in Seq(Objects)
        /\ IsInjective(dbl[p])
        /\ Range(dbl[p]) = {b \in dirty : Home[b] = p} \ Unlisted(p)
    BY <1>0 DEF TypeOK, DirtyListed
  <2>2. CASE p = protocol[t]
    <3>1. arg[t] \notin Range(dbl[p])
      BY <1>4, <2>1, <2>2
    <3>2. /\ Append(dbl[p], arg[t]) \in Seq(Objects)
          /\ IsInjective(Append(dbl[p], arg[t]))
          /\ Range(Append(dbl[p], arg[t])) = Range(dbl[p]) \cup {arg[t]}
      BY <1>0, <2>1, <3>1, AppendListed
    <3>3. dbl'[p] = Append(dbl[p], arg[t])
      BY <1>0, <1>1, <2>2 DEF TypeOK
    <3> QED BY <1>0, <1>1, <1>3, <2>1, <2>2, <3>2, <3>3
  <2>3. CASE p # protocol[t]
    <3>1. dbl'[p] = dbl[p]
      BY <1>0, <1>1, <2>3 DEF TypeOK
    <3> QED BY <1>1, <1>3, <2>1, <2>3, <3>1
  <2> QED BY <2>2, <2>3
<1>6. DirtyListed'
  BY <1>5 DEF DirtyListed
<1>7. TypeOK'
  <2>1. dbl' \in [Protocols -> Seq(Objects)]
    BY <1>0, <1>1, <1>5 DEF TypeOK
  <2>2. limit' \in [Protocols -> 1..MaxLimit]
    BY <1>0, MaxLimitAssumption DEF Push, TypeOK
  <2> QED BY <1>0, <2>1, <2>2 DEF Push, Goto, TypeOK, Working
<1>8. Placed(t)' /\ OwnProtocol(t)' /\ ToList(t)'
  BY <1>0, <1>1, <1>2 DEF Placed, OwnProtocol, ToList, InProtocol, InLoop
<1>9. ASSUME NEW h
      PROVE  h \in held'[t] <=> Holds(t, h)'
  BY <1>0, <1>1 DEF Well, Holds, HoldsMap, HoldsObject, HoldsBlock, HoldsProtocol,
     HoldsVictim, InProtocol, InLoop, Walks
<1>10. Well(t)'
  BY <1>8, <1>9 DEF Well
<1>11. ASSUME NEW u \in Threads
       PROVE  Apart(t, u)' /\ Apart(u, t)'
  <2>1. Apart(t, u) /\ Apart(u, t) /\ Apart(t, t)
    BY DEF LockInv
  <2> QED BY <1>1, <1>2, <2>1, StillApart
<1>12. \A u \in Threads \ {t} : ToList(u)'
  BY <1>1, OthersSame DEF LockInv, Well, ToList, OnlyMoves
<1> QED BY <1>1, <1>6, <1>7, <1>10, <1>11, <1>12, ThreadStep

-------------------------------------------------------------------------------
(* The invariant.                                                            *)

LEMMA StartsStep ==
    ASSUME LockInv, NEW t \in Threads, Starts(t)
    PROVE  LockInv'
<1>1. arg[t] \in Objects
  BY DEF LockInv, TypeOK
<1>2. CASE SignalWrite(t)
  BY <1>2, CallStep DEF SignalWrite, Calls
<1>3. CASE LaunchListed(t)
  BY <1>3, CallStep DEF LaunchListed, Calls
<1>4. CASE LaunchAll(t)
  <2>1. Call(t, "launchAll", arg[t], "check")
    BY <1>4 DEF LaunchAll
  <2> QED BY <1>1, <2>1, CallStep DEF Calls, Walks
<1>5. CASE Synchronize(t)
  <2>1. Call(t, "synchronize", arg[t], "check")
    BY <1>5 DEF Synchronize
  <2> QED BY <1>1, <2>1, CallStep DEF Calls, Walks
<1> QED BY <1>2, <1>3, <1>4, <1>5 DEF Starts

LEMMA WorksStep ==
    ASSUME LockInv, NEW t \in Threads, Works(t)
    PROVE  LockInv'
<1>1. CASE OnMap(t)
  <2>1. CASE CheckNothing(t)
    BY <2>1, ReturnStep DEF CheckNothing, Adding
  <2>2. CASE Finish(t)
    BY <2>2, ReturnStep DEF Finish, Adding
  <2> QED BY <1>1, <2>1, <2>2, FindStep, CheckStep, EachStep, EachDoneStep, EnterStep, NotifyStep
          DEF OnMap
<1>2. CASE OnBlock(t)
  BY <1>2, LockBlockStep, ModifyStep, ReleaseListedStep, AcquireStep DEF OnBlock
<1>3. CASE OnList(t)
  <2>1. CASE AddDirtyReturns(t)
    BY <2>1, ReturnStep DEF AddDirtyReturns, Adding
  <2> QED BY <1>3, <2>1, ReleasedAllStep, ReleaseAllStep, AddDirtyStep, PushStep, LoopAgainStep,
             ReleaseAllReturnsStep, TakeFrontStep, LockVictimStep, EvictStep
          DEF OnList
<1> QED BY <1>1, <1>2, <1>3 DEF Works

LEMMA StutterStep ==
    ASSUME LockInv, UNCHANGED vars
    PROVE  LockInv'
<1>1. TypeOK'
  BY DEF LockInv, TypeOK, vars
<1>2. \A t \in Threads : Well(t)'
  BY DEF LockInv, vars, Well, Placed, OwnProtocol, ToList, Adding, Holds, HoldsMap, HoldsObject,
     HoldsBlock, HoldsProtocol, HoldsVictim
<1>3. \A t, u \in Threads : Apart(t, u)'
  BY DEF LockInv, vars, Apart, HoldsBlock, HoldsProtocol, HoldsVictim
<1>4. DirtyListed'
  BY DEF LockInv, vars, DirtyListed, Unlisted
<1> QED BY <1>1, <1>2, <1>3, <1>4 DEF LockInv

LEMMA InvariantStep == LockInv /\ [Next]_vars => LockInv'
BY StartsStep, WorksStep, StutterStep DEF Next

LEMMA InvariantHolds == Spec => []LockInv
BY InvariantInit, InvariantStep, PTL DEF Spec

(* The types of the variables, with the limits of all protocols at least 1,  *)
(* whatever calls threads make at the same time (Lazy.cpp:246, 275).         *)
THEOREM ThreadsTypeCorrect == Spec => []TypeOK
<1>1. LockInv => TypeOK
  BY DEF LockInv
<1> QED BY <1>1, InvariantHolds, PTL

(* The Dirty Block List names each Dirty block once, whichever threads fault,*)
(* launch and synchronise at the same time, disciplined or not: the locks of *)
(* blocks are enough to keep the lists exact, although a launch that lists   *)
(* objects removes blocks without the mutex of the protocol.                 *)
THEOREM ListUnderThreads == Spec => []DirtyListed
<1>1. LockInv => DirtyListed
  BY DEF LockInv
<1> QED BY <1>1, InvariantHolds, PTL

-------------------------------------------------------------------------------
(* Disciplined programs: what calls run beside each other.                   *)

\* The calls in progress for one mode are write faults or walks.
Compatible(t, u) ==
    t # u /\ call[t] # "none" /\ call[u] # "none" /\ ModeOfCall(t) = ModeOfCall(u) =>
        \/ call[t] = "writeFault" /\ call[u] = "writeFault"
        \/ call[t] \in Walks /\ call[u] \in Walks

\* A launch lists objects of its mode.
ListsOwn(t) == call[t] = "launchListed" => Home[arg[t]] = ModeOf[t]

\* What a loop over a list relies on while others run: its condition stays so
\* until it has released the front, and the block that addDirty has added stays
\* at the end of the list.
OverList(t) ==
    /\ pc[t] \in InLoop \ {"loop"} => GoesOn(t)
    /\ pc[t] \in {"lockVictim", "evict"} => victim[t] = Head(dbl[protocol[t]])
    /\ pc[t] \in InLoop /\ call[t] = "writeFault" =>
           dbl[protocol[t]] # <<>> /\ Last(dbl[protocol[t]]) = arg[t]

CallInv ==
    /\ LockInv
    /\ \A t, u \in Threads : Compatible(t, u)
    /\ \A t \in Threads : ListsOwn(t) /\ OverList(t)

LEMMA CallInvInit == Init => CallInv
<1> SUFFICES ASSUME Init PROVE CallInv
  OBVIOUS
<1>1. \A t \in Threads : call[t] = "none" /\ pc[t] = "idle"
  BY DEF Init
<1>2. \A t, u \in Threads : Compatible(t, u)
  BY <1>1 DEF Compatible
<1>3. \A t \in Threads : ListsOwn(t) /\ OverList(t)
  BY <1>1 DEF ListsOwn, OverList, InLoop
<1> QED BY <1>2, <1>3, InvariantInit DEF CallInv

\* A call goes on with the object it was made for, or returns.
GoesOnOrReturns(t) ==
    \/ call'[t] = "none"
    \/ /\ call'[t] = call[t]
       /\ call[t] \in {"writeFault", "launchListed"} => arg'[t] = arg[t]

LEMMA WorkMovesOne ==
    ASSUME LockInv, NEW t \in Threads, Works(t)
    PROVE  OnlyMoves(t) /\ GoesOnOrReturns(t)
<1>1. TypeOK /\ Placed(t)
  BY DEF LockInv, Well
<1>2. CASE OnMap(t)
  <2>1. CASE Find(t) \/ Notify(t) \/ Check(t) \/ EachDone(t)
    BY <1>1, <2>1 DEF Find, Notify, Check, EachDone, Goto, Take, Drop, OnlyMoves, GoesOnOrReturns, TypeOK
  <2>2. CASE Each(t)
    BY <1>1, <2>2 DEF Each, Goto, OnlyMoves, GoesOnOrReturns, TypeOK, Placed, Walks
  <2>3. CASE Enter(t)
    <3>1. call' = call /\ arg' = arg /\ victim' = victim /\ protocol' = protocol
      BY <2>3 DEF Enter
    <3>2. \A u \in Threads \ {t} : pc'[u] = pc[u] /\ held'[u] = held[u]
      BY <1>1, <2>3 DEF Enter, Goto, Take, TypeOK
    <3> QED BY <3>1, <3>2 DEF OnlyMoves, GoesOnOrReturns
  <2>4. CASE CheckNothing(t) \/ Finish(t)
    BY <1>1, <2>4 DEF CheckNothing, Finish, Return, Goto, OnlyMoves, GoesOnOrReturns, TypeOK
  <2> QED BY <1>2, <2>1, <2>2, <2>3, <2>4 DEF OnMap
<1>3. CASE OnBlock(t)
  <2>1. CASE LockBlock(t) \/ ReleaseListed(t) \/ Acquire(t)
    BY <1>1, <2>1 DEF LockBlock, ReleaseListed, Acquire, Goto, Take, Drop, OnlyMoves,
       GoesOnOrReturns, TypeOK
  <2>2. CASE Modify(t)
    BY <1>1, <2>2 DEF Modify, Return, Goto, OnlyMoves, GoesOnOrReturns, TypeOK
  <2> QED BY <1>3, <2>1, <2>2 DEF OnBlock
<1>4. CASE OnList(t)
  <2>1. CASE ReleaseAll(t) \/ AddDirty(t) \/ Push(t) \/ LoopAgain(t) \/ LockVictim(t)
    BY <1>1, <2>1 DEF ReleaseAll, AddDirty, Push, LoopAgain, LockVictim, Goto, Take, OnlyMoves,
       GoesOnOrReturns, TypeOK
  <2>2. CASE ReleasedAll(t) \/ ReleaseAllReturns(t)
    BY <1>1, <2>2 DEF ReleasedAll, ReleaseAllReturns, NextProtocol, Goto, Drop, OnlyMoves,
       GoesOnOrReturns, TypeOK
  <2>3. CASE AddDirtyReturns(t)
    BY <1>1, <2>3 DEF AddDirtyReturns, Return, Goto, OnlyMoves, GoesOnOrReturns, TypeOK
  <2>4. CASE TakeFront(t) \/ Evict(t)
    BY <1>1, <2>4 DEF TakeFront, Evict, Goto, Drop, OnlyMoves, GoesOnOrReturns, TypeOK
  <2> QED BY <1>4, <2>1, <2>2, <2>3, <2>4 DEF OnList
<1> QED BY <1>2, <1>3, <1>4 DEF Works

(* Calls that go on or return stay compatible.                               *)
LEMMA WorkKeepsCompatible ==
    ASSUME CallInv, NEW t \in Threads, OnlyMoves(t), GoesOnOrReturns(t)
    PROVE  /\ \A u, v \in Threads : Compatible(u, v)'
           /\ \A u \in Threads : ListsOwn(u)'
<1>1. ASSUME NEW u \in Threads
      PROVE  \/ call'[u] = "none"
             \/ /\ call'[u] = call[u]
                /\ ModeOfCall(u)' = ModeOfCall(u)
                /\ call[u] = "launchListed" => arg'[u] = arg[u]
  BY DEF OnlyMoves, GoesOnOrReturns, ModeOfCall
<1>2. \A u, v \in Threads : Compatible(u, v)'
  BY <1>1 DEF CallInv, Compatible
<1>3. \A u \in Threads : ListsOwn(u)'
  BY <1>1 DEF CallInv, ListsOwn
<1> QED BY <1>2, <1>3

(* A call that begins is compatible with those in progress.                  *)
LEMMA StartKeepsCompatible ==
    ASSUME CallInv, Disciplined, NEW t \in Threads, Starts(t)
    PROVE  /\ \A u, v \in Threads : Compatible(u, v)'
           /\ \A u \in Threads : ListsOwn(u)'
           /\ OnlyMoves(t)
<1>0. LockInv /\ TypeOK
  BY DEF CallInv, LockInv
<1>1. OnlyMoves(t)
  BY <1>0 DEF Starts, SignalWrite, LaunchListed, LaunchAll, Synchronize, Call, Goto, OnlyMoves, TypeOK
<1>2. ASSUME NEW m, NEW u \in Threads \ {t}, call'[u] # "none", ModeOfCall(u)' = m
      PROVE  call'[u] \in Others(t, m)
  <2>1. call'[u] = call[u] /\ ModeOfCall(u)' = ModeOfCall(u)
    BY <1>1 DEF OnlyMoves, ModeOfCall
  <2> QED BY <1>2, <2>1 DEF Others
<1>3. /\ \A u \in Threads \ {t} : Compatible(t, u)' /\ Compatible(u, t)'
      /\ ListsOwn(t)'
  <2>1. CASE SignalWrite(t)
    <3>1. PICK o \in Objects : MayWrite(t, o) /\ Call(t, "writeFault", o, "find")
      BY <2>1 DEF SignalWrite
    <3>2. call'[t] = "writeFault" /\ arg'[t] = o
      BY <1>0, <3>1 DEF Call, TypeOK
    <3>3. ModeOfCall(t)' = Home[o] /\ Others(t, Home[o]) \subseteq {"writeFault"}
      BY <3>1, <3>2 DEF ModeOfCall, MayWrite
    <3> QED BY <1>2, <3>2, <3>3 DEF Compatible, ListsOwn
  <2>2. CASE LaunchListed(t)
    <3>1. PICK o \in Objects : MayLaunchListed(t, o) /\ Call(t, "launchListed", o, "find")
      BY <2>2 DEF LaunchListed
    <3>2. call'[t] = "launchListed" /\ arg'[t] = o
      BY <1>0, <3>1 DEF Call, TypeOK
    <3>3. /\ ModeOfCall(t)' = ModeOf[t] /\ Others(t, ModeOf[t]) = {}
          /\ Home[o] = ModeOf[t]
      BY <3>1, <3>2 DEF ModeOfCall, MayLaunchListed
    <3> QED BY <1>2, <3>2, <3>3 DEF Compatible, ListsOwn
  <2>3. CASE LaunchAll(t) \/ Synchronize(t)
    <3>1. call'[t] \in Walks /\ MayLaunch(t)
      BY <1>0, <2>3 DEF LaunchAll, Synchronize, Call, Walks, TypeOK
    <3>2. /\ call'[t] # "writeFault" /\ call'[t] # "launchListed"
          /\ ModeOfCall(t)' = ModeOf[t] /\ Others(t, ModeOf[t]) \subseteq Walks
      BY <3>1 DEF ModeOfCall, MayLaunch, Walks
    <3> QED BY <1>2, <3>1, <3>2 DEF Compatible, ListsOwn
  <2> QED BY <2>1, <2>2, <2>3 DEF Starts
<1>4. ASSUME NEW u \in Threads \ {t}, NEW v \in Threads \ {t}
      PROVE  Compatible(u, v)' /\ ListsOwn(u)'
  <2>1. /\ call'[u] = call[u] /\ arg'[u] = arg[u] /\ ModeOfCall(u)' = ModeOfCall(u)
        /\ call'[v] = call[v] /\ ModeOfCall(v)' = ModeOfCall(v)
    BY <1>1 DEF OnlyMoves, ModeOfCall
  <2> QED BY <2>1 DEF CallInv, Compatible, ListsOwn
<1>5. Compatible(t, t)'
  BY DEF Compatible
<1>6. ASSUME NEW u \in Threads, NEW v \in Threads
      PROVE  Compatible(u, v)'
  BY <1>3, <1>4, <1>5
<1>7. ASSUME NEW u \in Threads
      PROVE  ListsOwn(u)'
  BY <1>3, <1>4
<1> QED BY <1>1, <1>6, <1>7

-------------------------------------------------------------------------------
(* Disciplined programs: loops over the Dirty Block List.                    *)

LEMMA HeadListed ==
    ASSUME NEW S, NEW s \in Seq(S), s # <<>>
    PROVE  Head(s) \in Range(s) /\ Len(s) \in Nat /\ Len(s) > 0
<1>1. Len(s) \in Nat /\ Len(s) > 0 /\ DOMAIN s = 1..Len(s) /\ Head(s) = s[1]
  OBVIOUS
<1> QED BY <1>1 DEF Range

(* The front of a list is a Dirty block of the list's mode that no thread is *)
(* still about to list.                                                      *)
LEMMA VictimListed ==
    ASSUME CallInv, NEW t \in Threads, pc[t] \in {"lockVictim", "evict"}
    PROVE  /\ dbl[protocol[t]] # <<>> /\ victim[t] = Head(dbl[protocol[t]])
           /\ Home[victim[t]] = protocol[t]
           /\ \A u \in Threads : Adding(u) /\ arg[u] = victim[t] => protocol[u] # protocol[t]
<1>1. /\ protocol[t] \in Protocols /\ DirtyListed
      /\ dbl[protocol[t]] \in Seq(Objects)
      /\ limit[protocol[t]] \in 1..MaxLimit
      /\ GoesOn(t)
      /\ victim[t] = Head(dbl[protocol[t]])
  BY DEF CallInv, LockInv, TypeOK, OverList, InLoop
<1>2. Len(dbl[protocol[t]]) > 0
  BY <1>1, MaxLimitAssumption DEF GoesOn
<1>3. dbl[protocol[t]] # <<>>
  BY <1>2
<1>4. Head(dbl[protocol[t]]) \in Range(dbl[protocol[t]])
  BY <1>1, <1>3, HeadListed
<1>5. Home[victim[t]] = protocol[t] /\ victim[t] \notin Unlisted(protocol[t])
  BY <1>1, <1>4 DEF DirtyListed
<1> QED BY <1>1, <1>3, <1>5, UnlistedIs

(* Whose list and limit a step may change.                                   *)
LEMMA ListsChange ==
    ASSUME CallInv, NEW t \in Threads, Works(t), NEW p \in Protocols,
           ~(HoldsProtocol(t) /\ protocol[t] = p),
           ~(pc[t] = "lockProtocol" /\ Granted(t) /\ protocol[t] = p),
           ~(pc[t] = "operate" /\ call[t] = "launchListed" /\ Home[arg[t]] = p)
    PROVE  dbl'[p] = dbl[p] /\ limit'[p] = limit[p]
<1>0. TypeOK
  BY DEF CallInv, LockInv
<1>1. CASE OnMap(t)
  <2>1. UNCHANGED <<dbl, limit>>
    BY <1>1 DEF OnMap, Find, CheckNothing, Check, Each, EachDone, Enter, Notify, Finish
  <2> QED BY <2>1
<1>2. CASE OnBlock(t)
  <2>1. CASE LockBlock(t) \/ Modify(t) \/ Acquire(t)
    BY <2>1 DEF LockBlock, Modify, Acquire
  <2>2. CASE ReleaseListed(t)
    BY <1>0, <2>2 DEF ReleaseListed, Release, TypeOK
  <2> QED BY <1>2, <2>1, <2>2 DEF OnBlock
<1>3. CASE OnList(t)
  <2>1. CASE AddDirty(t) \/ LoopAgain(t) \/ AddDirtyReturns(t) \/ ReleaseAllReturns(t)
             \/ TakeFront(t) \/ LockVictim(t)
    BY <2>1 DEF AddDirty, LoopAgain, AddDirtyReturns, ReleaseAllReturns, TakeFront, LockVictim
  <2>2. CASE ReleasedAll(t) \/ ReleaseAll(t)
    BY <1>0, <2>2 DEF ReleasedAll, ReleaseAll, Shrink, TypeOK
  <2>3. CASE Push(t)
    BY <1>0, <2>3 DEF Push, HoldsProtocol, TypeOK
  <2>4. CASE Evict(t)
    <3>1. pc[t] = "evict" /\ Release(victim[t]) /\ limit' = limit /\ HoldsProtocol(t)
      BY <2>4 DEF Evict, HoldsProtocol, InLoop
    <3>2. Home[victim[t]] = protocol[t]
      BY <3>1, VictimListed
    <3> QED BY <1>0, <3>1, <3>2 DEF Release, TypeOK
  <2> QED BY <1>3, <2>1, <2>2, <2>3, <2>4 DEF OnList
<1> QED BY <1>1, <1>2, <1>3 DEF Works

(* Nobody changes the list of a protocol that another thread has locked: a   *)
(* launch that lists objects, which does not lock it, is alone in its mode.  *)
LEMMA Undisturbed ==
    ASSUME CallInv, NEW t \in Threads, Works(t), NEW u \in Threads \ {t}, HoldsProtocol(u)
    PROVE  dbl'[protocol[u]] = dbl[protocol[u]] /\ limit'[protocol[u]] = limit[protocol[u]]
<1>0. protocol[u] \in Protocols /\ arg[t] \in Objects /\ Well(u) /\ TypeOK
  BY DEF CallInv, LockInv, TypeOK
<1>1. ~(HoldsProtocol(t) /\ protocol[t] = protocol[u])
  BY DEF CallInv, LockInv, Apart
<1>2. ~(pc[t] = "lockProtocol" /\ Granted(t) /\ protocol[t] = protocol[u])
  <2> SUFFICES ASSUME pc[t] = "lockProtocol", Granted(t) PROVE protocol[u] # protocol[t]
    OBVIOUS
  <2>1. Request(t) = << <<"protocol", protocol[t]>>, "write" >> /\ pc[t] \in Locking
    BY RequestAt DEF Locking
  <2> QED BY <1>0, <2>1, ProtocolFree
<1>3. ~(pc[t] = "operate" /\ call[t] = "launchListed" /\ Home[arg[t]] = protocol[u])
  <2> SUFFICES ASSUME call[t] = "launchListed", Home[arg[t]] = protocol[u] PROVE FALSE
    OBVIOUS
  <2>1. /\ ModeOfCall(t) = protocol[u] /\ protocol[u] # "global"
    BY <1>0, ModesAssumption DEF CallInv, ListsOwn, ModeOfCall
  <2>2. /\ call[u] \in {"writeFault", "launchAll"}
        /\ IF call[u] = "writeFault"
           THEN protocol[u] = Home[arg[u]]
           ELSE protocol[u] \in {ModeOf[u], "global"}
    BY <1>0 DEF Well, Placed, OwnProtocol, HoldsProtocol, InLoop, InProtocol, TypeOK, Calls
  <2>3. ModeOfCall(u) = ModeOfCall(t)
    BY <2>1, <2>2 DEF ModeOfCall
  <2>4. Compatible(t, u)
    BY DEF CallInv
  <2> QED BY <2>2, <2>3, <2>4 DEF Compatible, Walks
<1> QED BY <1>0, <1>1, <1>2, <1>3, ListsChange

(* Other threads' loops go on as they were.                                  *)
LEMMA OthersOverList ==
    ASSUME CallInv, NEW t \in Threads, Works(t), NEW u \in Threads \ {t}
    PROVE  OverList(u)'
<1>1. OnlyMoves(t) /\ OverList(u)
  BY WorkMovesOne DEF CallInv
<1>2. pc[u] \in InLoop => dbl'[protocol[u]] = dbl[protocol[u]] /\ limit'[protocol[u]] = limit[protocol[u]]
  BY Undisturbed DEF HoldsProtocol
<1>3. /\ pc'[u] = pc[u] /\ call'[u] = call[u] /\ arg'[u] = arg[u]
      /\ victim'[u] = victim[u] /\ protocol'[u] = protocol[u]
  BY <1>1 DEF OnlyMoves
<1>4. pc[u] \in InLoop => (GoesOn(u)' <=> GoesOn(u))
  BY <1>2, <1>3 DEF GoesOn
<1> QED BY <1>1, <1>2, <1>3, <1>4 DEF OverList, InLoop

LEMMA PushAddsLast ==
    ASSUME CallInv, NEW t \in Threads, Push(t)
    PROVE  OverList(t)'
<1>1. /\ pc'[t] = "loop" /\ arg'[t] = arg[t] /\ protocol'[t] = protocol[t]
      /\ dbl'[protocol[t]] = Append(dbl[protocol[t]], arg[t])
      /\ dbl[protocol[t]] \in Seq(Objects) /\ arg[t] \in Objects
  BY DEF Push, Goto, CallInv, LockInv, TypeOK
<1>2. /\ Append(dbl[protocol[t]], arg[t]) # <<>>
      /\ Last(Append(dbl[protocol[t]], arg[t])) = arg[t]
  BY <1>1 DEF Last
<1> QED BY <1>1, <1>2 DEF OverList

(* addDirty goes over its limit, which is at least 1, by two blocks at least:*)
(* evicting the first leaves the one it has added.                           *)
LEMMA EvictKeepsLast ==
    ASSUME CallInv, NEW t \in Threads, Evict(t)
    PROVE  OverList(t)'
<1>0. /\ TypeOK /\ pc[t] = "evict" /\ Release(victim[t]) /\ OverList(t)
      /\ pc'[t] = "loop" /\ arg' = arg /\ call' = call /\ protocol' = protocol
      /\ protocol[t] \in Protocols
      /\ dbl[protocol[t]] \in Seq(Objects) /\ IsInjective(dbl[protocol[t]])
  BY DEF Evict, Goto, CallInv, LockInv, TypeOK, DirtyListed
<1>1. /\ victim[t] = Head(dbl[protocol[t]]) /\ Home[victim[t]] = protocol[t]
  BY <1>0, VictimListed
<1>2. CASE call[t] = "writeFault"
  <2>1. /\ Len(dbl[protocol[t]]) > 1
        /\ Last(dbl[protocol[t]]) = arg[t]
    <3>1. Len(dbl[protocol[t]]) > limit[protocol[t]] /\ Last(dbl[protocol[t]]) = arg[t]
      BY <1>0, <1>2 DEF OverList, InLoop, GoesOn
    <3>2. limit[protocol[t]] \in Nat /\ limit[protocol[t]] >= 1 /\ Len(dbl[protocol[t]]) \in Nat
      BY <1>0, MaxLimitAssumption DEF TypeOK
    <3> QED BY <3>1, <3>2
  <2>2. /\ RemoveFirst(dbl[protocol[t]], victim[t]) # <<>>
        /\ Last(RemoveFirst(dbl[protocol[t]], victim[t])) = arg[t]
    BY <1>0, <1>1, <2>1, RemoveHeadKeepsLast
  <2>3. dbl'[protocol[t]] = IF victim[t] \in dirty
                            THEN RemoveFirst(dbl[protocol[t]], victim[t])
                            ELSE dbl[protocol[t]]
    BY <1>0, <1>1 DEF Release, TypeOK
  <2>4. dbl'[protocol[t]] # <<>> /\ Last(dbl'[protocol[t]]) = arg[t]
    BY <1>0, <1>2, <2>2, <2>3 DEF OverList, InLoop
  <2> QED BY <1>0, <2>4 DEF OverList
<1>3. CASE call[t] # "writeFault"
  BY <1>0, <1>3 DEF OverList
<1> QED BY <1>2, <1>3

LEMMA OwnOverList ==
    ASSUME CallInv, NEW t \in Threads, Works(t)
    PROVE  OverList(t)'
<1>0. TypeOK /\ Well(t) /\ OverList(t)
  BY DEF CallInv, LockInv
<1>1. CASE pc'[t] \notin InLoop
  BY <1>1 DEF OverList, InLoop
<1>2. CASE OnMap(t)
  <2>1. pc'[t] \notin InLoop
    <3>1. CASE Enter(t)
      BY <1>0, <3>1 DEF Enter, Goto, InLoop, TypeOK
    <3>2. CASE ~Enter(t)
      BY <1>0, <1>2, <3>2 DEF OnMap, Find, CheckNothing, Check, Each, EachDone, Notify, Finish,
         Return, Goto, InLoop, TypeOK
    <3> QED BY <3>1, <3>2
  <2> QED BY <1>1, <2>1
<1>3. CASE OnBlock(t)
  <2>1. pc'[t] \notin InLoop
    BY <1>0, <1>3 DEF OnBlock, LockBlock, Modify, ReleaseListed, Acquire, Return, Goto, InLoop, TypeOK
  <2> QED BY <1>1, <2>1
<1>4. CASE ReleasedAll(t) \/ AddDirty(t) \/ AddDirtyReturns(t) \/ ReleaseAllReturns(t)
  <2>1. pc'[t] \notin InLoop
    BY <1>0, <1>4 DEF ReleasedAll, AddDirty, AddDirtyReturns, ReleaseAllReturns, NextProtocol,
       Return, Goto, InLoop, TypeOK
  <2> QED BY <1>1, <2>1
<1>5. CASE ReleaseAll(t)
  BY <1>0, <1>5 DEF ReleaseAll, Goto, OverList, TypeOK
<1>6. CASE LoopAgain(t)
  <2>1. /\ pc[t] = "loop" /\ pc'[t] = "front" /\ GoesOn(t)
        /\ UNCHANGED <<call, arg, victim, protocol, dbl, limit>>
    BY <1>0, <1>6 DEF LoopAgain, Goto, TypeOK
  <2>2. GoesOn(t)'
    BY <2>1 DEF GoesOn
  <2> QED BY <1>0, <2>1, <2>2 DEF OverList, InLoop
<1>7. CASE TakeFront(t)
  <2>1. /\ pc[t] = "front" /\ pc'[t] = "lockVictim"
        /\ dbl[protocol[t]] # <<>> => victim'[t] = Head(dbl[protocol[t]])
        /\ UNCHANGED <<call, arg, protocol, dbl, limit>>
    BY <1>0, <1>7 DEF TakeFront, Goto, TypeOK
  <2>2. GoesOn(t) /\ GoesOn(t)'
    BY <1>0, <2>1 DEF OverList, InLoop, GoesOn
  <2>3. dbl[protocol[t]] # <<>>
    <3>1. limit[protocol[t]] \in 1..MaxLimit
      BY <1>0 DEF TypeOK
    <3> QED BY <2>2, <3>1, MaxLimitAssumption DEF GoesOn
  <2> QED BY <1>0, <2>1, <2>2, <2>3 DEF OverList, InLoop
<1>8. CASE LockVictim(t)
  <2>1. /\ pc[t] = "lockVictim" /\ pc'[t] = "evict"
        /\ UNCHANGED <<call, arg, victim, protocol, dbl, limit>>
    BY <1>0, <1>8 DEF LockVictim, Goto, TypeOK
  <2>2. GoesOn(t)' <=> GoesOn(t)
    BY <2>1 DEF GoesOn
  <2> QED BY <1>0, <2>1, <2>2 DEF OverList, InLoop
<1> QED BY <1>2, <1>3, <1>4, <1>5, <1>6, <1>7, <1>8, PushAddsLast, EvictKeepsLast DEF Works, OnList

LEMMA CallInvStep ==
    ASSUME Disciplined, CallInv, [Next]_vars
    PROVE  CallInv'
<1>0. LockInv'
  BY InvariantStep DEF CallInv
<1>1. ASSUME NEW t \in Threads, Starts(t)
      PROVE  CallInv'
  <2>1. /\ \A u, v \in Threads : Compatible(u, v)'
        /\ \A u \in Threads : ListsOwn(u)'
        /\ OnlyMoves(t)
    BY <1>1, StartKeepsCompatible
  <2>2. pc'[t] \notin InLoop /\ UNCHANGED <<victim, protocol, dbl, limit>>
    BY <1>1 DEF Starts, SignalWrite, LaunchListed, LaunchAll, Synchronize, Call, Goto, InLoop,
       CallInv, LockInv, TypeOK
  <2>3. OverList(t)'
    BY <2>2 DEF OverList, InLoop
  <2>4. ASSUME NEW u \in Threads \ {t}
        PROVE  OverList(u)'
    <3>1. pc'[u] = pc[u] /\ call'[u] = call[u] /\ arg'[u] = arg[u]
      BY <2>1 DEF OnlyMoves
    <3>2. GoesOn(u)' <=> GoesOn(u)
      BY <2>2, <3>1 DEF GoesOn
    <3> QED BY <2>2, <3>1, <3>2 DEF OverList, CallInv
  <2> QED BY <1>0, <2>1, <2>3, <2>4 DEF CallInv
<1>2. ASSUME NEW t \in Threads, Works(t)
      PROVE  CallInv'
  <2>1. OnlyMoves(t) /\ GoesOnOrReturns(t)
    BY <1>2, WorkMovesOne DEF CallInv
  <2>2. /\ \A u, v \in Threads : Compatible(u, v)'
        /\ \A u \in Threads : ListsOwn(u)'
    BY <2>1, WorkKeepsCompatible
  <2>3. \A u \in Threads : OverList(u)'
    BY <1>2, OwnOverList, OthersOverList
  <2> QED BY <1>0, <2>2, <2>3 DEF CallInv
<1>3. CASE UNCHANGED vars
  <2>1. /\ \A u, v \in Threads : Compatible(u, v)'
        /\ \A u \in Threads : ListsOwn(u)' /\ OverList(u)'
    BY <1>3 DEF vars, CallInv, Compatible, ModeOfCall, ListsOwn, OverList, GoesOn
  <2> QED BY <1>0, <2>1 DEF CallInv
<1> QED BY <1>1, <1>2, <1>3 DEF Next

LEMMA CallInvHolds ==
    ASSUME Disciplined
    PROVE  Spec => []CallInv
<1>1. CallInv /\ [Next]_vars => CallInv'
  BY CallInvStep
<1> QED BY <1>1, CallInvInit, PTL DEF Spec

(* front() is never asked of an empty list: between the condition of a loop  *)
(* and its body nobody empties the list, whatever disciplined threads do.    *)
THEOREM FrontAlwaysExists ==
    ASSUME Disciplined
    PROVE  Spec => []FrontExists
<1>1. ASSUME CallInv
      PROVE  FrontExists
  <2> SUFFICES ASSUME NEW t \in Threads, pc[t] = "front"
               PROVE  dbl[protocol[t]] # <<>>
    BY DEF FrontExists
  <2>1. GoesOn(t) /\ limit[protocol[t]] \in 1..MaxLimit
    BY <1>1 DEF CallInv, OverList, InLoop, LockInv, TypeOK
  <2> QED BY <2>1, MaxLimitAssumption DEF GoesOn
<1> QED BY <1>1, CallInvHolds, PTL

-------------------------------------------------------------------------------
(* Disciplined programs: threads do not wait in a circle.                    *)

\* Threads wait only for threads of a lower rank; those of rank 0 do not wait.
Rank(t) ==
    CASE pc[t] = "lockVictim"   -> 1
      [] pc[t] = "lockProtocol" -> 2
      [] pc[t] = "lockBlock"    -> 3
      [] pc[t] = "enter"        -> 4
      [] pc[t] = "finish"       -> 5
      [] OTHER                  -> 0

LEMMA RankOf ==
    ASSUME NEW t \in Threads
    PROVE  /\ Rank(t) \in 0..5
           /\ pc[t] = "lockVictim" => Rank(t) = 1
           /\ pc[t] = "lockProtocol" => Rank(t) = 2
           /\ pc[t] = "lockBlock" => Rank(t) = 3
           /\ pc[t] = "enter" => Rank(t) = 4
           /\ pc[t] = "finish" => Rank(t) = 5
           /\ pc[t] \notin {"lockVictim", "lockProtocol", "lockBlock", "enter", "finish"} => Rank(t) = 0
BY DEF Rank

LEMMA BlocksHolds ==
    ASSUME NEW t \in Threads, NEW u \in Threads, Well(u), Blocks(u, t)
    PROVE  /\ pc[t] \in Locking
           /\ \/ Holds(u, <<Request(t)[1], "write">>)
              \/ Holds(u, <<Request(t)[1], "read">>) /\ Request(t)[2] = "write"
BY DEF Well, Blocks

(* The block that addDirty has just added is not the one it evicts.          *)
LEMMA VictimIsAnother ==
    ASSUME CallInv, NEW t \in Threads, call[t] = "writeFault", pc[t] = "lockVictim"
    PROVE  victim[t] # arg[t]
<1>1. /\ dbl[protocol[t]] \in Seq(Objects) /\ IsInjective(dbl[protocol[t]])
      /\ limit[protocol[t]] \in 1..MaxLimit
      /\ Len(dbl[protocol[t]]) > limit[protocol[t]]
      /\ victim[t] = Head(dbl[protocol[t]]) /\ Last(dbl[protocol[t]]) = arg[t]
  BY DEF CallInv, LockInv, TypeOK, DirtyListed, OverList, InLoop, GoesOn
<1>2. /\ Len(dbl[protocol[t]]) \in Nat /\ Len(dbl[protocol[t]]) > 1
      /\ DOMAIN dbl[protocol[t]] = 1..Len(dbl[protocol[t]])
  BY <1>1, MaxLimitAssumption
<1>3. /\ victim[t] = dbl[protocol[t]][1]
      /\ arg[t] = dbl[protocol[t]][Len(dbl[protocol[t]])]
  BY <1>1, <1>2 DEF Last
<1> QED BY <1>1, <1>2, <1>3 DEF IsInjective

(* A thread waits for one of a lower rank.  A fault that has locked its      *)
(* object and wants the map of the owner waits for nobody, because no walk   *)
(* over that map runs; and the block at the front of the list, which is      *)
(* listed, is held by no thread that waits for the list.                     *)
LEMMA WaitsDown ==
    ASSUME CallInv, NEW t \in Threads, NEW u \in Threads, Blocks(u, t)
    PROVE  Rank(u) < Rank(t)
<1>0. /\ Well(u) /\ Well(t) /\ Compatible(t, u)
      /\ Apart(t, u) /\ Apart(u, t)
  BY DEF CallInv, LockInv
<1>1. /\ pc[t] \in Locking
      /\ \/ Holds(u, <<Request(t)[1], "write">>)
         \/ Holds(u, <<Request(t)[1], "read">>) /\ Request(t)[2] = "write"
  BY <1>0, BlocksHolds
<1>2. CASE pc[t] \in {"find", "check"}
  <2>1. Request(t) = << <<"map", ModeOfCall(t)>>, "read" >>
    BY <1>2, RequestAt
  <2> QED BY <1>1, <2>1 DEF Holds
<1>3. CASE pc[t] = "notify"
  <2>1. Request(t) = << <<"map", Home[arg[t]]>>, "write" >>
    BY <1>3, RequestAt
  <2>2. HoldsMap(u) /\ ModeOf[u] = Home[arg[t]]
    BY <1>1, <2>1 DEF Holds
  <2>3. call[t] = "writeFault" /\ call[u] \in Walks
    BY <1>0, <1>3, <2>2 DEF Well, Placed, HoldsMap, Walks
  <2> QED BY <1>0, <2>2, <2>3 DEF Compatible, ModeOfCall, Walks
<1>4. CASE pc[t] = "finish"
  <2>1. Request(t) = << <<"map", ModeOf[t]>>, "write" >>
    BY <1>4, RequestAt
  <2>2. HoldsMap(u)
    BY <1>1, <2>1 DEF Holds
  <2> QED BY <1>4, <2>2, RankOf DEF HoldsMap
<1>5. CASE pc[t] = "enter"
  <2>1. Request(t)[1] = <<"object", arg[t]>>
    BY <1>5, RequestAt
  <2>2. HoldsObject(u)
    BY <1>1, <2>1 DEF Holds
  <2> QED BY <1>5, <2>2, RankOf DEF HoldsObject, InProtocol, InLoop
<1>6. CASE pc[t] = "lockBlock"
  <2>1. Request(t)[1] = <<"block", arg[t]>>
    BY <1>6, RequestAt
  <2>2. HoldsBlock(u) \/ HoldsVictim(u)
    BY <1>1, <2>1 DEF Holds
  <2> QED BY <1>6, <2>2, RankOf DEF HoldsBlock, HoldsVictim, InProtocol, InLoop
<1>7. CASE pc[t] = "lockProtocol"
  <2>1. Request(t)[1] = <<"protocol", protocol[t]>>
    BY <1>7, RequestAt
  <2>2. HoldsProtocol(u)
    BY <1>1, <2>1 DEF Holds
  <2> QED BY <1>7, <2>2, RankOf DEF HoldsProtocol, InLoop
<1>8. CASE pc[t] = "lockVictim"
  <2>1. Request(t)[1] = <<"block", victim[t]>>
    BY <1>8, RequestAt
  <2>2. \/ HoldsBlock(u) /\ arg[u] = victim[t]
        \/ HoldsVictim(u)
    BY <1>1, <2>1 DEF Holds
  <2>3. CASE HoldsVictim(u)
    BY <1>8, <2>3, RankOf DEF HoldsVictim
  <2>4. CASE HoldsBlock(u) /\ arg[u] = victim[t]
    <3>1. /\ Home[victim[t]] = protocol[t]
          /\ Adding(u) => protocol[u] # protocol[t]
      BY <1>8, <2>4, VictimListed
    <3>2. CASE pc[u] \in InProtocol /\ call[u] = "writeFault"
      <4>1. protocol[u] = protocol[t]
        BY <1>0, <2>4, <3>1, <3>2 DEF Well, OwnProtocol
      <4>2. pc[u] \in InLoop
        BY <3>1, <3>2, <4>1 DEF Adding, InProtocol
      <4>3. u = t
        BY <1>0, <1>8, <4>1, <4>2 DEF Apart, HoldsProtocol, InLoop
      <4>4. call[t] = "writeFault" /\ victim[t] = arg[t]
        BY <2>4, <3>2, <4>3
      <4> QED BY <1>8, <4>4, VictimIsAnother
    <3>3. CASE pc[u] = "operate"
      BY <1>8, <3>3, RankOf
    <3> QED BY <2>4, <3>2, <3>3 DEF HoldsBlock
  <2> QED BY <2>2, <2>3, <2>4
<1> QED BY <1>1, <1>2, <1>3, <1>4, <1>5, <1>6, <1>7, <1>8 DEF Locking

LEMMA LeastRank ==
    ASSUME NEW S, S \subseteq Threads, S # {}
    PROVE  \E t \in S : \A u \in S : Rank(t) <= Rank(u)
<1> DEFINE N == {Rank(t) : t \in S}
<1>1. N \subseteq 0..5 /\ N # {}
  BY RankOf
<1>2. \E n \in N : \A k \in N : n <= k
  <2> HIDE DEF N
  <2>1. CASE 0 \in N
    BY <1>1, <2>1
  <2>2. CASE 1 \in N
    BY <1>1, <2>1, <2>2
  <2>3. CASE 2 \in N
    BY <1>1, <2>1, <2>2, <2>3
  <2>4. CASE 3 \in N
    BY <1>1, <2>1, <2>2, <2>3, <2>4
  <2>5. CASE 4 \in N
    BY <1>1, <2>1, <2>2, <2>3, <2>4, <2>5
  <2>6. CASE 5 \in N
    BY <1>1, <2>1, <2>2, <2>3, <2>4, <2>5, <2>6
  <2>7. PICK n \in N : n \in 0..5
    BY <1>1
  <2>8. n = 0 \/ n = 1 \/ n = 2 \/ n = 3 \/ n = 4 \/ n = 5
    BY <2>7
  <2> QED BY <2>1, <2>2, <2>3, <2>4, <2>5, <2>6, <2>7, <2>8
<1> QED BY <1>1, <1>2

(* Threads never wait for each other in a circle, nor one for itself, if     *)
(* they are disciplined: of any threads, finitely many or not, one waits for *)
(* none of the others.                                                       *)
THEOREM NoCircle ==
    ASSUME Disciplined
    PROVE  Spec => []NoCircularWait
<1>1. ASSUME CallInv
      PROVE  NoCircularWait
  <2> SUFFICES ASSUME NEW S \in (SUBSET Threads) \ {{}}
               PROVE  \E t \in S : \A u \in S : ~Blocks(u, t)
    BY DEF NoCircularWait
  <2>1. S \subseteq Threads /\ S # {} /\ \A t \in S : t \in Threads /\ Rank(t) \in 0..5
    BY RankOf
  <2>2. \E t \in S : \A u \in S : Rank(t) <= Rank(u)
    BY <2>1, LeastRank
  <2>3. PICK t \in S : \A u \in S : Rank(t) <= Rank(u)
    BY <2>2
  <2>4. ASSUME NEW u \in S, Blocks(u, t)
        PROVE  FALSE
    <3>1. Rank(u) < Rank(t)
      BY <1>1, <2>1, <2>4, WaitsDown
    <3> QED BY <2>1, <2>3, <3>1
  <2> QED BY <2>3, <2>4
<1> QED BY <1>1, CallInvHolds, PTL

===============================================================================
