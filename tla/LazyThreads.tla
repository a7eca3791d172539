------------------------------ MODULE LazyThreads ------------------------------
(***************************************************************************)
(* The locks that threads take on their way through GMAC: the reader-      *)
(* writer locks of object maps and objects, the mutexes of blocks and of   *)
(* protocols, and the spin lock that makes each operation of the Dirty     *)
(* Block List atomic (memory/ObjectMap*, Object*, Block-impl.h,            *)
(* BlockGroup-impl.h, protocol/Lazy.cpp, protocol/common/BlockList-impl.h).*)
(*                                                                         *)
(* Every acquisition of a lock is a step, and so is every piece of work    *)
(* between two of them.  Four calls take locks in different orders: a      *)
(* write fault, a launch of all objects of the mode, a launch that lists   *)
(* one object, and a synchronisation.  An object has one block.  Of the    *)
(* state of a block only whether it is Dirty matters here, and the         *)
(* protocol is Rolling; how often a block has faulted is left open.        *)
(***************************************************************************)
EXTENDS Naturals, SequencesExt

CONSTANTS
    Threads,
    Modes,
    Objects,
    ModeOf,         \* the execution mode of each thread
    Home,           \* the mode whose map holds an object
    Faulting,       \* pairs of a thread and an object it writes
    Listed,         \* pairs of a thread and an object it lists in a launch
    Disciplined,    \* threads keep apart the calls that MayWrite and so on name
    MaxLimit        \* bound of the model: addDirty stops raising limit_ here

ASSUME ModesAssumption ==
    /\ "global" \notin Modes
    /\ ModeOf \in [Threads -> Modes]
    /\ Home \in [Objects -> Modes]
ASSUME ObjectsAssumption == Objects # {}
ASSUME CallsAssumption ==
    /\ Faulting \cup Listed \subseteq Threads \X Objects
    /\ Disciplined \in BOOLEAN
ASSUME MaxLimitAssumption == MaxLimit \in Nat \ {0}

\* One protocol per mode, and the one of the process, which has no blocks:
\* globalAlloc never creates a replicated object (module Lazy).
Protocols == Modes \cup {"global"}

Calls == {"none", "writeFault", "launchAll", "launchListed", "synchronize"}

Locks == ({"map"} \X Modes) \cup ({"object", "block"} \X Objects) \cup ({"protocol"} \X Protocols)

VARIABLES
    call,       \* the call each thread is in
    pc,         \* where it is
    arg,        \* the object it works on
    victim,     \* the block front() has returned to it
    protocol,   \* the protocol it works on
    todo,       \* objects its loop has not reached yet
    held,       \* locks it holds, for reading or for writing
    dirty,      \* blocks in state Dirty
    dbl,        \* LazyBase::dbl_ of each protocol
    limit       \* LazyBase::limit_ of each protocol

vars == <<call, pc, arg, victim, protocol, todo, held, dirty, dbl, limit>>

\* Where a thread is about to take a lock, and where it is between two locks.
Locking == {"find", "check", "enter", "notify", "lockBlock", "lockProtocol", "lockVictim", "finish"}
Working == {"each", "operate", "push", "loop", "front", "evict"}

TypeOK ==
    /\ call \in [Threads -> Calls]
    /\ pc \in [Threads -> Locking \cup Working \cup {"idle"}]
    /\ arg \in [Threads -> Objects]
    /\ victim \in [Threads -> Objects]
    /\ protocol \in [Threads -> Protocols]
    /\ todo \in [Threads -> SUBSET Objects]
    /\ held \in [Threads -> SUBSET (Locks \X {"read", "write"})]
    /\ dirty \subseteq Objects
    /\ dbl \in [Protocols -> Seq(Objects)]
    /\ limit \in [Protocols -> 1..MaxLimit]

\* The value of arg and victim where they have none.
NoObject == CHOOSE o \in Objects : TRUE

Init ==
    /\ call = [t \in Threads |-> "none"]
    /\ pc = [t \in Threads |-> "idle"]
    /\ arg = [t \in Threads |-> NoObject]
    /\ victim = arg
    /\ protocol = [t \in Threads |-> "global"]
    /\ todo = [t \in Threads |-> {}]
    /\ held = [t \in Threads |-> {}]
    /\ dirty = {}
    /\ dbl = [p \in Protocols |-> <<>>]
    /\ limit = [p \in Protocols |-> 1]

-------------------------------------------------------------------------------
(* Locks.  None is recursive: a thread waits for itself as for any other.    *)

\* The objects ObjectMap::forEachObject reaches.
Mapped(m) == {o \in Objects : Home[o] = m}

\* The mode a call works on: a fault is the business of the object's owner.
ModeOfCall(t) == IF call[t] = "writeFault" THEN Home[arg[t]] ELSE ModeOf[t]

\* The lock thread t is about to take, and how.
Request(t) ==
    CASE pc[t] \in {"find", "check"} -> << <<"map", ModeOfCall(t)>>, "read" >>
      [] pc[t] = "finish"       -> << <<"map", ModeOf[t]>>, "write" >>
      [] pc[t] = "notify"       -> << <<"map", Home[arg[t]]>>, "write" >>
      [] pc[t] = "enter"        -> << <<"object", arg[t]>>,
                                      IF call[t] = "writeFault" THEN "read" ELSE "write" >>
      [] pc[t] = "lockBlock"    -> << <<"block", arg[t]>>, "write" >>
      [] pc[t] = "lockVictim"   -> << <<"block", victim[t]>>, "write" >>
      [] pc[t] = "lockProtocol" -> << <<"protocol", protocol[t]>>, "write" >>

\* Thread u keeps thread t from its lock.
Blocks(u, t) ==
    /\ pc[t] \in Locking
    /\ \E how \in {"read", "write"} :
          /\ <<Request(t)[1], how>> \in held[u]
          /\ "write" \in {how, Request(t)[2]}

Granted(t) == \A u \in Threads : ~Blocks(u, t)

Goto(t, l) == pc' = [pc EXCEPT ![t] = l]

Take(t) == held' = [held EXCEPT ![t] = @ \cup {Request(t)}]

Drop(t, locks) == held' = [held EXCEPT ![t] = {h \in @ : h[1] \notin locks}]

\* The call returns: its locks and its local variables are gone.
Return(t) ==
    /\ Goto(t, "idle")
    /\ call' = [call EXCEPT ![t] = "none"]
    /\ held' = [held EXCEPT ![t] = {}]
    /\ arg' = [arg EXCEPT ![t] = NoObject]
    /\ victim' = [victim EXCEPT ![t] = NoObject]
    /\ protocol' = [protocol EXCEPT ![t] = "global"]

-------------------------------------------------------------------------------
(* Calls begin.                                                              *)

Call(t, c, o, l) ==
    /\ pc[t] = "idle"
    /\ call' = [call EXCEPT ![t] = c]
    /\ arg' = [arg EXCEPT ![t] = o]
    /\ Goto(t, l)
    /\ UNCHANGED <<victim, protocol, todo, held, dirty, dbl, limit>>

\* The calls other threads are in when t calls something for mode m.
Others(t, m) == {call[u] : u \in {v \in Threads \ {t} : call[v] # "none" /\ ModeOfCall(v) = m}}

\* In a disciplined program no thread writes an object while another launches a
\* kernel of its mode or waits for one, and a launch that lists its objects lists
\* those of its own mode and has the mode for itself.
MayWrite(t, o) == Disciplined => Others(t, Home[o]) \subseteq {"writeFault"}
MayLaunch(t) == Disciplined => Others(t, ModeOf[t]) \subseteq {"launchAll", "synchronize"}
MayLaunchListed(t, o) == Disciplined => Home[o] = ModeOf[t] /\ Others(t, ModeOf[t]) = {}

\* Manager::signalWrite, from the handler of page faults.
SignalWrite(t) ==
    \E o \in Objects : <<t, o>> \in Faulting /\ MayWrite(t, o) /\ Call(t, "writeFault", o, "find")

\* Manager::releaseObjects for one listed object.
LaunchListed(t) ==
    \E o \in Objects : /\ <<t, o>> \in Listed
                       /\ MayLaunchListed(t, o)
                       /\ Call(t, "launchListed", o, "find")

\* Manager::releaseObjects and acquireObjects for the objects of the mode.
LaunchAll(t) == MayLaunch(t) /\ Call(t, "launchAll", arg[t], "check")

Synchronize(t) == MayLaunch(t) /\ Call(t, "synchronize", arg[t], "check")

Starts(t) == SignalWrite(t) \/ LaunchListed(t) \/ LaunchAll(t) \/ Synchronize(t)

-------------------------------------------------------------------------------
(* Maps and objects.                                                         *)

\* AddressSpace::getObject: the lock of the map is not kept.
Find(t) ==
    /\ pc[t] = "find"
    /\ Granted(t)
    /\ Goto(t, "enter")
    /\ UNCHANGED <<call, arg, victim, protocol, todo, held, dirty, dbl, limit>>

\* ObjectMap::hasModifiedObjects and releasedObjects, whose answer is left
\* open, and the lock of forEachObject.
CheckNothing(t) ==
    /\ pc[t] = "check"
    /\ Granted(t)
    /\ Return(t)
    /\ UNCHANGED <<todo, dirty, dbl, limit>>

Check(t) ==
    /\ pc[t] = "check"
    /\ Granted(t)
    /\ Take(t)
    /\ todo' = [todo EXCEPT ![t] = Mapped(ModeOf[t])]
    /\ Goto(t, "each")
    /\ UNCHANGED <<call, arg, victim, protocol, dirty, dbl, limit>>

\* One iteration of ObjectMap::forEachObject.
Each(t) ==
    /\ pc[t] = "each"
    /\ \E o \in todo[t] :
         /\ arg' = [arg EXCEPT ![t] = o]
         /\ todo' = [todo EXCEPT ![t] = @ \ {o}]
    /\ Goto(t, "enter")
    /\ UNCHANGED <<call, victim, protocol, held, dirty, dbl, limit>>

\* forEachObject returns.
EachDone(t) ==
    /\ pc[t] = "each"
    /\ todo[t] = {}
    /\ Drop(t, {<<"map", ModeOf[t]>>})
    /\ protocol' = [protocol EXCEPT ![t] = ModeOf[t]]
    /\ Goto(t, IF call[t] = "launchAll" THEN "lockProtocol" ELSE "finish")
    /\ UNCHANGED <<call, arg, victim, todo, dirty, dbl, limit>>

\* Object::release only sets a flag; Object::signalWrite, releaseBlocks and
\* acquire keep the lock of the object while they work on its block.
Enter(t) ==
    /\ pc[t] = "enter"
    /\ Granted(t)
    /\ CASE call[t] = "launchAll"  -> Goto(t, "each") /\ UNCHANGED held
         [] call[t] = "writeFault" -> Take(t) /\ Goto(t, "notify")
         [] OTHER                  -> Take(t) /\ Goto(t, "lockBlock")
    /\ UNCHANGED <<call, arg, victim, protocol, todo, dirty, dbl, limit>>

\* BlockGroup::modifiedObject: ObjectMap::modifiedObjects of the owner.
Notify(t) ==
    /\ pc[t] = "notify"
    /\ Granted(t)
    /\ Goto(t, "lockBlock")
    /\ UNCHANGED <<call, arg, victim, protocol, todo, held, dirty, dbl, limit>>

\* ObjectMap::releaseObjects or acquireObjects, and the call returns.
Finish(t) ==
    /\ pc[t] = "finish"
    /\ Granted(t)
    /\ Return(t)
    /\ UNCHANGED <<todo, dirty, dbl, limit>>

-------------------------------------------------------------------------------
(* Blocks.                                                                   *)

LockBlock(t) ==
    /\ pc[t] = "lockBlock"
    /\ Granted(t)
    /\ Take(t)
    /\ Goto(t, "operate")
    /\ UNCHANGED <<call, arg, victim, protocol, todo, dirty, dbl, limit>>

\* LazyBase::release of block o, which the thread holds.
Release(o) ==
    /\ dirty' = dirty \ {o}
    /\ dbl' = [dbl EXCEPT ![Home[o]] = IF o \in dirty THEN RemoveFirst(@, o) ELSE @]

\* Mutant: the block is listed before the lock of the protocol is taken.
ModifyListsFirst(t) ==
    /\ pc[t] = "operate"
    /\ call[t] = "writeFault"
    /\ IF arg[t] \in dirty
       THEN Return(t) /\ UNCHANGED <<dirty, dbl>>
       ELSE /\ dirty' = dirty \cup {arg[t]}
            /\ dbl' = [dbl EXCEPT ![Home[arg[t]]] = Append(@, arg[t])]
            /\ protocol' = [protocol EXCEPT ![t] = Home[arg[t]]]
            /\ Goto(t, "lockProtocol")
            /\ UNCHANGED <<call, arg, victim, held>>
    /\ UNCHANGED <<todo, limit>>

\* LazyBase::signalWrite up to addDirty; a Dirty block has already been fixed.
Modify(t) ==
    /\ pc[t] = "operate"
    /\ call[t] = "writeFault"
    /\ IF arg[t] \in dirty
       THEN Return(t) /\ UNCHANGED dirty
       ELSE /\ dirty' = dirty \cup {arg[t]}
            /\ protocol' = [protocol EXCEPT ![t] = Home[arg[t]]]
            /\ Goto(t, "lockProtocol")
            /\ UNCHANGED <<call, arg, victim, held>>
    /\ UNCHANGED <<todo, dbl, limit>>

\* Object::releaseBlocks, without the lock of the protocol.
ReleaseListed(t) ==
    /\ pc[t] = "operate"
    /\ call[t] = "launchListed"
    /\ Release(arg[t])
    /\ Drop(t, {<<"block", arg[t]>>, <<"object", arg[t]>>})
    /\ protocol' = [protocol EXCEPT ![t] = ModeOf[t]]
    /\ Goto(t, "lockProtocol")
    /\ UNCHANGED <<call, arg, victim, todo, limit>>

\* LazyBase::acquire leaves Dirty blocks alone.
Acquire(t) ==
    /\ pc[t] = "operate"
    /\ call[t] = "synchronize"
    /\ Drop(t, {<<"block", arg[t]>>, <<"object", arg[t]>>})
    /\ Goto(t, "each")
    /\ UNCHANGED <<call, arg, victim, protocol, todo, dirty, dbl, limit>>

-------------------------------------------------------------------------------
(* The Dirty Block List, under the lock of its protocol.                     *)

\* Mutant: no lower bound.
ShrinkToZero(p) ==
    limit' = [limit EXCEPT ![p] = IF Len(dbl[p]) < @ THEN @ \div 2 ELSE @]

Shrink(p) ==
    limit' = [limit EXCEPT ![p] = IF Len(dbl[p]) < @ /\ @ > 1 THEN @ \div 2 ELSE @]

\* A launch has done with one protocol: the mode's comes first.
NextProtocol(t) ==
    IF protocol[t] = "global"
    THEN Goto(t, "finish") /\ UNCHANGED protocol
    ELSE protocol' = [protocol EXCEPT ![t] = "global"] /\ Goto(t, "lockProtocol")

\* LazyBase::releasedAll.
ReleasedAll(t) ==
    /\ pc[t] = "lockProtocol"
    /\ call[t] = "launchListed"
    /\ Granted(t)
    /\ Shrink(protocol[t])
    /\ NextProtocol(t)
    /\ UNCHANGED <<call, arg, victim, todo, held, dirty, dbl>>

\* Mutant: releaseAll does not keep the lock during its loop.
ReleaseAllUnlocked(t) ==
    /\ pc[t] = "lockProtocol"
    /\ call[t] = "launchAll"
    /\ Granted(t)
    /\ Shrink(protocol[t])
    /\ Goto(t, "loop")
    /\ UNCHANGED <<call, arg, victim, protocol, todo, held, dirty, dbl>>

\* LazyBase::releaseAll up to its loop.
ReleaseAll(t) ==
    /\ pc[t] = "lockProtocol"
    /\ call[t] = "launchAll"
    /\ Granted(t)
    /\ Take(t)
    /\ Shrink(protocol[t])
    /\ Goto(t, "loop")
    /\ UNCHANGED <<call, arg, victim, protocol, todo, dirty, dbl>>

\* LazyBase::addDirty.
AddDirty(t) ==
    /\ pc[t] = "lockProtocol"
    /\ call[t] = "writeFault"
    /\ Granted(t)
    /\ Take(t)
    /\ Goto(t, "push")
    /\ UNCHANGED <<call, arg, victim, protocol, todo, dirty, dbl, limit>>

Push(t) ==
    /\ pc[t] = "push"
    /\ dbl' = [dbl EXCEPT ![protocol[t]] = Append(@, arg[t])]
    /\ \E grows \in {0, 1} :
         /\ limit[protocol[t]] + grows <= MaxLimit
         /\ limit' = [limit EXCEPT ![protocol[t]] = @ + grows]
    /\ Goto(t, "loop")
    /\ UNCHANGED <<call, arg, victim, protocol, todo, held, dirty>>

\* The condition of the loop, which asks the list for its size.
GoesOn(t) ==
    LET length == Len(dbl[protocol[t]])
    IN  IF call[t] = "writeFault" THEN length > limit[protocol[t]] ELSE length > 0

LoopAgain(t) ==
    /\ pc[t] = "loop"
    /\ GoesOn(t)
    /\ Goto(t, "front")
    /\ UNCHANGED <<call, arg, victim, protocol, todo, held, dirty, dbl, limit>>

\* addDirty returns, and with it the handler.
AddDirtyReturns(t) ==
    /\ pc[t] = "loop"
    /\ call[t] = "writeFault"
    /\ ~GoesOn(t)
    /\ Return(t)
    /\ UNCHANGED <<todo, dirty, dbl, limit>>

ReleaseAllReturns(t) ==
    /\ pc[t] = "loop"
    /\ call[t] = "launchAll"
    /\ ~GoesOn(t)
    /\ Drop(t, {<<"protocol", protocol[t]>>})
    /\ NextProtocol(t)
    /\ UNCHANGED <<call, arg, victim, todo, dirty, dbl, limit>>

\* BlockList::front.  The front of an empty list is any block.
TakeFront(t) ==
    /\ pc[t] = "front"
    /\ \E o \in Objects :
         /\ dbl[protocol[t]] # <<>> => o = Head(dbl[protocol[t]])
         /\ victim' = [victim EXCEPT ![t] = o]
    /\ Goto(t, "lockVictim")
    /\ UNCHANGED <<call, arg, protocol, todo, held, dirty, dbl, limit>>

LockVictim(t) ==
    /\ pc[t] = "lockVictim"
    /\ Granted(t)
    /\ Take(t)
    /\ Goto(t, "evict")
    /\ UNCHANGED <<call, arg, victim, protocol, todo, dirty, dbl, limit>>

\* Mutant: the block is not removed from the list.
EvictStaysListed(t) ==
    /\ pc[t] = "evict"
    /\ dirty' = dirty \ {victim[t]}
    /\ Drop(t, {<<"block", victim[t]>>})
    /\ victim' = [victim EXCEPT ![t] = NoObject]
    /\ Goto(t, "loop")
    /\ UNCHANGED <<call, arg, protocol, todo, dbl, limit>>

Evict(t) ==
    /\ pc[t] = "evict"
    /\ Release(victim[t])
    /\ Drop(t, {<<"block", victim[t]>>})
    /\ victim' = [victim EXCEPT ![t] = NoObject]
    /\ Goto(t, "loop")
    /\ UNCHANGED <<call, arg, protocol, todo, limit>>

-------------------------------------------------------------------------------

OnMap(t) ==
    \/ Find(t)
    \/ CheckNothing(t)
    \/ Check(t)
    \/ Each(t)
    \/ EachDone(t)
    \/ Enter(t)
    \/ Notify(t)
    \/ Finish(t)

OnBlock(t) ==
    \/ LockBlock(t)
    \/ Modify(t)
    \/ ReleaseListed(t)
    \/ Acquire(t)

OnList(t) ==
    \/ ReleasedAll(t)
    \/ ReleaseAll(t)
    \/ AddDirty(t)
    \/ Push(t)
    \/ LoopAgain(t)
    \/ AddDirtyReturns(t)
    \/ ReleaseAllReturns(t)
    \/ TakeFront(t)
    \/ LockVictim(t)
    \/ Evict(t)

Works(t) == OnMap(t) \/ OnBlock(t) \/ OnList(t)

Next == \E t \in Threads : Starts(t) \/ Works(t)

Spec == Init /\ [][Next]_vars

\* A thread whose lock is free, or that needs none, runs on.
FairSpec == Spec /\ \A t \in Threads : WF_vars(Works(t))

-------------------------------------------------------------------------------
(* Properties.                                                               *)

\* Blocks whose handler has made them Dirty and not listed them yet.
Unlisted(p) ==
    {arg[t] : t \in {u \in Threads : /\ call[u] = "writeFault"
                                     /\ protocol[u] = p
                                     /\ pc[u] \in {"lockProtocol", "push"}}}

(* No threads wait for each other in a circle, nor one for itself: a handler *)
(* that keeps the lock of its block while addDirty releases other blocks     *)
(* never meets a launch or a synchronisation that keeps what it needs.       *)
NoCircularWait ==
    \A S \in (SUBSET Threads) \ {{}} : \E t \in S : \A u \in S : ~Blocks(u, t)

(* front() is asked of a list that is not empty (assertion of BlockList):    *)
(* nobody empties it between the condition of a loop and its body.           *)
FrontExists == \A t \in Threads : pc[t] = "front" => dbl[protocol[t]] # <<>>

(* A launch that finds the list of a protocol empty has missed no Dirty      *)
(* block but those whose handlers have yet to list them, and the list names  *)
(* each Dirty block of the protocol once.                                    *)
DirtyListed ==
    \A p \in Protocols :
        /\ IsInjective(dbl[p])
        /\ Range(dbl[p]) = {o \in dirty : Home[o] = p} \ Unlisted(p)

(* Every call returns, once threads make no new ones: no thread waits for    *)
(* ever and no loop over a list goes on for ever.                            *)
CallsReturn ==
    (<>[][~\E t \in Threads : Starts(t)]_vars) => <>[](\A t \in Threads : pc[t] = "idle")

===============================================================================
