--------------------------------- MODULE Lazy ---------------------------------
(***************************************************************************)
(* The Lazy/Rolling coherence protocol of GMAC                             *)
(* (src/src/memory/protocol/Lazy.cpp): the blocks of one execution mode,   *)
(* each with a copy in host memory and a copy in accelerator memory, the   *)
(* page protection that makes host accesses fault, and the Dirty Block     *)
(* List dbl_ whose length Rolling keeps near limit_.                       *)
(*                                                                         *)
(* Library calls are taken one at a time: an action is the critical        *)
(* section of one protocol operation under the block's lock.  The loops    *)
(* of addDirty() and releaseAll() over dbl_ are not atomic: variable call  *)
(* says which of them is running and every release of a block is a step    *)
(* of its own, so that stores of the program and writes of a running       *)
(* kernel fall between them.  Module LazyThreads models the locks.         *)
(*                                                                         *)
(* The data of a block is abstracted to the set of sides that hold the     *)
(* last value written to every byte of it.  Its Block object is counted by *)
(* reference: an object of the program holds one, dbl_ takes one with each *)
(* block pushed, and front() gives one up at every call, whether or not    *)
(* the block then leaves the list.                                         *)
(***************************************************************************)
EXTENDS Naturals, SequencesExt

CONSTANTS
    Blocks,             \* identities of memory blocks
    Eager,              \* TRUE for protocol "Rolling", FALSE for "Lazy"
    RollThreshold,      \* ParamRollThreshold
    MaxLimit,           \* bound of the model: addDirty stops raising limit_ here
    MaxRefs,            \* bound of the model: no block gets more references
    HostFirst,          \* the build defines USE_OPENCL
    TransfersFail       \* transfers to and from the accelerator may fail

ASSUME RollThresholdAssumption == RollThreshold \in Nat \ {0}
ASSUME MaxLimitAssumption == MaxLimit \in Nat \ {0}
ASSUME MaxRefsAssumption == MaxRefs \in Nat \ {0, 1}
ASSUME FlagsAssumption ==
    /\ Eager \in BOOLEAN
    /\ HostFirst \in BOOLEAN
    /\ TransfersFail \in BOOLEAN

Sides == {"host", "acc"}

\* lazy::State, and "NoBlock" for an identity without a Block object.
States == {"ReadOnly", "Invalid", "Dirty", "HostOnly", "NoBlock"}

\* GMAC_PROT_NONE, GMAC_PROT_READ and GMAC_PROT_READWRITE.
Protections == {"none", "read", "rw"}

\* What the running kernel may do with a block: the arguments of a launch.
Uses == {"none", "read", "write"}

VARIABLES
    state,      \* lazy::BlockState::state_
    prot,       \* protection of the host pages of the block
    faults,     \* faultsCacheWrite_, up to RollThreshold
    current,    \* sides whose copy holds the last value of every byte
    refs,       \* Reference::ref_ of the Block object, 0 without one
    dbl,        \* LazyBase::dbl_
    limit,      \* LazyBase::limit_
    call,       \* the loop over dbl_ that is running
    lent        \* use of the block by the running kernel

vars == <<state, prot, faults, current, refs, dbl, limit, call, lent>>

live == {b \in Blocks : state[b] # "NoBlock"}

TypeOK ==
    /\ state \in [Blocks -> States]
    /\ prot \in [Blocks -> Protections]
    /\ faults \in [Blocks -> 0..RollThreshold]
    /\ current \in [Blocks -> SUBSET Sides]
    /\ refs \in [Blocks -> 0..MaxRefs]
    /\ dbl \in Seq(Blocks)
    /\ limit \in 1..MaxLimit
    /\ call \in {"none", "addDirty", "releaseAll", "undefined"}
    /\ lent \in [Blocks -> Uses]

Init ==
    /\ state = [b \in Blocks |-> "NoBlock"]
    /\ prot = [b \in Blocks |-> "none"]
    /\ faults = [b \in Blocks |-> 0]
    /\ current = [b \in Blocks |-> {}]
    /\ refs = [b \in Blocks |-> 0]
    /\ dbl = <<>>
    /\ limit = 1
    /\ call = "none"
    /\ lent = [b \in Blocks |-> "none"]

-------------------------------------------------------------------------------
(* Data.  A transfer that fails moves nothing and returns an error.          *)

Outcomes == IF TransfersFail THEN {TRUE, FALSE} ELSE {TRUE}

\* The whole copy on side from replaces the copy on side to.
Transferred(c, from, to) == IF from \in c THEN c \cup {to} ELSE c \ {to}

\* New bytes reach the copies on sides; a partial write keeps the other bytes.
Written(c, sides, full) == (IF full THEN Sides ELSE c) \cap sides

-------------------------------------------------------------------------------
(* The Dirty Block List.                                                     *)

Idle == call = "none"

\* Mutant of AddDirty: push() takes no reference.
AddDirtyUncounted(b, faultCount, references) ==
    LET grows == Eager /\ faultCount >= RollThreshold
    IN  /\ dbl' = Append(dbl, b)
        /\ refs' = [refs EXCEPT ![b] = references]
        /\ grows => limit < MaxLimit
        /\ limit' = IF grows THEN limit + 1 ELSE limit
        /\ faults' = [faults EXCEPT ![b] = IF grows THEN 0 ELSE faultCount]
        /\ call' = IF Eager THEN "addDirty" ELSE "none"

\* LazyBase::addDirty up to its loop.  faultCount is the value of
\* faultsCacheWrite_ with which the block enters the list, references the
\* number of its references before push() takes one.
AddDirty(b, faultCount, references) ==
    LET grows == Eager /\ faultCount >= RollThreshold
    IN  /\ dbl' = Append(dbl, b)
        /\ references < MaxRefs
        /\ refs' = [refs EXCEPT ![b] = references + 1]
        /\ grows => limit < MaxLimit
        /\ limit' = IF grows THEN limit + 1 ELSE limit
        /\ faults' = [faults EXCEPT ![b] = IF grows THEN 0 ELSE faultCount]
        /\ call' = IF Eager THEN "addDirty" ELSE "none"

\* Mutants of Release: the pages stay writable; the block leaves the list
\* before its transfer is known to succeed; the block is never removed.
ReleaseUnprotected(b, ok) ==
    /\ IF state[b] = "Dirty" /\ ok
       THEN /\ current' = [current EXCEPT ![b] = Transferred(@, "host", "acc")]
            /\ state' = [state EXCEPT ![b] = "ReadOnly"]
            /\ dbl' = RemoveFirst(dbl, b)
       ELSE UNCHANGED <<current, state, dbl>>
    /\ UNCHANGED <<prot, faults, limit, call, lent>>

ReleaseUnlistsFirst(b, ok) ==
    /\ state[b] = "Dirty"
    /\ prot' = [prot EXCEPT ![b] = "read"]
    /\ dbl' = RemoveFirst(dbl, b)
    /\ IF ok
       THEN /\ current' = [current EXCEPT ![b] = Transferred(@, "host", "acc")]
            /\ state' = [state EXCEPT ![b] = "ReadOnly"]
       ELSE UNCHANGED <<current, state>>
    /\ UNCHANGED <<faults, limit, call, lent>>

\* LazyBase::release.  dbl lists no block twice (DirtyListed), so that
\* removing one entry is what std::list::remove does.
Release(b, ok) ==
    /\ IF state[b] = "Dirty"
       THEN /\ prot' = [prot EXCEPT ![b] = "read"]
            /\ IF ok
               THEN /\ current' = [current EXCEPT ![b] = Transferred(@, "host", "acc")]
                    /\ state' = [state EXCEPT ![b] = "ReadOnly"]
                    /\ dbl' = RemoveFirst(dbl, b)
               ELSE UNCHANGED <<current, state, dbl>>
       ELSE UNCHANGED <<prot, current, state, dbl>>
    /\ UNCHANGED <<faults, limit, call, lent>>

\* The body of both loops over dbl_: front(), then the release of its block.
\* A block whose last reference front() gives up is destroyed although the
\* list still names it; the release of a block that is gone is undefined, and
\* the model says nothing of what comes after.
ReleaseFront ==
    LET b == Head(dbl)
    IN  /\ refs' = [refs EXCEPT ![b] = @ - 1]
        /\ IF refs[b] > 1
           THEN \E ok \in Outcomes : Release(b, ok)
           ELSE /\ state' = [state EXCEPT ![b] = "NoBlock"]
                /\ call' = "undefined"
                /\ UNCHANGED <<prot, faults, current, dbl, limit, lent>>

\* One iteration of the loop of addDirty: the list is over its limit.
Evict ==
    /\ call = "addDirty"
    /\ Len(dbl) > limit
    /\ ReleaseFront

AddDirtyReturns ==
    /\ call = "addDirty"
    /\ Len(dbl) <= limit
    /\ call' = "none"
    /\ UNCHANGED <<state, prot, faults, current, refs, dbl, limit, lent>>

\* Mutants of Shrunk: no lower bound; a full list shrinks its limit too.
ShrunkToZero == IF Eager /\ Len(dbl) < limit THEN limit \div 2 ELSE limit

ShrunkAlways == IF Eager /\ limit > 1 THEN limit \div 2 ELSE limit

\* Both releaseAll and releasedAll halve the limit of a list that is not full.
Shrunk == IF Eager /\ Len(dbl) < limit /\ limit > 1 THEN limit \div 2 ELSE limit

\* LazyBase::releaseAll, flushDirty up to their loop.
ReleaseAll ==
    /\ Idle
    /\ limit' = Shrunk
    /\ call' = "releaseAll"
    /\ UNCHANGED <<state, prot, faults, current, refs, dbl, lent>>

\* One iteration of the loop of releaseAll.
Flush ==
    /\ call = "releaseAll"
    /\ dbl # <<>>
    /\ ReleaseFront

ReleaseAllReturns ==
    /\ call = "releaseAll"
    /\ dbl = <<>>
    /\ call' = "none"
    /\ UNCHANGED <<state, prot, faults, current, refs, dbl, limit, lent>>

\* LazyBase::releasedAll: the blocks of a launch have been released one by one.
ReleasedAll ==
    /\ Idle
    /\ limit' = Shrunk
    /\ UNCHANGED <<state, prot, faults, current, refs, dbl, call, lent>>

-------------------------------------------------------------------------------
(* Page faults of the host program.  A handler may run after another thread  *)
(* has already fixed the fault it was raised for, so that it finds any       *)
(* protection.  The pages of a HostOnly block never fault, and a handler     *)
(* that is delayed past the unmapping of its block is left out.              *)

\* LazyBase::signalRead.
SignalRead(b, ok) ==
    /\ Idle
    /\ state[b] \in {"ReadOnly", "Invalid", "Dirty"}
    /\ lent[b] # "write"
    /\ IF state[b] = "Invalid" /\ ~ok
       THEN UNCHANGED <<state, prot, current>>
       ELSE /\ prot' = [prot EXCEPT ![b] = "read"]
            /\ IF state[b] = "Invalid"
               THEN /\ state' = [state EXCEPT ![b] = "ReadOnly"]
                    /\ current' = [current EXCEPT ![b] = Transferred(@, "acc", "host")]
               ELSE UNCHANGED <<state, current>>
    /\ UNCHANGED <<faults, refs, dbl, limit, call, lent>>

\* BlockState::write counts the fault; the count matters up to RollThreshold.
FaultCount(b) == IF faults[b] < RollThreshold THEN faults[b] + 1 ELSE faults[b]

\* LazyBase::signalWrite on a block another thread has just made Dirty.
SignalWriteDirty(b) ==
    /\ Idle
    /\ state[b] = "Dirty"
    /\ lent[b] = "none"
    /\ faults' = [faults EXCEPT ![b] = FaultCount(b)]
    /\ prot' = [prot EXCEPT ![b] = "rw"]
    /\ UNCHANGED <<state, current, refs, dbl, limit, call, lent>>

\* LazyBase::signalWrite on a block that becomes Dirty, unless it is Invalid and
\* its transfer to the host fails.
SignalWrite(b, ok) ==
    /\ Idle
    /\ state[b] \in {"ReadOnly", "Invalid"}
    /\ lent[b] = "none"
    /\ IF state[b] = "Invalid" /\ ~ok
       THEN /\ faults' = [faults EXCEPT ![b] = FaultCount(b)]
            /\ UNCHANGED <<state, prot, current, refs, dbl, limit, call>>
       ELSE /\ current' = [current EXCEPT ![b] =
                             IF state[b] = "Invalid" THEN Transferred(@, "acc", "host") ELSE @]
            /\ state' = [state EXCEPT ![b] = "Dirty"]
            /\ prot' = [prot EXCEPT ![b] = "rw"]
            /\ AddDirty(b, FaultCount(b), refs[b])
    /\ UNCHANGED lent

-------------------------------------------------------------------------------
(* Ownership of a block passing between host and accelerator.                *)

\* Mutants of Acquire: a Dirty block is invalidated too; the pages of an
\* invalidated block stay readable.
AcquireDirty(b, p) ==
    /\ Idle
    /\ b \in live
    /\ p \in {"read", "rw"}
    /\ lent[b] = "write" => p = "rw"
    /\ IF state[b] # "HostOnly" /\ p = "rw"
       THEN /\ prot' = [prot EXCEPT ![b] = "none"]
            /\ state' = [state EXCEPT ![b] = "Invalid"]
       ELSE UNCHANGED <<prot, state>>
    /\ lent' = [lent EXCEPT ![b] = "none"]
    /\ UNCHANGED <<faults, current, refs, dbl, limit, call>>

AcquireUnprotected(b, p) ==
    /\ Idle
    /\ b \in live
    /\ p \in {"read", "rw"}
    /\ lent[b] = "write" => p = "rw"
    /\ state' = IF state[b] \in {"ReadOnly", "Invalid"} /\ p = "rw"
                 THEN [state EXCEPT ![b] = "Invalid"] ELSE state
    /\ lent' = [lent EXCEPT ![b] = "none"]
    /\ UNCHANGED <<prot, faults, current, refs, dbl, limit, call>>

\* LazyBase::acquire; p is the protection the launch declared for the object.
Acquire(b, p) ==
    /\ Idle
    /\ b \in live
    /\ p \in {"read", "rw"}
    /\ lent[b] = "write" => p = "rw"
    /\ IF state[b] \in {"ReadOnly", "Invalid"} /\ p = "rw"
       THEN /\ prot' = [prot EXCEPT ![b] = "none"]
            /\ state' = [state EXCEPT ![b] = "Invalid"]
       ELSE UNCHANGED <<prot, state>>
    /\ lent' = [lent EXCEPT ![b] = "none"]
    /\ UNCHANGED <<faults, current, refs, dbl, limit, call>>

\* LazyBase::release for one block of an object, outside the loops.
ReleaseBlock(b, ok) ==
    /\ Idle
    /\ b \in live
    /\ Release(b, ok)
    /\ UNCHANGED refs

\* LazyBase::toHost.
ToHost(b, ok) ==
    /\ Idle
    /\ state[b] = "Invalid"
    /\ lent[b] # "write"
    /\ prot' = [prot EXCEPT ![b] = "read"]
    /\ IF ok
       THEN /\ current' = [current EXCEPT ![b] = Transferred(@, "acc", "host")]
            /\ state' = [state EXCEPT ![b] = "ReadOnly"]
       ELSE UNCHANGED <<current, state>>
    /\ UNCHANGED <<faults, refs, dbl, limit, call, lent>>

-------------------------------------------------------------------------------
(* Bulk accesses of the library on behalf of the program.                    *)

\* Mutant: a ReadOnly block is written in host memory alone.
BulkSidesHost(b) == IF state[b] = "Invalid" THEN {"acc"} ELSE {"host"}

\* The sides LazyBase::memset and copyFromBuffer write in each state.
BulkSides(b) ==
    CASE state[b] = "Invalid"              -> {"acc"}
      [] state[b] = "ReadOnly"             -> Sides
      [] state[b] \in {"Dirty", "HostOnly"} -> {"host"}

\* LazyBase::memset.  The accelerator is written first, so that a failure
\* leaves both copies as they were.
Memset(b, full, ok) ==
    /\ Idle
    /\ b \in live
    /\ lent[b] = "none"
    /\ current' = [current EXCEPT ![b] =
                     IF ok \/ "acc" \notin BulkSides(b)
                     THEN Written(@, BulkSides(b), full) ELSE @]
    /\ UNCHANGED <<state, prot, faults, refs, dbl, limit, call, lent>>

\* LazyBase::copyFromBuffer replacing a whole ReadOnly block in a CUDA build:
\* the data goes to the accelerator alone.
CopyFromBufferWhole(b, ok) ==
    /\ Idle
    /\ ~HostFirst
    /\ state[b] = "ReadOnly"
    /\ lent[b] = "none"
    /\ prot' = [prot EXCEPT ![b] = "none"]
    /\ state' = [state EXCEPT ![b] = "Invalid"]
    /\ current' = [current EXCEPT ![b] = IF ok THEN Written(@, {"acc"}, TRUE) ELSE @]
    /\ UNCHANGED <<faults, refs, dbl, limit, call, lent>>

\* LazyBase::copyFromBuffer otherwise.  The OpenCL build writes the host copy
\* of a ReadOnly block first, so that a failure leaves the new data there only.
CopyFromBuffer(b, full, ok) ==
    /\ Idle
    /\ b \in live
    /\ lent[b] = "none"
    /\ HostFirst \/ ~full \/ state[b] # "ReadOnly"
    /\ LET reached == IF ok \/ "acc" \notin BulkSides(b) THEN BulkSides(b)
                      ELSE IF HostFirst THEN BulkSides(b) \ {"acc"} ELSE {}
       IN  current' = [current EXCEPT ![b] =
                         IF reached = {} THEN @ ELSE Written(@, reached, full)]
    /\ UNCHANGED <<state, prot, faults, refs, dbl, limit, call, lent>>

\* The transfers of LazyBase::copyBlockToBlock, in order, as <<from, to>>.
CopySteps(src, dst) ==
    CASE src \in {"Invalid", "ReadOnly"} /\ dst = "Invalid" -> << <<"acc", "acc">> >>
      [] src = "Dirty" /\ dst = "Dirty"       -> << <<"host", "host">> >>
      [] src = "ReadOnly" /\ dst = "ReadOnly" -> << <<"acc", "acc">>, <<"host", "host">> >>
      [] src = "Invalid" /\ dst = "ReadOnly"  -> << <<"acc", "acc">>, <<"acc", "host">> >>
      [] src = "Invalid" /\ dst = "Dirty"     -> << <<"acc", "host">> >>
      [] src = "Dirty" /\ dst = "Invalid"     -> << <<"host", "acc">> >>
      [] src = "Dirty" /\ dst = "ReadOnly"    -> << <<"host", "acc">>, <<"host", "host">> >>
      [] src = "ReadOnly" /\ dst = "Dirty"    -> << <<"host", "host">> >>
      [] OTHER -> <<>>

\* LazyBase::copyBlockToBlock.  done is the set of transfers that succeed: a
\* copy inside host memory always does, and the second is skipped after a
\* failure of the first except from a Dirty to a ReadOnly block.
CopyBlock(d, s, full, done) ==
    LET steps == CopySteps(state[s], state[d])
        reached == {steps[i][2] : i \in done}
        good == {steps[i][2] : i \in {j \in done : steps[j][1] \in current[s]}}
    IN  /\ Idle
        /\ d # s
        /\ {state[d], state[s]} \subseteq {"ReadOnly", "Invalid", "Dirty"}
        /\ lent[d] = "none" /\ lent[s] # "write"
        /\ done \subseteq DOMAIN steps
        /\ TransfersFail \/ done = DOMAIN steps
        /\ \A i \in DOMAIN steps :
              i \notin done => \/ steps[i] # <<"host", "host">>
                               \/ i = 2 /\ 1 \notin done /\ state[s] # "Dirty"
        /\ 2 \in done => 1 \in done \/ state[s] = "Dirty"
        /\ current' = [current EXCEPT ![d] =
                         IF reached = {} THEN @
                         ELSE (IF full THEN Sides ELSE @) \cap good]
        /\ UNCHANGED <<state, prot, faults, refs, dbl, limit, call, lent>>

-------------------------------------------------------------------------------
(* Blocks entering and leaving the coherence domain.                         *)

\* Manager::alloc: the block is ReadOnly and its pages are read only.
Alloc(b) ==
    /\ Idle
    /\ state[b] = "NoBlock"
    /\ state' = [state EXCEPT ![b] = "ReadOnly"]
    /\ prot' = [prot EXCEPT ![b] = "read"]
    /\ current' = [current EXCEPT ![b] = Sides]
    /\ refs' = [refs EXCEPT ![b] = 1]
    /\ UNCHANGED <<faults, dbl, limit, call, lent>>

\* Mutant: the block is destroyed while the list still names it.
FreeListed(b) ==
    /\ Idle
    /\ b \in live
    /\ lent[b] = "none"
    /\ state' = [state EXCEPT ![b] = "NoBlock"]
    /\ prot' = [prot EXCEPT ![b] = "none"]
    /\ faults' = [faults EXCEPT ![b] = 0]
    /\ current' = [current EXCEPT ![b] = {}]
    /\ refs' = [refs EXCEPT ![b] = 0]
    /\ UNCHANGED <<dbl, limit, call, lent>>

\* The destructor of an object: LazyBase::deleteBlock, then decRef of the Block.
\* One that is still referenced is never used again; its identity is free.
Free(b) ==
    /\ Idle
    /\ b \in live
    /\ lent[b] = "none"
    /\ dbl' = RemoveFirst(dbl, b)
    /\ state' = [state EXCEPT ![b] = "NoBlock"]
    /\ prot' = [prot EXCEPT ![b] = "none"]
    /\ faults' = [faults EXCEPT ![b] = 0]
    /\ current' = [current EXCEPT ![b] = {}]
    /\ refs' = [refs EXCEPT ![b] = 0]
    /\ UNCHANGED <<limit, call, lent>>

\* Mutant: an Invalid block is unmapped without bringing its data back.
UnmapWithoutTransfer(b, ok) ==
    /\ Idle
    /\ b \in live
    /\ lent[b] = "none"
    /\ current' = [current EXCEPT ![b] = @ \ {"acc"}]
    /\ prot' = [prot EXCEPT ![b] = "rw"]
    /\ state' = [state EXCEPT ![b] = "HostOnly"]
    /\ dbl' = RemoveFirst(dbl, b)
    /\ UNCHANGED <<faults, refs, limit, call, lent>>

\* LazyBase::unmapFromAccelerator; the accelerator memory is freed unless the
\* transfer failed.
UnmapFromAccelerator(b, ok) ==
    /\ Idle
    /\ b \in live
    /\ lent[b] = "none"
    /\ current' = [current EXCEPT ![b] =
                     CASE state[b] # "Invalid" -> @ \ {"acc"}
                       [] state[b] = "Invalid" /\ ok ->
                            Transferred(@, "acc", "host") \ {"acc"}
                       [] OTHER -> @]
    /\ prot' = [prot EXCEPT ![b] = "rw"]
    /\ state' = [state EXCEPT ![b] = "HostOnly"]
    /\ dbl' = RemoveFirst(dbl, b)
    /\ UNCHANGED <<faults, refs, limit, call, lent>>

\* BlockGroup::repopulateBlocks, which replaces the Block by a new one with
\* new accelerator memory, and LazyBase::mapToAccelerator.
MapToAccelerator(b) ==
    /\ Idle
    /\ state[b] = "HostOnly"
    /\ state' = [state EXCEPT ![b] = "Dirty"]
    /\ current' = [current EXCEPT ![b] = @ \ {"acc"}]
    /\ AddDirty(b, 0, 1)
    /\ UNCHANGED <<prot, lent>>

-------------------------------------------------------------------------------
(* The program and its kernels.                                              *)

\* A store by any thread of the program to pages it may write.
HostStore(b) ==
    /\ prot[b] = "rw"
    /\ lent[b] = "none"
    /\ current' = [current EXCEPT ![b] = Written(@, {"host"}, FALSE)]
    /\ UNCHANGED <<state, prot, faults, refs, dbl, limit, call, lent>>

\* A kernel is launched with blocks the library has released.
Lend(uses) ==
    /\ Idle
    /\ \A b \in Blocks : uses[b] # "none" =>
          state[b] \in {"ReadOnly", "Invalid"} /\ lent[b] = "none"
    /\ lent' = [b \in Blocks |-> IF uses[b] = "none" THEN lent[b] ELSE uses[b]]
    /\ UNCHANGED <<state, prot, faults, current, refs, dbl, limit, call>>

KernelWrite(b) ==
    /\ lent[b] = "write"
    /\ current' = [current EXCEPT ![b] = Written(@, {"acc"}, FALSE)]
    /\ UNCHANGED <<state, prot, faults, refs, dbl, limit, call, lent>>

-------------------------------------------------------------------------------

Loop == Evict \/ AddDirtyReturns \/ Flush \/ ReleaseAllReturns

FaultHandler(b) ==
    \/ \E ok \in Outcomes : SignalRead(b, ok)
    \/ SignalWriteDirty(b)
    \/ \E ok \in Outcomes : SignalWrite(b, ok)

Coherence(b) ==
    \/ \E p \in {"read", "rw"} : Acquire(b, p)
    \/ \E ok \in Outcomes : ReleaseBlock(b, ok)
    \/ \E ok \in Outcomes : ToHost(b, ok)

BulkAccess(b) ==
    \/ \E full \in BOOLEAN, ok \in Outcomes : Memset(b, full, ok)
    \/ \E ok \in Outcomes : CopyFromBufferWhole(b, ok)
    \/ \E full \in BOOLEAN, ok \in Outcomes : CopyFromBuffer(b, full, ok)
    \/ \E s \in Blocks, full \in BOOLEAN, done \in SUBSET {1, 2} : CopyBlock(b, s, full, done)

Lifetime(b) ==
    \/ Alloc(b)
    \/ Free(b)
    \/ \E ok \in Outcomes : UnmapFromAccelerator(b, ok)
    \/ MapToAccelerator(b)

Program(b) ==
    \/ HostStore(b)
    \/ KernelWrite(b)

Next ==
    \/ Loop
    \/ ReleaseAll
    \/ ReleasedAll
    \/ \E uses \in [Blocks -> Uses] : Lend(uses)
    \/ \E b \in Blocks :
         \/ FaultHandler(b)
         \/ Coherence(b)
         \/ BulkAccess(b)
         \/ Lifetime(b)
         \/ Program(b)

Spec == Init /\ [][Next]_vars

-------------------------------------------------------------------------------
(* Properties.                                                               *)

(* The Dirty Block List is the "List of all memory blocks in Dirty state"    *)
(* (LazyBase.h): until a loop over it has destroyed a block, it lists every  *)
(* Dirty block once and nothing else, so that a flush reaches every modified *)
(* block and no loop takes a block whose release would leave it at the front *)
(* for ever.                                                                 *)
DirtyListed ==
    call # "undefined" =>
        /\ IsInjective(dbl)
        /\ Range(dbl) = {b \in Blocks : state[b] = "Dirty"}

(* Every block has the reference of its object, and a listed one another of  *)
(* the list: front() may give that up before the block is released.          *)
ListHoldsReference ==
    call # "undefined" =>
        \A b \in live : refs[b] >= (IF b \in Range(dbl) THEN 2 ELSE 1)

(* front() returns "the first Block in the list" (BlockList.h): a block that *)
(* exists, whatever became of it when a loop took it before.                 *)
FrontBlockExists == call # "undefined"

(* deleteBlock "deletes all references to the block within the protocol"     *)
(* (Protocol.h): when its object drops it, a block has no reference but that *)
(* of the object, and is destroyed with it.                                  *)
DeletedUnreferenced ==
    [][\A b \in live : state'[b] = "NoBlock" /\ call' # "undefined" => refs[b] = 1]_vars

(* A ReadOnly block has a "valid copy of the data in both host and           *)
(* accelerator memory" (LazyTypes.h) unless a kernel that may write it is    *)
(* running.                                                                  *)
ReadOnlyBothCopies ==
    \A b \in Blocks : state[b] = "ReadOnly" /\ lent[b] # "write" => current[b] = Sides

(* A block the host does not own, Invalid or lent to a kernel, has its data  *)
(* in accelerator memory: neither a fault nor a kernel finds old values.     *)
AcceleratorCurrent ==
    \A b \in Blocks : state[b] = "Invalid" \/ lent[b] # "none" => "acc" \in current[b]

(* A Dirty or HostOnly block has its data in host memory, through every      *)
(* unmapping, remapping, eviction and flush.                                 *)
HostCurrent ==
    \A b \in Blocks : state[b] \in {"Dirty", "HostOnly"} => "host" \in current[b]

(* Pages the program may read without a fault hold the last value written to *)
(* them, by the host or by a kernel.                                         *)
ReadablePagesCurrent ==
    \A b \in live : prot[b] # "none" /\ lent[b] # "write" => "host" \in current[b]

(* Page protection follows the protocol state: an access faults whenever the *)
(* library must see it.  Pages the program may write belong to a block whose *)
(* next release or unmapping keeps what is stored, and no page of an Invalid *)
(* block can be read.                                                        *)
ProtectionFollowsState ==
    \A b \in live :
        /\ prot[b] = "rw" => state[b] \in {"Dirty", "HostOnly"}
        /\ state[b] = "Invalid" => prot[b] = "none"

(* limit_ is the "maximum number of blocks in dirty state" (LazyBase.h).     *)
(* What is left of that bound: halving the limit leaves at most twice as     *)
(* many Dirty blocks, whatever sequence of launches and faults is run.       *)
DirtyWithinTwiceLimit ==
    Eager /\ call \notin {"addDirty", "undefined"} => Len(dbl) <= 2 * limit

(* A page the program may write belongs to a block that has left the         *)
(* accelerator or that the next loop over the list will reach, even after    *)
(* transfers have failed: no store is lost because nobody looks for it.      *)
WritableListed ==
    call # "undefined" =>
        \A b \in live : prot[b] = "rw" => state[b] = "HostOnly" \/ b \in Range(dbl)

(* The loop of addDirty never reaches the block it was called for: that      *)
(* block's lock is held by the caller, and the store that faulted needs the  *)
(* page to stay writable.                                                    *)
AddedBlockStays == [][call = "addDirty" => dbl' # <<>> /\ Last(dbl') = Last(dbl)]_vars

===============================================================================
