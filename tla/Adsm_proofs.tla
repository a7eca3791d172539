------------------------------ MODULE Adsm_proofs ------------------------------
(***************************************************************************)
(* Proofs about launches by a disciplined program: every step of a launch  *)
(* is one the Lazy protocol allows, a kernel uses released blocks only,    *)
(* and kernel and program find current data, as long as no transfer fails. *)
(***************************************************************************)
EXTENDS Adsm, Lazy_proofs

-------------------------------------------------------------------------------
(* The inductive invariant: what the flags of objects and of the map say of  *)
(* the blocks in each phase of a launch.                                     *)

Ready(b) == state[b] \in {"ReadOnly", "Invalid"}

(* Between launches no object is released and no block is lent.              *)
AtRest ==
    /\ phase \in {"host", "unmapping", "mapping"} =>
          /\ launch = "none"
          /\ uses = NoUse
          /\ declared = NoUse
          /\ \A b \in live : ~released[b]
    /\ phase \notin {"host", "unmapping", "mapping"} => launch # "none"

(* A lent block is one the kernel uses; it has been released, and the        *)
(* synchronisation is going to acquire it.                                   *)
LentReleased ==
    /\ \A b \in Blocks : lent[b] # "none" =>
          /\ phase \in {"running", "acquiring"}
          /\ lent[b] = uses[b]
          /\ released[b]
          /\ Ready(b)
          /\ phase = "acquiring" => b \in todo
    /\ phase = "running" => lent = uses

(* Blocks without accelerator memory are there during a migration only.      *)
HostOnlyMigrating ==
    \A b \in Blocks : state[b] = "HostOnly" =>
        phase = "unmapping" \/ (phase = "mapping" /\ b \in todo)

(* What a launch lists and uses exists, and a kernel uses what is listed.    *)
ArgumentsLive ==
    \A b \in Blocks :
        /\ uses[b] # "none" \/ declared[b] # "none" => b \in live
        /\ launch = "listed" /\ uses[b] # "none" => declared[b] # "none"
        /\ launch = "listed" /\ uses[b] = "write" => declared[b] = "rw"

(* A launch of all objects has released them all, and the map knows it, or   *)
(* it has released none and the kernel uses none.                            *)
AllOrNone ==
    launch = "all" /\ phase \in {"releasing", "launching", "running"} =>
        \/ /\ modified
           /\ \A b \in live : released[b]
           /\ phase # "releasing" => mapReleased
        \/ /\ phase # "releasing"
           /\ uses = NoUse
           /\ \A b \in live : ~released[b]

(* A launch that lists objects has released those and no others.             *)
ListedOnly ==
    launch = "listed" /\ phase \in {"releasing", "launching", "running"} =>
        \A b \in live :
            released[b] <=> (declared[b] # "none" /\ (phase = "releasing" => b \notin todo))

(* What has been released for the kernel stays so until it starts.           *)
KernelReady ==
    \A b \in Blocks :
        /\ uses[b] # "none"
        /\ phase = "launching" \/ (phase = "releasing" /\ launch = "listed" /\ b \notin todo)
        => Ready(b)

(* What the loops over listed and acquired objects still have to reach; a    *)
(* synchronisation leaves no object released.                                *)
StillToDo ==
    /\ phase = "acquiring" =>
          /\ todo \subseteq live
          /\ launch = "listed" => \A b \in todo : declared[b] # "none"
          /\ \A b \in live \ todo : ~released[b]
    /\ phase = "releasing" /\ launch = "listed" =>
          \A b \in todo : b \in live /\ declared[b] # "none"
    /\ phase = "host" \/ (phase = "releasing" /\ launch = "all") => todo = {}

(* What Lazy_proofs says of the list and of the references of blocks.        *)
ProtocolInv == ListInv /\ HeldInv

AdsmInv ==
    /\ ProtocolInv
    /\ AdsmTypeOK
    /\ AtRest
    /\ LentReleased
    /\ HostOnlyMigrating
    /\ ArgumentsLive
    /\ AllOrNone
    /\ ListedOnly
    /\ KernelReady
    /\ StillToDo

LEMMA AdsmInitial == AdsmInit => AdsmInv
<1> SUFFICES ASSUME AdsmInit PROVE AdsmInv
  OBVIOUS
<1>1. ProtocolInv /\ TypeOK
  BY ListInit, HeldInit DEF AdsmInit, ProtocolInv, ListInv
<1>2. AdsmTypeOK
  BY <1>1 DEF AdsmInit, AdsmTypeOK, NoUse, Phases, Uses, Protections
<1>3. AtRest /\ HostOnlyMigrating /\ AllOrNone /\ ListedOnly /\ StillToDo
  BY DEF AdsmInit, Init, AtRest, HostOnlyMigrating, AllOrNone, ListedOnly, StillToDo, NoUse, live
<1>4. LentReleased /\ ArgumentsLive /\ KernelReady
  BY DEF AdsmInit, Init, LentReleased, ArgumentsLive, KernelReady, NoUse
<1> QED BY <1>1, <1>2, <1>3, <1>4 DEF AdsmInv

-------------------------------------------------------------------------------
(* Steps of launches are steps of the protocol.                              *)

(* A step of the program or of a migration is a step of the protocol.        *)
LEMMA ProgramImplements ==
    ASSUME NEW b \in Blocks, ProgramStep(b) \/ MigrateStep(b)
    PROVE  Next
<1>1. CASE ReadFault(b)
  BY <1>1 DEF ReadFault, Next, FaultHandler
<1>2. CASE WriteFault(b)
  BY <1>2 DEF WriteFault, Next, FaultHandler
<1>3. CASE Store(b)
  BY <1>3 DEF Store, Next, Program
<1>4. CASE BulkCall(b)
  BY <1>4 DEF BulkCall, Next
<1>5. CASE AllocObject(b) \/ FreeObject(b)
  BY <1>5 DEF AllocObject, FreeObject, Next, Lifetime
<1>6. CASE UnmapObject(b) \/ MapObject(b)
  BY <1>6 DEF UnmapObject, MapObject, Next, Lifetime
<1> QED BY <1>1, <1>2, <1>3, <1>4, <1>5, <1>6 DEF ProgramStep, MigrateStep

(* The kernel starts with blocks the protocol may lend.                      *)
LEMMA ExecuteImplements ==
    ASSUME AdsmInv, Execute
    PROVE  Lend(uses) /\ uses \in [Blocks -> Uses]
<1>1. /\ uses \in [Blocks -> Uses]
      /\ lent \in [Blocks -> Uses]
      /\ \A b \in Blocks : lent[b] = "none"
      /\ \A b \in Blocks : uses[b] # "none" => Ready(b)
  BY DEF AdsmInv, AdsmTypeOK, TypeOK, LentReleased, KernelReady, Execute
<1>2. lent' = [b \in Blocks |-> IF uses[b] = "none" THEN lent[b] ELSE uses[b]]
  BY <1>1 DEF Execute
<1> QED BY <1>1, <1>2 DEF Execute, Lend, Ready

(* A block that synchronisation reaches has been released if it was lent.    *)
LEMMA AcquireImplements ==
    ASSUME AdsmInv, NEW b \in Blocks, AcquireObject(b)
    PROVE  (\E p \in {"read", "rw"} : Acquire(b, p)) \/ UNCHANGED vars
<1>1. CASE released[b]
  <2>1. CASE launch = "all"
    BY <1>1, <2>1 DEF AcquireObject
  <2>2. CASE launch # "all"
    <3>1. declared[b] \in {"read", "rw"}
      BY <2>2 DEF AdsmInv, StillToDo, AtRest, AdsmTypeOK, Protections, AcquireObject
    <3> QED BY <1>1, <2>2, <3>1 DEF AcquireObject
  <2> QED BY <2>1, <2>2
<1>2. CASE ~released[b]
  <2>1. lent[b] = "none" /\ lent \in [Blocks -> Uses]
    BY <1>2 DEF AdsmInv, LentReleased, AdsmTypeOK, TypeOK
  <2>2. lent' = lent
    BY <1>2, <2>1 DEF AcquireObject
  <2> QED BY <1>2, <2>2 DEF AcquireObject, vars
<1> QED BY <1>1, <1>2

(* No block is lent any more when synchronisation returns.                   *)
LEMMA SynchronizeImplements ==
    ASSUME AdsmInv, SynchronizeReturns
    PROVE  UNCHANGED vars
<1>1. /\ lent \in [Blocks -> Uses]
      /\ \A b \in Blocks : lent[b] = "none"
  BY DEF AdsmInv, AdsmTypeOK, TypeOK, LentReleased, SynchronizeReturns
<1>2. lent = NoUse
  BY <1>1 DEF NoUse
<1> QED BY <1>2 DEF SynchronizeReturns, vars

LEMMA AdsmImplements ==
    AdsmInv /\ [AdsmNext]_<<vars, managerVars>> => [Next]_vars
<1> SUFFICES ASSUME AdsmInv, [AdsmNext]_<<vars, managerVars>>
             PROVE  [Next]_vars
  OBVIOUS
<1>1. CASE LoopStep \/ FlushStep \/ AllReleased
  BY <1>1 DEF LoopStep, FlushStep, AllReleased, Next, Loop
<1>2. CASE (\E u \in [Blocks -> Uses] : LaunchAll(u)) \/ ListedReleased
  BY <1>2 DEF LaunchAll, ListedReleased, Next
<1>3. CASE \/ \E u \in [Blocks -> Uses], p \in [Blocks -> Protections] : LaunchListed(u, p)
           \/ Synchronize \/ Migrate \/ AllUnmapped \/ MigrateReturns
  BY <1>3 DEF LaunchListed, Synchronize, Migrate, AllUnmapped, MigrateReturns
<1>4. CASE Execute
  BY <1>4, ExecuteImplements DEF Next
<1>5. CASE SynchronizeReturns
  BY <1>5, SynchronizeImplements
<1>6. ASSUME NEW b \in Blocks, ProgramStep(b) \/ MigrateStep(b)
      PROVE  [Next]_vars
  BY <1>6, ProgramImplements
<1>7. ASSUME NEW b \in Blocks, LaunchStep(b)
      PROVE  [Next]_vars
  <2>1. CASE ReleaseListed(b)
    BY <2>1 DEF ReleaseListed, Next, Coherence
  <2>2. CASE KernelStep(b)
    BY <2>2 DEF KernelStep, Next, Program
  <2>3. CASE AcquireObject(b)
    BY <2>3, AcquireImplements DEF Next, Coherence
  <2> QED BY <1>7, <2>1, <2>2, <2>3 DEF LaunchStep
<1>8. CASE UNCHANGED <<vars, managerVars>>
  BY <1>8
<1> QED BY <1>1, <1>2, <1>3, <1>4, <1>5, <1>6, <1>7, <1>8 DEF AdsmNext

-------------------------------------------------------------------------------
(* The invariant is inductive for a disciplined program.                     *)

(* The states a protocol step may move a block between unless the program    *)
(* writes, unmaps, maps, allocates or frees it.                              *)
Settles ==
    \A b \in Blocks : \/ state'[b] = state[b]
                      \/ /\ state[b] \in {"ReadOnly", "Invalid", "Dirty"}
                         /\ state'[b] \in {"ReadOnly", "Invalid"}

LEMMA SettlesLive ==
    ASSUME Settles
    PROVE  live' = live
BY DEF Settles, live

(* Steps in which the manager has no part.                                   *)
LEMMA QuietStep ==
    ASSUME AdsmInv, ProtocolInv', Settles, lent' = lent, UNCHANGED managerVars
    PROVE  AdsmInv'
<1>1. AdsmTypeOK'
  BY DEF AdsmInv, AdsmTypeOK, ProtocolInv, ListInv, managerVars
<1>2. AtRest' /\ AllOrNone' /\ ListedOnly' /\ StillToDo'
  BY SettlesLive DEF AdsmInv, AtRest, AllOrNone, ListedOnly, StillToDo, managerVars
<1>3. ArgumentsLive'
  BY SettlesLive DEF AdsmInv, ArgumentsLive, managerVars
<1>4. LentReleased' /\ KernelReady'
  BY DEF AdsmInv, LentReleased, KernelReady, Ready, Settles, managerVars
<1>5. HostOnlyMigrating'
  BY DEF AdsmInv, HostOnlyMigrating, Settles, managerVars
<1> QED BY <1>1, <1>2, <1>3, <1>4, <1>5 DEF AdsmInv

LEMMA ReleaseSettles ==
    ASSUME NEW b, NEW ok, TypeOK, Release(b, ok)
    PROVE  Settles /\ lent' = lent
BY DEF Release, Settles, TypeOK

(* The loops over the Dirty Block List.                                      *)
LEMMA LoopSettles ==
    ASSUME ProtocolInv, ~TransfersFail, Loop \/ ReleaseAll \/ ReleasedAll
    PROVE  Settles /\ lent' = lent
<1>1. CASE Evict \/ Flush
  <2>1. TypeOK
    BY DEF ProtocolInv, ListInv
  <2>2. Release(Head(dbl), TRUE)
    BY <1>1, LoopReleases DEF ProtocolInv
  <2> QED BY <2>1, <2>2, ReleaseSettles
<1>2. CASE AddDirtyReturns \/ ReleaseAllReturns \/ ReleaseAll \/ ReleasedAll
  BY <1>2 DEF AddDirtyReturns, ReleaseAllReturns, ReleaseAll, ReleasedAll, Settles
<1> QED BY <1>1, <1>2 DEF Loop

LEMMA BulkSettles ==
    ASSUME NEW b \in Blocks, TypeOK, BulkAccess(b)
    PROVE  Settles /\ lent' = lent
BY DEF BulkAccess, Memset, CopyFromBuffer, CopyFromBufferWhole, CopyBlock, Settles, TypeOK

LEMMA QuietActions ==
    ASSUME AdsmInv, ProtocolInv', ~TransfersFail,
           \/ LoopStep
           \/ FlushStep
           \/ \E b \in Blocks : ReadFault(b) \/ Store(b) \/ BulkCall(b) \/ KernelStep(b)
    PROVE  AdsmInv'
<1>0. TypeOK
  BY DEF AdsmInv, ProtocolInv, ListInv
<1>1. CASE LoopStep \/ FlushStep
  <2>1. Settles /\ lent' = lent
    BY <1>1, LoopSettles DEF AdsmInv, LoopStep, FlushStep, Loop
  <2> QED BY <1>1, <2>1, QuietStep DEF LoopStep, FlushStep
<1>2. ASSUME NEW b \in Blocks, ReadFault(b) \/ Store(b) \/ BulkCall(b) \/ KernelStep(b)
      PROVE  AdsmInv'
  <2>1. CASE BulkCall(b)
    BY <1>0, <2>1, BulkSettles, QuietStep DEF BulkCall
  <2>2. CASE ReadFault(b)
    <3>1. Settles /\ lent' = lent
      BY <1>0, <2>2 DEF ReadFault, SignalRead, Settles, TypeOK
    <3> QED BY <2>2, <3>1, QuietStep DEF ReadFault
  <2>3. CASE Store(b) \/ KernelStep(b)
    <3>1. Settles /\ lent' = lent
      BY <2>3 DEF Store, HostStore, KernelStep, KernelWrite, Settles
    <3> QED BY <2>3, <3>1, QuietStep DEF Store, KernelStep
  <2> QED BY <1>2, <2>1, <2>2, <2>3
<1> QED BY <1>1, <1>2

(* A write of a disciplined program: not between a launch of all objects and *)
(* its synchronisation, and never to a block the kernel uses.                *)
LEMMA WriteFaultStep ==
    ASSUME AdsmInv, ProtocolInv', Disciplined, ~TransfersFail, NEW b \in Blocks, WriteFault(b)
    PROVE  AdsmInv'
<1>1. /\ lent' = lent
      /\ uses[b] = "none"
      /\ \A c \in Blocks \ {b} : state'[c] = state[c]
      /\ state[b] \in {"ReadOnly", "Invalid", "Dirty"} /\ state'[b] = "Dirty"
  <2>1. SignalWrite(b, TRUE) \/ SignalWriteDirty(b)
    BY Succeed DEF WriteFault
  <2> QED BY <2>1 DEF WriteFault, SignalWrite, SignalWriteDirty, AdsmInv, AdsmTypeOK, TypeOK
<1>2. live' = live
  BY <1>1 DEF live
<1>3. phase = "host" \/ launch = "listed"
  BY DEF WriteFault, MayModify
<1>4. AdsmTypeOK'
  BY DEF AdsmInv, AdsmTypeOK, ProtocolInv, ListInv, WriteFault, ModifiedObjects
<1>5. AtRest' /\ AllOrNone' /\ ListedOnly' /\ StillToDo'
  BY <1>2, <1>3 DEF AdsmInv, AtRest, AllOrNone, ListedOnly, StillToDo, WriteFault, ModifiedObjects
<1>6. ArgumentsLive'
  BY <1>2 DEF AdsmInv, ArgumentsLive, WriteFault, ModifiedObjects
<1>7. LentReleased' /\ KernelReady'
  BY <1>1 DEF AdsmInv, LentReleased, KernelReady, Ready, WriteFault, ModifiedObjects
<1>8. HostOnlyMigrating'
  BY <1>1 DEF AdsmInv, HostOnlyMigrating, WriteFault, ModifiedObjects
<1> QED BY <1>4, <1>5, <1>6, <1>7, <1>8 DEF AdsmInv

(* An object comes unreleased, and none comes during a launch of all.        *)
LEMMA AllocStep ==
    ASSUME AdsmInv, ProtocolInv', Disciplined, NEW b \in Blocks, AllocObject(b)
    PROVE  AdsmInv'
<1>1. /\ lent' = lent
      /\ state[b] = "NoBlock" /\ state'[b] = "ReadOnly"
      /\ \A c \in Blocks \ {b} : state'[c] = state[c] /\ released'[c] = released[c]
      /\ ~released'[b]
      /\ UNCHANGED <<phase, launch, declared, uses, todo>>
      /\ phase \in {"host", "running"}
      /\ phase = "host" \/ launch = "listed"
  BY DEF AllocObject, Alloc, MayModify, AdsmInv, AdsmTypeOK, TypeOK
<1>2. live' = live \cup {b} /\ b \notin live
  BY <1>1 DEF live
<1>3. uses[b] = "none" /\ declared[b] = "none" /\ lent[b] = "none"
  BY <1>2 DEF AdsmInv, ArgumentsLive, LentReleased
<1>4. AdsmTypeOK'
  BY DEF AdsmInv, AdsmTypeOK, ProtocolInv, ListInv, AllocObject
<1>5. AtRest' /\ AllOrNone' /\ ListedOnly' /\ StillToDo'
  BY <1>1, <1>2, <1>3 DEF AdsmInv, AtRest, AllOrNone, ListedOnly, StillToDo, live
<1>6. ArgumentsLive'
  BY <1>1, <1>2 DEF AdsmInv, ArgumentsLive
<1>7. LentReleased' /\ KernelReady' /\ HostOnlyMigrating'
  BY <1>1, <1>3 DEF AdsmInv, LentReleased, KernelReady, HostOnlyMigrating, Ready
<1> QED BY <1>4, <1>5, <1>6, <1>7 DEF AdsmInv

LEMMA FreeStep ==
    ASSUME AdsmInv, ProtocolInv', NEW b \in Blocks, FreeObject(b)
    PROVE  AdsmInv'
<1>1. /\ lent' = lent /\ lent[b] = "none" /\ declared[b] = "none"
      /\ state'[b] = "NoBlock"
      /\ \A c \in Blocks \ {b} : state'[c] = state[c]
      /\ UNCHANGED managerVars
      /\ phase \in {"host", "running"}
  BY DEF FreeObject, Free, AdsmInv, AdsmTypeOK, TypeOK
<1>2. live' = live \ {b}
  BY <1>1 DEF live
<1>3. uses[b] = "none"
  BY <1>1 DEF AdsmInv, AtRest, LentReleased, NoUse
<1>4. AdsmTypeOK'
  BY <1>1 DEF AdsmInv, AdsmTypeOK, ProtocolInv, ListInv, managerVars
<1>5. AtRest' /\ AllOrNone' /\ ListedOnly' /\ StillToDo'
  BY <1>1, <1>2 DEF AdsmInv, AtRest, AllOrNone, ListedOnly, StillToDo, managerVars
<1>6. ArgumentsLive'
  BY <1>1, <1>2, <1>3 DEF AdsmInv, ArgumentsLive, managerVars
<1>7. LentReleased' /\ KernelReady' /\ HostOnlyMigrating'
  BY <1>1, <1>3 DEF AdsmInv, LentReleased, KernelReady, HostOnlyMigrating, Ready, managerVars
<1> QED BY <1>4, <1>5, <1>6, <1>7 DEF AdsmInv

-------------------------------------------------------------------------------
(* The launch itself.                                                        *)

LEMMA LaunchAllStep ==
    ASSUME AdsmInv, ProtocolInv', Disciplined, NEW u \in [Blocks -> Uses], LaunchAll(u)
    PROVE  AdsmInv'
<1>1. /\ state' = state /\ lent' = lent /\ live' = live
      /\ phase = "host" /\ launch' = "all" /\ uses' = u
      /\ modified \/ uses' = NoUse
      /\ UNCHANGED <<modified, mapReleased, declared, todo>>
      /\ modified => /\ released' = [b \in Blocks |-> released[b] \/ b \in live]
                     /\ phase' = "releasing"
      /\ ~modified => released' = released /\ phase' = "launching"
  BY DEF LaunchAll, MayLaunchAll, ReleaseAll, vars, live
<1>2. \A b \in Blocks : u[b] # "none" => b \in live
  BY DEF LaunchAll
<1>3. AdsmTypeOK'
  BY <1>1 DEF AdsmInv, AdsmTypeOK, ProtocolInv, ListInv, Phases
<1>4. AtRest' /\ AllOrNone' /\ ListedOnly' /\ StillToDo'
  BY <1>1 DEF AdsmInv, AdsmTypeOK, AtRest, AllOrNone, ListedOnly, StillToDo, live
<1>5. ArgumentsLive'
  BY <1>1, <1>2 DEF AdsmInv, ArgumentsLive, AtRest, NoUse
<1>6. LentReleased' /\ KernelReady' /\ HostOnlyMigrating'
  BY <1>1 DEF AdsmInv, LentReleased, KernelReady, HostOnlyMigrating, Ready, NoUse
<1> QED BY <1>3, <1>4, <1>5, <1>6 DEF AdsmInv

(* When releaseAll returns no block is Dirty, because the list is exact.     *)
LEMMA AllReleasedStep ==
    ASSUME AdsmInv, ProtocolInv', AllReleased
    PROVE  AdsmInv'
<1>1. /\ state' = state /\ lent' = lent /\ live' = live
      /\ phase = "releasing" /\ launch = "all" /\ mapReleased' = TRUE /\ phase' = "launching"
      /\ UNCHANGED <<released, modified, launch, declared, uses, todo>>
  BY DEF AllReleased, ReleaseAllReturns, live
<1>2. ASSUME NEW b \in Blocks, uses[b] # "none"
      PROVE  Ready(b)
  <2>1. dbl = <<>>
    BY DEF AllReleased, ReleaseAllReturns
  <2>2. state[b] # "Dirty"
    BY <2>1 DEF AdsmInv, ProtocolInv, ListInv, HeldInv, DirtyListed, Range
  <2>3. state[b] \notin {"NoBlock", "HostOnly"}
    BY <1>1, <1>2 DEF AdsmInv, ArgumentsLive, HostOnlyMigrating, live
  <2> QED BY <2>2, <2>3 DEF AdsmInv, AdsmTypeOK, TypeOK, States, Ready
<1>3. AdsmTypeOK'
  BY <1>1 DEF AdsmInv, AdsmTypeOK, ProtocolInv, ListInv, Phases
<1>4. AtRest' /\ AllOrNone' /\ ListedOnly' /\ StillToDo'
  BY <1>1 DEF AdsmInv, AtRest, AllOrNone, ListedOnly, StillToDo
<1>5. ArgumentsLive' /\ LentReleased' /\ KernelReady' /\ HostOnlyMigrating'
  BY <1>1, <1>2 DEF AdsmInv, ArgumentsLive, LentReleased, KernelReady, HostOnlyMigrating, Ready
<1> QED BY <1>3, <1>4, <1>5 DEF AdsmInv

LEMMA LaunchListedStep ==
    ASSUME AdsmInv, ProtocolInv', NEW u \in [Blocks -> Uses], NEW p \in [Blocks -> Protections],
           LaunchListed(u, p)
    PROVE  AdsmInv'
<1>1. /\ state' = state /\ lent' = lent /\ live' = live
      /\ phase = "host" /\ phase' = "releasing" /\ launch' = "listed"
      /\ uses' = u /\ declared' = p /\ todo' = {b \in Blocks : p[b] # "none"}
      /\ UNCHANGED <<released, modified, mapReleased>>
  BY DEF LaunchListed, vars, live
<1>2. \A b \in Blocks :
         /\ p[b] # "none" => b \in live
         /\ u[b] # "none" => p[b] # "none"
         /\ u[b] = "write" => p[b] = "rw"
  BY DEF LaunchListed, Uses
<1>3. AdsmTypeOK'
  BY <1>1 DEF AdsmInv, AdsmTypeOK, ProtocolInv, ListInv, Phases
<1>4. AtRest' /\ AllOrNone' /\ ListedOnly' /\ StillToDo'
  BY <1>1, <1>2 DEF AdsmInv, AtRest, AllOrNone, ListedOnly, StillToDo, live
<1>5. ArgumentsLive'
  BY <1>1, <1>2 DEF AdsmInv, ArgumentsLive
<1>6. LentReleased' /\ KernelReady' /\ HostOnlyMigrating'
  BY <1>1, <1>2 DEF AdsmInv, LentReleased, KernelReady, HostOnlyMigrating, Ready
<1> QED BY <1>3, <1>4, <1>5, <1>6 DEF AdsmInv

(* A listed object that is not released yet is neither Dirty nor without     *)
(* accelerator memory afterwards.                                            *)
LEMMA ReleaseListedStep ==
    ASSUME AdsmInv, ProtocolInv', ~TransfersFail, NEW b \in Blocks, ReleaseListed(b)
    PROVE  AdsmInv'
<1>0. TypeOK
  BY DEF AdsmInv, ProtocolInv, ListInv
<1>1. /\ phase = "releasing" /\ launch = "listed" /\ b \in todo /\ b \in live /\ ~released[b]
      /\ declared[b] # "none"
      /\ todo' = todo \ {b} /\ released' = [released EXCEPT ![b] = TRUE]
      /\ UNCHANGED <<modified, mapReleased, phase, launch, declared, uses>>
  BY DEF AdsmInv, AdsmTypeOK, AtRest, ListedOnly, StillToDo, ReleaseListed
<1>2. Release(b, TRUE)
  BY <1>1, Succeed DEF ReleaseListed, ReleaseBlock
<1>3. Settles /\ lent' = lent
  BY <1>0, <1>2, ReleaseSettles
<1>9. live' = live
  BY <1>3, SettlesLive
<1>4. Ready(b)'
  <2>1. state[b] # "HostOnly"
    BY <1>1 DEF AdsmInv, HostOnlyMigrating
  <2> QED BY <1>0, <1>1, <1>2, <2>1 DEF TypeOK, States, live, Release, Ready
<1>5. AdsmTypeOK'
  BY <1>1 DEF AdsmInv, AdsmTypeOK, ProtocolInv, ListInv
<1>6. AtRest' /\ AllOrNone' /\ ListedOnly' /\ StillToDo'
  BY <1>1, <1>9 DEF AdsmInv, AdsmTypeOK, AtRest, AllOrNone, ListedOnly, StillToDo
<1>7. ArgumentsLive' /\ HostOnlyMigrating'
  BY <1>1, <1>3, <1>9 DEF AdsmInv, ArgumentsLive, HostOnlyMigrating, Settles
<1>8. LentReleased' /\ KernelReady'
  BY <1>1, <1>3, <1>4 DEF AdsmInv, LentReleased, KernelReady, Settles, Ready
<1> QED BY <1>5, <1>6, <1>7, <1>8 DEF AdsmInv

LEMMA ListedReleasedStep ==
    ASSUME AdsmInv, ProtocolInv', ListedReleased
    PROVE  AdsmInv'
<1>1. /\ state' = state /\ lent' = lent /\ live' = live
      /\ phase = "releasing" /\ launch = "listed" /\ todo = {} /\ phase' = "launching"
      /\ mapReleased' = TRUE
      /\ UNCHANGED <<released, modified, launch, declared, uses, todo>>
  BY DEF ListedReleased, ReleasedAll, live
<1>2. AdsmTypeOK'
  BY <1>1 DEF AdsmInv, AdsmTypeOK, ProtocolInv, ListInv, Phases
<1>3. AtRest' /\ AllOrNone' /\ ListedOnly' /\ StillToDo'
  BY <1>1 DEF AdsmInv, AtRest, AllOrNone, ListedOnly, StillToDo
<1>4. ArgumentsLive' /\ LentReleased' /\ KernelReady' /\ HostOnlyMigrating'
  BY <1>1 DEF AdsmInv, ArgumentsLive, LentReleased, KernelReady, HostOnlyMigrating, Ready
<1> QED BY <1>2, <1>3, <1>4 DEF AdsmInv

LEMMA ExecuteStep ==
    ASSUME AdsmInv, ProtocolInv', Execute
    PROVE  AdsmInv'
<1>1. /\ state' = state /\ live' = live
      /\ phase = "launching" /\ phase' = "running" /\ lent' = uses
      /\ UNCHANGED <<released, modified, mapReleased, launch, declared, uses, todo>>
  BY DEF Execute, live
<1>2. AdsmTypeOK'
  BY <1>1 DEF AdsmInv, AdsmTypeOK, ProtocolInv, ListInv, Phases
<1>3. AtRest' /\ AllOrNone' /\ ListedOnly' /\ StillToDo'
  BY <1>1 DEF AdsmInv, AtRest, AllOrNone, ListedOnly, StillToDo
<1>4. ArgumentsLive' /\ KernelReady' /\ HostOnlyMigrating'
  BY <1>1 DEF AdsmInv, ArgumentsLive, KernelReady, HostOnlyMigrating, Ready
<1>5. ASSUME NEW b \in Blocks, uses[b] # "none"
      PROVE  released[b] /\ Ready(b)
  <2>1. launch \in {"all", "listed"} /\ b \in live /\ Ready(b)
    BY <1>1, <1>5 DEF AdsmInv, AdsmTypeOK, AtRest, ArgumentsLive, KernelReady
  <2>2. CASE launch = "all"
    BY <1>1, <1>5, <2>1, <2>2 DEF AdsmInv, AllOrNone, NoUse
  <2>3. CASE launch = "listed"
    BY <1>1, <1>5, <2>1, <2>3 DEF AdsmInv, ListedOnly, ArgumentsLive
  <2> QED BY <2>1, <2>2, <2>3
<1>6. LentReleased'
  BY <1>1, <1>5 DEF AdsmInv, LentReleased, Ready
<1> QED BY <1>2, <1>3, <1>4, <1>6 DEF AdsmInv

(* Synchronisation takes back every block that is released or lent.          *)
LEMMA SynchronizeStep ==
    ASSUME AdsmInv, ProtocolInv', Synchronize
    PROVE  AdsmInv'
<1>1. /\ state' = state /\ lent' = lent /\ live' = live
      /\ phase \in {"host", "running"} /\ phase' = "acquiring" /\ todo' = Acquired
      /\ launch' = IF phase = "host" THEN "all" ELSE launch
      /\ UNCHANGED <<released, modified, mapReleased, declared, uses>>
  BY DEF Synchronize, vars, live
<1>2. /\ Acquired \subseteq live
      /\ launch' \in {"all", "listed"}
      /\ launch' = "listed" => \A b \in Acquired : declared[b] # "none"
  <2>1. \A b \in Blocks : declared[b] # "none" => b \in live
    BY DEF AdsmInv, ArgumentsLive
  <2>2. launch' \in {"all", "listed"}
    BY <1>1 DEF AdsmInv, AtRest, AdsmTypeOK
  <2>3. launch' = "listed" => launch = "listed"
    BY <1>1
  <2> QED BY <2>1, <2>2, <2>3 DEF Acquired
<1>3. ASSUME NEW b \in live, released[b]
      PROVE  b \in Acquired
  <2>0. phase = "running" /\ launch \in {"all", "listed"}
    BY <1>1, <1>3 DEF AdsmInv, AtRest, AdsmTypeOK
  <2>1. CASE launch = "all"
    BY <1>3, <2>0, <2>1 DEF AdsmInv, AllOrNone, Acquired
  <2>2. CASE launch = "listed"
    BY <1>3, <2>0, <2>2 DEF AdsmInv, ListedOnly, Acquired, live
  <2> QED BY <2>0, <2>1, <2>2
<1>4. AdsmTypeOK'
  BY <1>1, <1>2 DEF AdsmInv, AdsmTypeOK, ProtocolInv, ListInv, Phases, live
<1>5. AtRest' /\ AllOrNone' /\ ListedOnly' /\ StillToDo'
  BY <1>1, <1>2, <1>3 DEF AtRest, AllOrNone, ListedOnly, StillToDo
<1>6. ArgumentsLive'
  <2>1. launch' = "listed" => launch = "listed"
    BY <1>1
  <2> QED BY <1>1, <2>1 DEF AdsmInv, ArgumentsLive
<1>7. LentReleased'
  <2>1. ASSUME NEW b \in Blocks, lent[b] # "none"
        PROVE  released[b] /\ lent[b] = uses[b] /\ Ready(b) /\ b \in Acquired
    BY <1>3, <2>1 DEF AdsmInv, LentReleased, Ready, live
  <2> QED BY <1>1, <2>1 DEF LentReleased, Ready
<1>8. KernelReady' /\ HostOnlyMigrating'
  BY <1>1 DEF AdsmInv, KernelReady, HostOnlyMigrating
<1> QED BY <1>4, <1>5, <1>6, <1>7, <1>8 DEF AdsmInv

LEMMA AcquireObjectStep ==
    ASSUME AdsmInv, ProtocolInv', NEW b \in Blocks, AcquireObject(b)
    PROVE  AdsmInv'
<1>1. /\ phase = "acquiring" /\ b \in todo /\ todo' = todo \ {b}
      /\ released' = [released EXCEPT ![b] = FALSE]
      /\ lent' = [lent EXCEPT ![b] = "none"]
      /\ UNCHANGED <<modified, mapReleased, phase, launch, declared, uses>>
  BY DEF AcquireObject, Acquire
<1>2. \A c \in Blocks : state'[c] = state[c] \/ (Ready(c) /\ Ready(c)')
  BY DEF AcquireObject, Acquire, Ready, AdsmInv, AdsmTypeOK, TypeOK
<1>3. live' = live
  BY <1>2 DEF Ready, live
<1>4. AdsmTypeOK'
  BY <1>1 DEF AdsmInv, AdsmTypeOK, ProtocolInv, ListInv
<1>5. AtRest' /\ AllOrNone' /\ ListedOnly' /\ StillToDo'
  BY <1>1, <1>3 DEF AdsmInv, AdsmTypeOK, AtRest, AllOrNone, ListedOnly, StillToDo
<1>6. ArgumentsLive' /\ KernelReady' /\ HostOnlyMigrating'
  BY <1>1, <1>2, <1>3 DEF AdsmInv, ArgumentsLive, KernelReady, HostOnlyMigrating, Ready
<1>7. LentReleased'
  BY <1>1, <1>2 DEF AdsmInv, AdsmTypeOK, TypeOK, LentReleased, Ready
<1> QED BY <1>4, <1>5, <1>6, <1>7 DEF AdsmInv

LEMMA SynchronizeReturnsStep ==
    ASSUME AdsmInv, ProtocolInv', SynchronizeReturns
    PROVE  AdsmInv'
<1>1. /\ state' = state /\ lent' = NoUse /\ live' = live
      /\ phase = "acquiring" /\ todo = {} /\ phase' = "host"
      /\ launch' = "none" /\ uses' = NoUse /\ declared' = NoUse
      /\ UNCHANGED <<released, todo>>
      /\ modified' \in {modified, FALSE} /\ mapReleased' \in {mapReleased, FALSE}
  BY DEF SynchronizeReturns, live
<1>2. AdsmTypeOK'
  BY <1>1 DEF AdsmInv, AdsmTypeOK, ProtocolInv, ListInv, Phases, NoUse, Uses, Protections
<1>3. AtRest' /\ AllOrNone' /\ ListedOnly' /\ StillToDo'
  BY <1>1 DEF AdsmInv, AtRest, AllOrNone, ListedOnly, StillToDo
<1>4. ArgumentsLive' /\ LentReleased' /\ KernelReady' /\ HostOnlyMigrating'
  BY <1>1 DEF AdsmInv, ArgumentsLive, LentReleased, KernelReady, HostOnlyMigrating, NoUse
<1> QED BY <1>2, <1>3, <1>4 DEF AdsmInv

-------------------------------------------------------------------------------
(* Migration: every block has accelerator memory again when it ends.         *)

LEMMA MigrateActions ==
    ASSUME AdsmInv, ProtocolInv', Migrate \/ AllUnmapped \/ MigrateReturns
    PROVE  AdsmInv'
<1>1. /\ state' = state /\ lent' = lent /\ live' = live
      /\ phase \in {"host", "unmapping", "mapping"} /\ phase' \in {"host", "unmapping", "mapping"}
      /\ phase' = "mapping" => todo' = live
      /\ phase' = "host" => phase = "mapping" /\ todo = {} /\ todo' = {}
      /\ todo' \in {todo, live}
      /\ UNCHANGED <<released, modified, mapReleased, launch, declared, uses>>
  BY DEF Migrate, AllUnmapped, MigrateReturns, vars, live
<1>2. AdsmTypeOK'
  BY <1>1 DEF AdsmInv, AdsmTypeOK, ProtocolInv, ListInv, Phases, live
<1>3. AtRest' /\ AllOrNone' /\ ListedOnly' /\ StillToDo'
  BY <1>1 DEF AdsmInv, AtRest, AllOrNone, ListedOnly, StillToDo
<1>4. ArgumentsLive' /\ LentReleased' /\ KernelReady'
  BY <1>1 DEF AdsmInv, ArgumentsLive, AtRest, LentReleased, KernelReady, NoUse
<1>5. HostOnlyMigrating'
  BY <1>1 DEF AdsmInv, HostOnlyMigrating, live
<1> QED BY <1>2, <1>3, <1>4, <1>5 DEF AdsmInv

LEMMA MigrateStepKeeps ==
    ASSUME AdsmInv, ProtocolInv', ~TransfersFail, NEW b \in Blocks, MigrateStep(b)
    PROVE  AdsmInv'
<1>1. /\ lent' = lent
      /\ b \in live
      /\ \A c \in Blocks \ {b} : state'[c] = state[c]
      /\ \/ state'[b] = "HostOnly" /\ phase = "unmapping"
         \/ state'[b] = "Dirty" /\ phase = "mapping"
      /\ todo' = todo \ {b}
      /\ UNCHANGED <<released, modified, mapReleased, phase, launch, declared, uses>>
  <2>1. CASE UnmapObject(b)
    <3>1. UnmapFromAccelerator(b, TRUE) /\ todo' = todo \ {b}
      <4>1. PICK ok \in Outcomes :
               /\ UnmapFromAccelerator(b, ok)
               /\ todo' = IF ok \/ state[b] # "Invalid" THEN todo \ {b} ELSE {}
        BY <2>1 DEF UnmapObject
      <4>2. ok = TRUE
        BY <4>1, Succeed
      <4> QED BY <4>1, <4>2
    <3> QED BY <2>1, <3>1 DEF UnmapObject, UnmapFromAccelerator, AdsmInv, AdsmTypeOK, TypeOK, live
  <2>2. CASE MapObject(b)
    BY <2>2 DEF MapObject, MapToAccelerator, AdsmInv, AdsmTypeOK, TypeOK, live
  <2> QED BY <2>1, <2>2 DEF MigrateStep
<1>2. live' = live
  BY <1>1 DEF live
<1>3. AdsmTypeOK'
  BY <1>1 DEF AdsmInv, AdsmTypeOK, ProtocolInv, ListInv
<1>4. AtRest' /\ AllOrNone' /\ ListedOnly' /\ StillToDo'
  BY <1>1, <1>2 DEF AdsmInv, AtRest, AllOrNone, ListedOnly, StillToDo
<1>5. ArgumentsLive' /\ LentReleased' /\ KernelReady'
  BY <1>1, <1>2 DEF AdsmInv, ArgumentsLive, AtRest, LentReleased, KernelReady, NoUse
<1>6. HostOnlyMigrating'
  BY <1>1 DEF AdsmInv, HostOnlyMigrating
<1> QED BY <1>3, <1>4, <1>5, <1>6 DEF AdsmInv

-------------------------------------------------------------------------------

LEMMA AdsmInductive ==
    ASSUME Disciplined, ~TransfersFail
    PROVE  AdsmInv /\ [AdsmNext]_<<vars, managerVars>> => AdsmInv'
<1> SUFFICES ASSUME AdsmInv, [AdsmNext]_<<vars, managerVars>>
             PROVE  AdsmInv'
  OBVIOUS
<1>0. ProtocolInv'
  BY AdsmImplements, ListStep, HeldStep DEF AdsmInv, ProtocolInv
<1>1. CASE LoopStep \/ FlushStep
  BY <1>0, <1>1, QuietActions
<1>2. CASE \E u \in [Blocks -> Uses] : LaunchAll(u)
  BY <1>0, <1>2, LaunchAllStep
<1>3. CASE \E u \in [Blocks -> Uses], p \in [Blocks -> Protections] : LaunchListed(u, p)
  BY <1>0, <1>3, LaunchListedStep
<1>4. CASE AllReleased \/ ListedReleased
  BY <1>0, <1>4, AllReleasedStep, ListedReleasedStep
<1>5. CASE Execute \/ Synchronize \/ SynchronizeReturns
  BY <1>0, <1>5, ExecuteStep, SynchronizeStep, SynchronizeReturnsStep
<1>6. CASE Migrate \/ AllUnmapped \/ MigrateReturns
  BY <1>0, <1>6, MigrateActions
<1>7. ASSUME NEW b \in Blocks, ProgramStep(b)
      PROVE  AdsmInv'
  BY <1>0, <1>7, QuietActions, WriteFaultStep, AllocStep, FreeStep DEF ProgramStep
<1>8. ASSUME NEW b \in Blocks, LaunchStep(b)
      PROVE  AdsmInv'
  BY <1>0, <1>8, QuietActions, ReleaseListedStep, AcquireObjectStep DEF LaunchStep
<1>9. ASSUME NEW b \in Blocks, MigrateStep(b)
      PROVE  AdsmInv'
  BY <1>0, <1>9, MigrateStepKeeps
<1>10. CASE UNCHANGED <<vars, managerVars>>
  <2>1. Settles /\ lent' = lent /\ UNCHANGED managerVars
    BY <1>10 DEF Settles, vars
  <2> QED BY <1>0, <2>1, QuietStep
<1> QED BY <1>1, <1>2, <1>3, <1>4, <1>5, <1>6, <1>7, <1>8, <1>9, <1>10 DEF AdsmNext

LEMMA AdsmInvariant == ASSUME Disciplined, ~TransfersFail PROVE AdsmSpec => []AdsmInv
BY AdsmInitial, AdsmInductive, PTL DEF AdsmSpec

(* Every step the manager makes of the protocol in launches, synchronisation *)
(* and migration is one the protocol allows, when no transfer fails: the     *)
(* theorems about Lazy hold for launches.                                    *)
THEOREM LaunchesImplementLazy ==
    ASSUME Disciplined, ~TransfersFail
    PROVE  AdsmSpec => ImplementsLazy
<1>1. AdsmInit => Init
  BY DEF AdsmInit
<1>2. AdsmInv /\ [AdsmNext]_<<vars, managerVars>> => [Next]_vars
  BY AdsmImplements
<1> QED BY <1>1, <1>2, AdsmInvariant, PTL DEF AdsmSpec, ImplementsLazy, Spec

(* releaseObjects leaves no block that the kernel uses to be flushed while   *)
(* it runs, in either form of launch, and no object stays marked as released *)
(* after its launch, when no transfer fails.                                 *)
THEOREM LaunchesRelease ==
    ASSUME Disciplined, ~TransfersFail
    PROVE  AdsmSpec => [](AdsmTypeOK /\ KernelBlocksReleased /\ ObjectsTakenBack)
<1>1. AdsmInv => AdsmTypeOK /\ KernelBlocksReleased
  BY DEF AdsmInv, LentReleased, KernelBlocksReleased, Ready
<1>2. AdsmInv => ObjectsTakenBack
  BY DEF AdsmInv, AtRest, ObjectsTakenBack
<1> QED BY <1>1, <1>2, AdsmInvariant, PTL

(* Kernels find what the host wrote, and the program, once it has            *)
(* synchronised, what the kernels wrote, when no transfer fails.             *)
THEOREM LaunchesCoherent ==
    ASSUME Disciplined, ~TransfersFail
    PROVE  AdsmSpec => [](KernelDataCurrent /\ SynchronizedReadsCurrent)
<1>1. AcceleratorCurrent => KernelDataCurrent
  BY DEF AcceleratorCurrent, KernelDataCurrent
<1>2. AdsmInv /\ ReadablePagesCurrent => SynchronizedReadsCurrent
  BY DEF AdsmInv, LentReleased, ReadablePagesCurrent, SynchronizedReadsCurrent, live
<1>3. Spec => [](AcceleratorCurrent /\ ReadablePagesCurrent)
  BY CopiesCoherent, PTL
<1>4. AdsmSpec => Spec
  BY LaunchesImplementLazy DEF ImplementsLazy
<1> QED BY <1>1, <1>2, <1>3, <1>4, AdsmInvariant, PTL
===============================================================================
