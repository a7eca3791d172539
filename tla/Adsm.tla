--------------------------------- MODULE Adsm ---------------------------------
(***************************************************************************)
(* Kernel launches of one execution mode: gmacLaunch, the call of an       *)
(* OpenCL kernel, gmacThreadSynchronize and gmacMigrate (hpe/gmac.cpp,     *)
(* core/hpe/Mode.cpp) over memory::Manager, the flags of Object and        *)
(* ObjectMap that say when blocks need be moved, and the Lazy protocol.    *)
(*                                                                         *)
(* The actions are those of module Lazy under the conditions in which the  *)
(* library performs them.  A launch that lists no object stands for all    *)
(* objects of the mode (CUDA); an OpenCL kernel lists the objects among    *)
(* its arguments, each with a protection.  An object has one block: the    *)
(* manager treats the blocks of an object alike.  The program never        *)
(* accesses data that a kernel it has launched may write, nor writes data  *)
(* the kernel may read, until it has synchronised.                         *)
(*                                                                         *)
(* A transfer that fails stops a loop over all objects (forEachObject),    *)
(* and not one over listed objects.  The program goes on after a write     *)
(* fault that fails, which is more than the code lets it do: its handler   *)
(* ends the program.                                                       *)
(***************************************************************************)
EXTENDS Lazy

CONSTANTS
    Launches,       \* forms of launch used: "all", "listed"
    Disciplined,    \* the program follows the rules under "Discipline" below
    Migrates        \* the program calls gmacMigrate

ASSUME LaunchesAssumption == Launches \subseteq {"all", "listed"}
ASSUME ProgramAssumption == Disciplined \in BOOLEAN /\ Migrates \in BOOLEAN

Phases == {"host", "releasing", "launching", "running", "acquiring", "unmapping", "mapping"}

VARIABLES
    released,       \* Object::released_
    modified,       \* ObjectMap::modifiedObjects_
    mapReleased,    \* ObjectMap::releasedObjects_
    phase,          \* progress of the launch or of the migration
    launch,         \* its form, "none" outside launches
    declared,       \* protections listed with the objects of the launch
    uses,           \* what the kernel of the launch does with each block
    todo            \* blocks a loop of the manager has not reached yet

managerVars == <<released, modified, mapReleased, phase, launch, declared, uses, todo>>

AdsmTypeOK ==
    /\ TypeOK
    /\ released \in [Blocks -> BOOLEAN]
    /\ modified \in BOOLEAN
    /\ mapReleased \in BOOLEAN
    /\ phase \in Phases
    /\ launch \in {"none", "all", "listed"}
    /\ declared \in [Blocks -> Protections]
    /\ uses \in [Blocks -> Uses]
    /\ todo \subseteq Blocks

NoUse == [b \in Blocks |-> "none"]

AdsmInit ==
    /\ Init
    /\ released = [b \in Blocks |-> FALSE]
    /\ modified = FALSE
    /\ mapReleased = FALSE
    /\ phase = "host"
    /\ launch = "none"
    /\ declared = NoUse
    /\ uses = NoUse
    /\ todo = {}

-------------------------------------------------------------------------------
(* Discipline.  Programs for which launches of all objects are coherent: they *)
(* modify some object between two launches that use objects, and none between *)
(* such a launch and its synchronisation.                                     *)

MayModify == Disciplined => phase = "host" \/ launch = "listed"

MayLaunchAll == Disciplined => modified \/ uses' = NoUse

-------------------------------------------------------------------------------
(* Accesses and allocations of the program.                                  *)

\* "Nobody can enter GMAC until this has finished" (Mode::moveTo).
Migrating == phase \in {"unmapping", "mapping"}

\* ObjectMap::modifiedObjects.
ModifiedObjects ==
    /\ modified' = TRUE
    /\ mapReleased' = FALSE
    /\ UNCHANGED <<released, phase, launch, declared, uses, todo>>

\* Object::signalRead.
ReadFault(b) ==
    /\ ~Migrating
    /\ uses[b] # "write"
    /\ \E ok \in Outcomes : SignalRead(b, ok)
    /\ UNCHANGED managerVars

\* Object::signalWrite.
WriteFault(b) ==
    /\ ~Migrating
    /\ MayModify
    /\ uses[b] = "none"
    /\ SignalWriteDirty(b) \/ \E ok \in Outcomes : SignalWrite(b, ok)
    /\ ModifiedObjects

Store(b) ==
    /\ uses[b] = "none"
    /\ HostStore(b)
    /\ UNCHANGED managerVars

\* The loop of addDirty goes on, whoever is running it.
LoopStep ==
    /\ Evict \/ AddDirtyReturns
    /\ UNCHANGED managerVars

\* Manager::memset, memcpy, toIOBuffer and fromIOBuffer.
BulkCall(b) ==
    /\ phase \in {"host", "running"}
    /\ BulkAccess(b)
    /\ UNCHANGED managerVars

\* Manager::alloc with ObjectMap::addObject; the new Object is not released.
AllocObject(b) ==
    /\ phase \in {"host", "running"}
    /\ MayModify
    /\ Alloc(b)
    /\ modified' = TRUE
    /\ mapReleased' = FALSE
    /\ released' = [released EXCEPT ![b] = FALSE]
    /\ UNCHANGED <<phase, launch, declared, uses, todo>>

\* Manager::free with ObjectMap::removeObject.
FreeObject(b) ==
    /\ phase \in {"host", "running"}
    /\ declared[b] = "none"
    /\ Free(b)
    /\ UNCHANGED managerVars

-------------------------------------------------------------------------------
(* Launches that list no object.                                             *)

\* gmacLaunch and Manager::releaseObjects without addresses, up to the loop of
\* LazyBase::releaseAll, which only a modified map runs.
LaunchAll(u) ==
    /\ "all" \in Launches
    /\ phase = "host"
    /\ \A b \in Blocks \ live : u[b] = "none"
    /\ uses' = u
    /\ MayLaunchAll
    /\ launch' = "all"
    /\ IF modified
       THEN /\ released' = [b \in Blocks |-> released[b] \/ b \in live]
            /\ phase' = "releasing"
            /\ ReleaseAll
       ELSE /\ Idle
            /\ phase' = "launching"
            /\ UNCHANGED <<vars, released>>
    /\ UNCHANGED <<modified, mapReleased, declared, todo>>

FlushStep ==
    /\ phase = "releasing"
    /\ launch = "all"
    /\ Flush
    /\ UNCHANGED managerVars

\* releaseAll returns and ObjectMap::releaseObjects is called.
AllReleased ==
    /\ phase = "releasing"
    /\ launch = "all"
    /\ ReleaseAllReturns
    /\ mapReleased' = TRUE
    /\ phase' = "launching"
    /\ UNCHANGED <<released, modified, launch, declared, uses, todo>>

-------------------------------------------------------------------------------
(* Launches that list the objects among the arguments of the kernel.         *)

\* The call of an OpenCL kernel; p is the protection given with each object
\* that is an argument, "none" for the others.
LaunchListed(u, p) ==
    /\ "listed" \in Launches
    /\ phase = "host"
    /\ Idle
    /\ p # NoUse
    /\ \A b \in Blocks :
         /\ p[b] # "none" => b \in live
         /\ u[b] = "write" => p[b] = "rw"
         /\ u[b] = "read" => p[b] # "none"
    /\ phase' = "releasing"
    /\ launch' = "listed"
    /\ declared' = p
    /\ uses' = u
    /\ todo' = {b \in Blocks : p[b] # "none"}
    /\ UNCHANGED <<vars, released, modified, mapReleased>>

\* Manager::releaseObjects reaches a listed object: Object::releaseBlocks,
\* after which the object counts as released whether or not its transfer has
\* failed.  The launch goes on, as the result of releasedAll replaces the error.
ReleaseListed(b) ==
    /\ phase = "releasing"
    /\ b \in todo
    /\ IF released[b]
       THEN Idle /\ UNCHANGED vars
       ELSE \E ok \in Outcomes : ReleaseBlock(b, ok)
    /\ released' = [released EXCEPT ![b] = TRUE]
    /\ todo' = todo \ {b}
    /\ UNCHANGED <<modified, mapReleased, phase, launch, declared, uses>>

\* Mutant: the kernel does not wait for the listed objects to be released.
ListedReleasedEarly ==
    /\ phase = "releasing"
    /\ launch = "listed"
    /\ ReleasedAll
    /\ phase' = "launching"
    /\ mapReleased' = TRUE
    /\ UNCHANGED <<released, modified, launch, declared, uses, todo>>

ListedReleased ==
    /\ phase = "releasing"
    /\ launch = "listed"
    /\ todo = {}
    /\ ReleasedAll
    /\ phase' = "launching"
    /\ mapReleased' = TRUE
    /\ UNCHANGED <<released, modified, launch, declared, uses, todo>>

-------------------------------------------------------------------------------
(* The kernel, and the synchronisation with it.                              *)

\* Mode::execute: the kernel starts, whatever has been released.
Execute ==
    /\ phase = "launching"
    /\ Idle
    /\ lent' = uses
    /\ phase' = "running"
    /\ UNCHANGED <<state, prot, faults, current, refs, dbl, limit, call>>
    /\ UNCHANGED <<released, modified, mapReleased, launch, declared, uses, todo>>

KernelStep(b) ==
    /\ phase = "running"
    /\ KernelWrite(b)
    /\ UNCHANGED managerVars

\* Mutant: listed objects are left to the program.
AcquiredAllOnly == IF launch # "listed" /\ modified /\ mapReleased THEN live ELSE {}

\* The blocks Manager::acquireObjects acquires: none for a launch of all
\* objects unless the map has been modified and released.
Acquired ==
    CASE launch = "listed" -> {b \in Blocks : declared[b] # "none"}
      [] launch # "listed" /\ modified /\ mapReleased -> live
      [] OTHER -> {}

\* gmacThreadSynchronize: the kernel has finished.  A call without a launch
\* since the last one acquires the objects of the mode.
Synchronize ==
    /\ phase \in {"host", "running"}
    /\ Idle
    /\ launch' = IF phase = "host" THEN "all" ELSE launch
    /\ todo' = Acquired
    /\ phase' = "acquiring"
    /\ UNCHANGED <<vars, released, modified, mapReleased, declared, uses>>

\* Mutant: Object::acquire does not clear released_.
AcquireObjectStaysReleased(b) ==
    /\ phase = "acquiring"
    /\ b \in todo
    /\ Acquire(b, IF launch = "all" THEN "rw" ELSE declared[b])
    /\ todo' = todo \ {b}
    /\ UNCHANGED <<released, modified, mapReleased, phase, launch, declared, uses>>

\* Manager::acquireObjects reaches an object: Object::acquire.
AcquireObject(b) ==
    /\ phase = "acquiring"
    /\ b \in todo
    /\ IF released[b]
       THEN Acquire(b, IF launch = "all" THEN "rw" ELSE declared[b])
       ELSE /\ Idle
            /\ lent' = [lent EXCEPT ![b] = "none"]
            /\ UNCHANGED <<state, prot, faults, current, refs, dbl, limit, call>>
    /\ released' = [released EXCEPT ![b] = FALSE]
    /\ todo' = todo \ {b}
    /\ UNCHANGED <<modified, mapReleased, phase, launch, declared, uses>>

\* acquireObjects returns, after ObjectMap::acquireObjects if it acquired the
\* objects of the mode, and the program may access the data of the kernel.
SynchronizeReturns ==
    /\ phase = "acquiring"
    /\ todo = {}
    /\ Idle
    /\ IF launch = "all" /\ modified /\ mapReleased
       THEN modified' = FALSE /\ mapReleased' = FALSE
       ELSE UNCHANGED <<modified, mapReleased>>
    /\ lent' = NoUse
    /\ uses' = NoUse
    /\ declared' = NoUse
    /\ launch' = "none"
    /\ phase' = "host"
    /\ UNCHANGED <<state, prot, faults, current, refs, dbl, limit, call, released, todo>>

-------------------------------------------------------------------------------
(* Migration to another accelerator, when no kernel is running.              *)

\* Mode::moveTo.
Migrate ==
    /\ Migrates
    /\ phase = "host"
    /\ Idle
    /\ phase' = "unmapping"
    /\ todo' = live
    /\ UNCHANGED <<vars, released, modified, mapReleased, launch, declared, uses>>

\* forEachObject reaches no other object after one whose transfer has failed,
\* and Mode::moveTo does not look at its result.
UnmapObject(b) ==
    /\ phase = "unmapping"
    /\ b \in todo
    /\ \E ok \in Outcomes :
          /\ UnmapFromAccelerator(b, ok)
          /\ todo' = IF ok \/ state[b] # "Invalid" THEN todo \ {b} ELSE {}
    /\ UNCHANGED <<released, modified, mapReleased, phase, launch, declared, uses>>

AllUnmapped ==
    /\ phase = "unmapping"
    /\ todo = {}
    /\ phase' = "mapping"
    /\ todo' = live
    /\ UNCHANGED <<vars, released, modified, mapReleased, launch, declared, uses>>

\* LazyBase::mapToAccelerator asserts that the block is HostOnly: the model
\* stops at an object that the unmapping has not reached.
MapObject(b) ==
    /\ phase = "mapping"
    /\ b \in todo
    /\ MapToAccelerator(b)
    /\ todo' = todo \ {b}
    /\ UNCHANGED <<released, modified, mapReleased, phase, launch, declared, uses>>

MigrateReturns ==
    /\ phase = "mapping"
    /\ todo = {}
    /\ Idle
    /\ phase' = "host"
    /\ UNCHANGED <<vars, released, modified, mapReleased, launch, declared, uses, todo>>

-------------------------------------------------------------------------------

ProgramStep(b) ==
    \/ ReadFault(b)
    \/ WriteFault(b)
    \/ Store(b)
    \/ BulkCall(b)
    \/ AllocObject(b)
    \/ FreeObject(b)

LaunchStep(b) ==
    \/ ReleaseListed(b)
    \/ KernelStep(b)
    \/ AcquireObject(b)

MigrateStep(b) ==
    \/ UnmapObject(b)
    \/ MapObject(b)

AdsmNext ==
    \/ LoopStep
    \/ \E u \in [Blocks -> Uses] : LaunchAll(u)
    \/ \E u \in [Blocks -> Uses], p \in [Blocks -> Protections] : LaunchListed(u, p)
    \/ FlushStep
    \/ AllReleased
    \/ ListedReleased
    \/ Execute
    \/ Synchronize
    \/ SynchronizeReturns
    \/ Migrate
    \/ AllUnmapped
    \/ MigrateReturns
    \/ \E b \in Blocks : ProgramStep(b) \/ LaunchStep(b) \/ MigrateStep(b)

AdsmSpec == AdsmInit /\ [][AdsmNext]_<<vars, managerVars>>

-------------------------------------------------------------------------------
(* Properties.                                                               *)

(* releaseObjects has released "the CPU ownership of all objects bound to    *)
(* the current execution mode" (Manager.h), or of those listed: no block     *)
(* that a running kernel uses still has its data in host memory alone, to be *)
(* flushed over what the kernel computes.                                    *)
KernelBlocksReleased ==
    \A b \in Blocks : lent[b] # "none" => state[b] \in {"ReadOnly", "Invalid"}

(* A launch of all objects starts its kernel when every release has          *)
(* succeeded, even where transfers fail: the loop over the list ends no      *)
(* sooner.                                                                   *)
AllLaunchesReleased == launch = "all" => KernelBlocksReleased

(* A launch and its synchronisation, or a migration, leave no object marked  *)
(* as released, whatever failed on the way: the next launch that lists the   *)
(* object would skip its release.                                            *)
ObjectsTakenBack == phase = "host" => \A b \in live : ~released[b]

(* A running kernel finds in accelerator memory the last value written to    *)
(* each block it uses, by the host or by the kernels before it.              *)
KernelDataCurrent ==
    \A b \in Blocks : lent[b] # "none" => "acc" \in current[b]

(* acquireObjects gets "the CPU ownership of all objects bound to the        *)
(* current execution mode" (Manager.h): once the program has synchronised,   *)
(* no page it can read without a fault is older than what a kernel wrote.    *)
SynchronizedReadsCurrent ==
    phase = "host" => \A b \in live : prot[b] # "none" => "host" \in current[b]

(* Every step of a launch is one the Lazy protocol allows: the manager uses  *)
(* the protocol as a client must, so that what is proved of the protocol     *)
(* holds for launches.                                                       *)
ImplementsLazy == Spec
===============================================================================
