# A TLA+ model of ADSM/GMAC

GMAC gives a program and its accelerators one address space. An object that
the program allocates has a copy in host memory and a copy in accelerator
memory. The library keeps the two coherent in software: it protects the pages
of the host copy, takes the page faults, and moves blocks of data when the
program faults, launches a kernel or waits for one. This directory models the
code under `src/src` that decides *when* data move, *which bytes* move, *under
which locks*, and how the memory, buffers and modes involved change hands.

Paths below are relative to `src/src`.

## 1. Inventory

| Component | State | Operations | Interacts with | Modelled in |
|---|---|---|---|---|
| Lazy/Rolling protocol, `memory/protocol/Lazy.cpp` | per block: state, protection, write-fault count, references; `dbl_`, `limit_` | `signalRead`, `signalWrite`, `acquire`, `release`, `releaseAll`, `releasedAll`, `flushDirty`, `toHost`, `mapToAccelerator`, `unmapFromAccelerator`, `deleteBlock`, bulk copies | called by blocks under their lock; moves data through blocks; calls `coherenceOp` on blocks of its list | `Lazy` (all of it) |
| Dirty Block List, `protocol/common/BlockList-impl.h` | list of blocks, spin lock, a reference of each block pushed | `push`, `front`, `remove`, `empty`, `size` | the protocol's mutex covers the loops over it but not `remove` | `Lazy`, `LazyThreads` |
| Blocks, `memory/Block-impl.h`, `GenericBlock-impl.h` | mutex, owner, copies | `signalRead/Write`, `coherenceOp`, `memoryOp`, `copyOp`, transfers | objects above, protocol and modes below | `Lazy`, `LazyThreads` |
| Objects, `memory/Object*`, `BlockGroup-impl.h` | blocks, `released_`, RW lock, owner | `acquire`, `release`, `releaseBlocks`, `signalRead/Write`, `map/unmap…Accelerator`, `memcpyToObject`, `memcpyFromObject`, `memcpyObjectToObject` | the manager above; `modifiedObject` calls the map of the owner back; I/O buffers | `Adsm`, `LazyThreads`, `RangeCopy` |
| Object maps, `memory/ObjectMap*`, `core/hpe/AddressSpace.cpp` | objects by address, `modifiedObjects_`, `releasedObjects_`, RW lock | `addObject`, `removeObject`, `forEachObject`, flag updates, `mapFind` | one per mode, plus the shared, global and orphan maps of the process | `Adsm`, `LazyThreads`, `RangeCopy` (`mapFind`) |
| Manager, `memory/Manager.cpp` | none of its own | `alloc`, `globalAlloc`, `free`, `acquireObjects`, `releaseObjects`, `memset`, `memcpy`, I/O buffer calls, signals | entry point of every API call and of the fault handler | `Adsm`, `Lazy`, `RangeCopy` |
| Launch API, `hpe/gmac.cpp`, `api/opencl/hpe/gmac.cpp.in` | the kernel launch | `gmacLaunch`, OpenCL call, `gmacThreadSynchronize`, `gmacMigrate` | manager, then accelerator | `Adsm` |
| Modes and process, `core/hpe/{Mode,Process,Context}.cpp` | map of modes, references, contexts | `moveTo`, `createMode`, `removeMode`, `initThread`, `finiThread` | threads, queues | `Adsm` (`moveTo`), `ModeQueues` |
| Mode queues, `core/hpe/Queue.cpp`, `util/posix/Semaphore-impl.h` | queue of modes and a semaphore per thread, map of queues | `gmacSend`, `gmacReceive`, `gmacSendReceive`, `gmacCopy` | the two counts of the users of a mode | `ModeQueues` |
| Locks, `util/posix/Lock-impl.h` | holders | spin lock, mutex, RW lock | all of the above | `LazyThreads` |
| Buddy allocator, `util/allocator/Buddy.cpp` | free chunks by size | `get`, `put`, `getFromList`, `putToList` | pinned memory of a mode | `IOMemory` |
| I/O buffers, `core/IOBuffer*`, `api/cuda/hpe/Mode.cpp` | buffers, pinned or not, idle or in a transfer | `createIOBuffer`, `destroyIOBuffer`, `wait` | copies of objects use two of them | `IOMemory`, `RangeCopy` |
| Slab allocator, `memory/allocator/{Slab,Cache}.cpp` | caches by mode and call site, arenas, map of addresses | `gmacMalloc` and `gmacFree` of small objects | arenas are objects of the manager | `SlabCache` |
| `HostMappedObject`, fault handler, library interposition, OpenCL lite, CUDA/OpenCL back ends, VM bitmap, Gather, sub-block tree, contexts, tracing, DBC | | | | section 8 |

What makes the code hard:

* **Two copies, one deferred update.** A page fault changes the state of a
  block, its protection and a list in separate calls. A page left writable by
  one path out of ten loses stores without any error.
* **Flags instead of state.** A launch and a synchronisation decide whether to
  touch any block from two flags of the map and one of each object. Faults,
  allocations and the other form of launch write the same flags.
* **Four levels of locks** taken in two orders: downwards (map, object, block,
  protocol) by API calls, and back up (object to map, protocol to block) by the
  fault handler and by the loops over the Dirty Block List.
* **Failing transfers**, after which the handlers have already changed half
  of the block, the loops over the list come round to the same block, and a
  launch may go on.
* **References that nobody counts together**: the list takes one when a block is
  pushed and gives one up whenever somebody looks at its front.
* **A limit that adapts**: `limit_` grows with repeated faults and is halved
  by launches, while the list it bounds shrinks only in other places.
* **Ranges cut three ways** (objects, blocks, buffers), with two buffers of
  which one is filled while the other is on its way.
* **Objects handed over between threads**: modes through queues, whose map is
  locked while a thread waits; small objects freed by another thread than the
  one whose cache they are from.

Correctness, per component: the protocol never lets a reader, host or
accelerator, see an old value and lists exactly the Dirty blocks; the manager
releases everything that a kernel uses before it starts and acquires
everything it wrote before the program goes on; a bulk copy puts each byte
where it belongs and touches no other; threads inside the library neither wait
in a circle nor break the list under each other's loops; a mode dies with its
last user; no byte of pinned memory and no object of an arena is lost or lent
twice.
`PROJECT.json` lists the hazards line by line.

## 2. Modules

```
Lazy  <--EXTENDS--  Adsm           launches, synchronisation, migration
  ^                   (ImplementsLazy: AdsmSpec => Spec of Lazy)
  |
  +-- Lazy_proofs                          theorems
Adsm, Lazy_proofs  <--  Adsm_proofs        theorems about launches

LazyThreads  <--  LazyThreads_proofs       the same calls, split at every lock
Facts  <--  Lazy_proofs, LazyThreads_proofs, RangeCopy_proofs, IOMemory_proofs
                                           numbers, lists without repetitions

RangeCopy  --implements-->  ByteCopies     memcpy and memset
RangeCopy  <--  RangeCopy_proofs
IOMemory   --implements-->  BufferPool     pinned memory for I/O buffers
IOMemory   <--  IOMemory_proofs
ModeQueues  <--  ModeQueues_proofs         exchange of modes
SlabCache   <--  SlabCache_proofs          small objects

MC*                                instances for TLC
```

`RangeCopy` and `IOMemory` each contain `Contract == INSTANCE ... WITH ...` of
the abstract module beside them, which sees the variables that callers can tell
apart (memory and the call in `ByteCopies`, the buffers in `BufferPool`), and the
property `KeepsContract == Contract!Spec`. `Adsm` is itself a refinement of
`Lazy`: it calls its actions.

### Lazy

One execution mode. The blocks of `Blocks` come and go (`Alloc`, `Free`). The
data of a block are abstracted to `current[b]`: which of the two copies holds
the last value written to every byte. A whole transfer makes the target as
current as the source; a write to one copy makes the other old; a partial
write keeps what was current only where it lands.

| State | Code |
|---|---|
| `state`, `prot`, `faults` | `lazy::BlockState::state_`, the protection its `protect` calls have set, `faultsCacheWrite_` |
| `dbl`, `limit` | `LazyBase::dbl_`, `limit_` |
| `refs` | `Reference::ref_` of the `Block` |
| `call` | which loop over `dbl_` is running, `addDirty` or `releaseAll`; `"undefined"` once a loop has destroyed the block it took |
| `lent` | what the running kernel may do with a block |

Each action is a handler of `Lazy.cpp` with the conditions and failure paths of
the source. `ok` is the result of its transfer. The two loops over the list are
the exception: each iteration is a step (`Evict`, `Flush`), so stores of the
program and writes of a kernel interleave with them. The constants choose the
protocol (`Eager`: Rolling or Lazy), the build (`HostFirst`: `USE_OPENCL`) and
whether transfers fail.

The environment is constrained as little as the API allows: a kernel gets only
blocks that have been released (`Lend`), the program does not touch what a
running kernel writes, and does not write what it reads.

`Release(b, ok)` when `ok` is FALSE leaves the pages read-only and the block
Dirty and listed: `release` protects first and breaks before the state changes.
The loops then find it at the front again. But `front()` gives up a reference
each time it is called (`BlockList-impl.h:54`). A block has one of its object and
one of the list; the first `front()` takes the second, and if the release fails
and the loop goes round, the next `front()` takes the first and destroys the
block (`Reference-impl.h:55-62`). `ReleaseFront`, the body of both loops, does
that. What the code does with a destroyed block is undefined, so the model stops
there (`call = "undefined"`), and the properties of the list speak of the time
before. `remove` gives up no reference: each release of a listed block outside the
loops leaves its count one higher, which `MaxRefs` bounds.

`CopyBlock` writes out the nine cases of `copyBlockToBlock` as the list of
transfers they make, in order, and stops where the code stops.

Every block has one owner. The code of a block can keep several, for objects
replicated on all accelerators, but none ever exists: `Manager::globalAlloc`
(`Manager.cpp:166-192`) replicates an object and then asks for its `addr()`,
which is NULL until the object has been mapped (`Object-impl.h:19`); it always
takes the error path and falls back to host-mapped memory, which needs no
coherence.

### Adsm

The actions of `Lazy` under the conditions in which `Manager` performs them.
It adds the three flags (`released`, `modified`, `mapReleased`), the progress
of a launch or a migration (`phase`, `todo`), the form of the launch and what
it declares. Launching all objects is CUDA's and C's `gmacLaunch`; listing
objects with a protection is the call of an OpenCL kernel. An object has one
block, which is what the manager sees of it: it always treats all blocks of an
object alike. A thread synchronising without a launch is allowed.

`Disciplined` restricts the program to what launches of all objects need to be
coherent: something has been modified since the last synchronisation, or the
kernel uses no object; and nothing is modified between such a launch and its
synchronisation. Without it `adsm_sync` finds old values (section 5).

`ImplementsLazy` is the refinement: every step of a launch is a step that
`Lazy` allows. It is what carries the theorems about `Lazy` over to launches.
It is not free: a release that does not finish before the kernel starts, or
one that skips a Dirty object, breaks `Lend`. It holds when no transfer fails.

Transfers fail here too (`TransfersFail`), and the manager does different things
about it. A loop over all objects (`forEachObject`: migration) stops at the
first one that fails; `moveTo` does not look at the result. A launch that lists
objects marks each as released whatever its transfer did (`Object-impl.h:126-131`),
and the last line that sets its result replaces the error (`Manager.cpp:347`):
`ReleaseListed`. A launch of all objects runs the loop of `releaseAll`, which
ends with an empty list or not at all. `AllLaunchesReleased` and
`ObjectsTakenBack` are what remains true; section 5 has what does not. The
model stops where the code asserts that what it maps again is HostOnly.

### LazyThreads

Threads inside the library, split at every acquisition of a lock. A program
counter names the place. `Request(t)` is the lock a thread is about to take,
`Granted(t)` that nobody keeps it from doing so, `held` what threads hold. Only
what the locks protect is left of the data: which blocks are Dirty, the lists
and the limits.

| Call | Locks in order |
|---|---|
| write fault (`Manager::signalWrite`) | owner's map (read, dropped); object (read); map of the owner (write, dropped); block; protocol; blocks at the front of the list |
| launch of all objects | own map (read, with each object's write lock in turn, dropped); own protocol, then global protocol, each with the blocks of its list; own map (write) |
| launch that lists an object | map (read, dropped); object (write); block; the two protocols in turn; own map (write) |
| synchronisation | own map (read) with each object (write) and its block; own map (write) |

The spin lock of the Dirty Block List and the shared and global maps that
`Process::owner` reads are held for a single operation and take nothing else,
so each operation on them is part of a step. The handler's first lookup of the
owner takes the object's read lock and drops it while it holds nothing; it is
merged with the second one in `Enter`.

Two threads share a mode, which `gmacCopy` makes possible, and a third has a
mode of its own but faults on the objects of the first two. Used freely, these
calls deadlock (section 5). `Disciplined` is what keeps them apart: no thread
writes an object while another launches a kernel of its mode or synchronises
with one (`MayWrite`, `MayLaunch`), and a launch that lists its objects lists
those of its own mode (`AddressSpace::getObject` also finds objects of the shared
map, whose blocks another mode's protocol may be working on) and has the mode for
itself (`MayLaunchListed`: `releaseBlocks` removes blocks from `dbl_`
without the mutex of the protocol, so another thread's loop can find the list
empty between its condition and `front()`). Write faults run against each
other, and launches and synchronisations of one mode against each other,
without restriction.

### RangeCopy and ByteCopies

`Manager::memcpy` and `memset` of one thread. Memory is a function from
addresses to names of bytes; at the start of a call every byte is named after
its address, so that where a byte came from can be told afterwards.
`ByteCopies` is the promise: bytes of the destination get their value one after
another in any order, nothing else changes, and the call returns only when all
have it.

| State | Code |
|---|---|
| `offset`, `dstObject`, `srcObject` | the locals of the loops of `Manager.cpp:520-680` |
| `job` | the locals of a copy of an object (`Object.cpp:60-300`): next addresses, bytes left, chunk, buffer size, and the two block indices of the fast path |
| `buffer`, `flight`, `active` | the two I/O buffers, the transfer each is in, `active`/`passive` |

A transfer between an object and a buffer takes effect at any time until the
code waits for the buffer (`Transfer`); starting another on the same buffer
waits for the first, as `copyToBuffer` and `copyFromBuffer` do. `fast` is the
path between blocks of one accelerator, which needs no buffer.

Ranges lie in memory, and those of a `memcpy` do not overlap
(`RequestsAssumption`). Beyond that, `range_copy` makes every `memcpy` through
buffers, whether or not its ranges go on past the objects they touch; those on
the fast path that begin, in each pair of objects they reach, no closer to the
begin of a source block than of a destination block (`StartsInStep`; without it
`range_copy_fast` fails); and sets that begin in an object or touch none (others
go on with a NULL object: section 5, observations).

A `memcpy` that goes on past the end of an object does not return: the loop looks
for another object only when the last one ends *before* the address it has come
to, and at that end itself it finds nothing to copy (section 5). What
`KeepsContract` says of such a call is that every byte it has put is right.
`CallsReturn` speaks of the calls that stop with the objects they touch
(`Ending`), so that within them the lookup of `Manager.cpp:640` never finds
another object; `CallsAdvance` speaks of all calls, but only of steps that change
something, which standing still is not.

`TransfersInBlocks` is about chunks: `memoryOp` never gets bytes of two blocks,
because a chunk of a copy between objects that takes bytes of two source blocks
is loaded in two parts (`FirstPart`).

### ModeQueues

Threads are created, hand modes to each other, and end. A step is what a thread
does under one lock; `QueueMap::push` and `pop` keep the read lock of the map of
queues over several steps (`readers`), which is what `InitThread` and `Erase`
wait for.

| State | Code |
|---|---|
| `queues`, `queue`, `sem` | `QueueMap`, `Queue::_queue`, `Semaphore::_val` |
| `refs`, `entries` | the reference count of a mode, its count in `ModeMap` |
| `current` | `Thread::currentMode_` |

`CountsExact` relates both counts of a mode to those who hold it (`Holders`: threads
that use it and entries of queues), apart from copies that wait to be counted, and
says that a mode with a holder has a reference left.

`Disciplined` stands for what a program must arrange with means of its own:
modes are sent to threads that exist and receive them before they end, a thread
receives only without a mode and once all threads have begun, and it does not
end while its mode is being copied. The library checks none of this, and
`mode_queues_start` shows what happens without the second rule.

### IOMemory and BufferPool

One piece of pinned memory of a CUDA mode with the buddy allocator that divides
it. `tree` is `Buddy::_tree`; `Split` and `PutToList` are the effects of the
recursive `getFromList` and `putToList`, which run under one lock. Which free
chunk of a size is taken is left open. `Size[i]` is `1 << i`, as a function that
doubles; `Masked(off, i)` is `off & mask`; `Top(i, off)` is where the merging of a
returned chunk stops. `BufferPool` knows only the buffers in use: one is placed at
any free aligned range of its size, and in pageable memory only if there is none.

`FreeChunksMaximal` says which offsets `tree` holds, given the buffers alone: those
of the chunks that are unused and no half of a bigger unused chunk. Everything a
bug in splitting or merging could do shows there: a byte lost, a byte free twice,
two free buddies side by side.

### SlabCache

`gmacMalloc` of less than half a block and `gmacFree`, for threads with a mode
each and call sites that ask for any sizes below half a block (`SizesOf`).
`caches` are the caches of all modes; one is made for the first request of a mode
and call site, has the size of that request, and serves all later ones whatever
their size (`CacheFor`). `arenas[p]` is the cache that the block at place `p`
belongs to, `objects[p]` is `Arena::objects_`, `addresses` the map of `Slab`, and
`asked` how many bytes the program asked for at an address it has. An arena is
cut into objects wherever one begins within the block (`Objects`), so the last one
may end behind it. `Cache::get` gives up its lock between choosing an arena and
taking from it (`ChooseArena`, `Take`), and `Slab::free` erases the address and
returns the object under different locks (`EraseAddress`, `Put`); memory that one
cache gives up may become an arena of another in between. The order of the list
of objects in an arena is left open: any one may be the next.

`ArenasAccountFor` and `AddressesExact` speak of objects as the allocator sees
them, by their first byte, and hold for all sizes. `ObjectsApart` speaks of the
bytes the program asked for. It is claimed of the call sites that are `Regular`:
that ask for one size, which divides the block; what other sites ask for must not
matter to them. The library does nothing to make a site regular: `BytesOwned`, the
same of all sites, fails in two ways (section 5).

Excluded, and listed as a hazard: two threads inside one cache at once, one that
allocates and one that frees, where the dropped lock bites.

### Abstractions common to all modules

* `USE_SUBBLOCK_TRACKING` and `USE_VM` are off, as they are by default.
* A failing transfer moves nothing.
* A handler whose block has been unmapped before it runs is left out (listed
  as a hazard).

## 3. Runs

| Run | Shows | Bounds | States |
|---|---|---|---|
| `lazy_rolling` | the coherence and list invariants, the references of listed blocks, the bound on Dirty blocks and `AddedBlockStays` for Rolling in the CUDA build without failures | 3 blocks, threshold 1, `limit_` at most 4, 3 references | 704,020 |
| `adsm` | coherence of launches and `ImplementsLazy` for disciplined programs with both forms of launch and migrations | 2 objects, `limit_` at most 2 | 412,387 |
| `adsm_faults` | when any transfer may fail, in the OpenCL build: list exactness and `WritableListed` until a loop destroys a block, `AllLaunchesReleased` and `ObjectsTakenBack` | 2 objects, protocol Lazy | 1,567,057 |
| `lazy_threads` | no circular wait, the list is intact under loops, every call returns | 3 threads, 2 modes, 2 objects, `limit_` at most 2 | 148,017 |
| `range_copy` | `memcpy` and `memset` put no byte where it does not belong and return with none missing; no transfer is disturbed or crosses a block; every step leaves less to do; calls that stop with their objects return | 23 addresses, blocks of 4, two adjacent objects of 9 and 6 bytes, calls of 1 to 8 bytes | 33,078 |
| `mode_queues` | references and entries of a mode agree with its users, the semaphore with the queue; a sent mode is received | 3 threads, 1 mode, 2 references | 191,641 |
| `io_memory` | pinned memory implements `BufferPool`, and free chunks are as big as they can be | 8 units of memory, requests of 1 to 16, 1 pageable buffer | 12,461 |
| `slab_cache` | every small object is in one place and is found when it is freed, also when its size does not divide the block; the objects of a regular call site share no byte | blocks of 12, sizes 4 and 5, 2 threads, 2 call sites, 2 places | 183,464 |
| `adsm_sync`, `lazy_threads_shared`, `range_copy_fast`, `mode_queues_start` | the findings of section 5 | as above, without the discipline or the condition that section 5 names | |

Why the bounds are enough. With three blocks the list can be over its limit
with a block in the middle, a limit can be halved twice and a fourth block adds
no new relation between two entries. `MaxLimit` in `lazy_rolling` exceeds the
number of blocks, so lists shorter than, equal to and longer than the limit all
occur. It is a guard of the growing branch of `addDirty`: a fault that would
raise the limit further is not taken. The
threshold is 1: every fault raises the limit, which makes it move most. `MaxRefs` is a guard of
`addDirty`: with 3 a block is listed again once after a release that left its
reference behind. In `adsm` two objects are what it takes for a launch to
list one of them and leave the other alone. (Its type invariant is proved,
and is not part of the run.) In `lazy_threads` two threads on a
mode give every pair of calls on its map, and their two objects let one evict
the block another is working on; the third thread adds a fault from outside.

In `range_copy` the objects have blocks of 4, 4 and 1, and 4 and 2 bytes, with
host memory on both sides; eight bytes cover three blocks, the border of the
objects and both borders to host memory, so that a chunk that begins and ends in
the middle of a block, takes two source blocks, or is the last and short occurs,
and each buffer is used twice. `io_memory` has four sizes of chunks, so a chunk
is split and merged over three of them, and requests that do not fit at all.
`MaxPageable` bounds buffers that share nothing with each other. In
`mode_queues` a mode can be in the hands of a thread and in a queue, or in two
queues, while the third thread begins or ends; its own `MaxRefs` is a guard of
`gmacCopy`. In `slab_cache` two places let memory go from one cache to another
while the other place is in use; three and four objects make an arena neither
full nor empty, and objects of 5 in a block of 12 are three, of which the last
ends at 15.

Block names are symmetric in the runs of `Lazy` and `Adsm` and threads in those of
`SlabCache`, none of which is about liveness; the other runs use no symmetry. `mode_queues` and `mode_queues_start` do not check for deadlock: the
program is at its end when all threads are, and threads that wait in `gmacReceive`
for what nobody sends wait for ever. What must not wait is stated as
`ReceiveReturns`. `adsm_faults` does not either: it stops where a loop has destroyed
a block, or a migration would map an object that is not HostOnly. All other runs
check for it.

## 4. Fairness

`CallsReturn` of `LazyThreads` assumes weak fairness of each thread's work: a
thread whose next lock is free and stays free takes it. POSIX mutexes are not
fair, so a call may starve while others keep taking its lock. The property is
therefore about what happens once no new calls begin. It covers the loops over the
Dirty Block List, which end because each release takes a block off; transfers do
not fail there. A loop that meets a failed one does not try again: the second time
it takes the block it destroys it (section 5).

`CallsReturn` of `RangeCopy` assumes that the one thread runs on and that each
transfer that was started takes effect at last: it has been given to the
accelerator, which needs nothing of the thread. The calls it is about are those
whose ranges stop with the objects they touch; others stand still (section 5).

`ReceiveReturns` and `ThreadsStart` assume weak fairness of what each thread
does inside the library, and none of the calls it makes. A semaphore is
implemented with a condition variable that is signalled after every post, and
each thread waits for its own only.

## 5. Where the code departs from what it says

The four violation runs:

1. **`adsm_sync`** - `acquireObjects` does nothing unless the map is modified
   *and* released (`Manager.cpp:271`). An allocation or a write fault between
   launch and synchronisation resets one, a second launch without a write in
   between finds the other cleared. The program reads old values.
2. **`lazy_threads_shared`** - a write fault on another thread's object holds
   the object and wants the owner's map; the owner's launch holds the map and
   wants the object (`Object.cpp:384`).
3. **`range_copy_fast`** - the fast path between objects advances the source
   block after every copy, also when it was the destination block that ended
   (`Object.cpp:182`), and takes the next bytes from the wrong block.
4. **`mode_queues_start`** - a thread that waits in `gmacReceive` holds the read
   lock of the map of queues (`Process.cpp:82`), for whose write lock every new
   thread waits: whoever would send to it never begins.

All but the third need a program without the discipline. The following come from
boundaries that the properties of the passing runs name in their conditions. Each
has a configuration, under which TLC shows the property on the right violated in a
few seconds; they are kept beside the runs, for whoever changes the code there.

| Configuration | Module | Property |
|---|---|---|
| `MCLazyFront.cfg` | `MCLazy` | `FrontBlockExists` |
| `MCLazyDelete.cfg` | `MCLazy` | `DeletedUnreferenced` |
| `MCAdsmRelease.cfg` | `MCAdsm` | `KernelBlocksReleased` |
| `MCAdsmMigrate.cfg` | `MCAdsm` | `KernelBlocksReleased` |
| `MCRangeCopyPast.cfg` | `MCRangeCopy` | `ObjectReached` |
| `MCSlabCacheSizes.cfg`, `MCSlabCacheOverrun.cfg` | `MCSlabCache` | `BytesOwned` |

* *A failed release in a loop.* `front()` gives up a reference of the block at
  every call (`BlockList-impl.h:54`). A loop that comes round to a block whose
  release has failed takes its last reference, destroys it and works on it, and the
  list still names it. Alloc, a write fault and two iterations of `releaseAll` are
  enough.
* *A block freed while Dirty.* `deleteBlock` takes it off the list
  (`Lazy.cpp:310`) but leaves the list's reference: the `Block` is never destroyed.
* *A failed release in a listed launch* marks the object as released, and the
  error is replaced (`Manager.cpp:347`): the kernel starts over data that are in
  host memory alone.
* *A launch after a migration.* The migration makes all blocks Dirty without setting
  `modifiedObjects_` (`core/hpe/Mode.cpp:174`), so the next launch of all objects
  releases nothing. `tests/simple/gmac/cuda/gmacMigration.cu:55-58` is such a
  program. `api.h.in:130` restricts `gmacMigrate` to the first call of a thread,
  which neither the library nor that test keeps to.
* *A copy past the end of an object.* The loop of `memcpy` looks an object up again
  only when the last one ends *before* the current address (`Manager.cpp:640`):
  where a range goes on past the end of an object there is nothing to copy, for
  ever, or in a debug build the assertion of `Manager.cpp:600`. A copy over two
  adjacent objects never reaches the second.
* *A second size at a call site.* Its cache is found again whatever the size
  (`memory/allocator/Slab.cpp:35`): a request larger than the first one gets too
  few bytes and shares the rest with the next object.
* *A size that does not divide the block.* The last object of an arena ends behind
  the block (`memory/allocator/Cache.cpp:20`).

Other observations, made while reading and not stated by a run:

* `releaseAll` and `releasedAll` halve `limit_` although `releasedAll` flushes
  nothing (`Lazy.cpp:246, 275`): three Dirty blocks under a limit of four become
  three under two. What remains of the bound is twice the limit, which is proved.
* `break` in `unmapFromAccelerator` leaves the `switch` only (`Lazy.cpp:208`): a
  block whose transfer failed becomes HostOnly with old data.
* `copyBlockToBlock` from an Invalid to a ReadOnly block leaves it ReadOnly with
  different copies when its second transfer fails, and from a Dirty block hides
  the failure of the first.
* An object listed twice in a launch is acquired with its first protection;
  `gmacThreadSynchronize` without a launch, after a listed one, clears
  `modifiedObjects_` although unlisted blocks are Dirty.
* `memset` looks its first object up at the start of the range only; one that
  begins in host memory and reaches an object goes on with a NULL object
  (`Manager.cpp:531-535`).
* `toIOBuffer` and `fromIOBuffer` compute the offset into every object from the
  start of the range (`Manager.cpp:392, 437`); a copy between objects that fails
  returns without destroying its buffers (`Object.cpp:250`); the `read()` that
  interposes libc's returns an error code and not a count (`libs/posix/io.cpp:66`).
* `gmacMalloc` returns `gmacSuccess` with a NULL address when the slab allocator
  finds no memory (`hpe/gmac.cpp:199-201`).
* The piece of pinned memory that the buddy allocator manages is rounded up to a
  power of two, beyond what was allocated unless `GMAC_IOMEMORY` makes it one
  (`Buddy.cpp:10`).

## 6. Proofs

The theorems hold for every value of the constants that the named assumptions
admit. In `Lazy` these are: `RollThreshold` and `MaxLimit` positive, flags
Boolean, `MaxRefs` at least 2; `MaxLimit` and `MaxRefs` are bounds of the model,
and are arbitrary. In `SlabCache`: there is a place, and sizes are less than half a
block; sets of threads, call sites and places may be infinite. In `LazyThreads`: threads have a
mode and objects a home among the modes; all sets may be infinite. In
`ModeQueues`: there are finitely many threads. In `RangeCopy`: memory is finite,
blocks are a power of two, objects do not overlap, ranges lie in memory and those
of a copy do not overlap. In `IOMemory`: `MaxIndex`, which makes the size of the memory
any power of two, and `MaxPageable` are natural numbers.

Some theorems have a hypothesis about the program or its environment. Each is the
condition without which section 5 shows the property violated: `Disciplined` in
`Adsm`, `LazyThreads` and `ModeQueues`; no failing transfers for references and
coherence in `Lazy` and for everything in `Adsm`; in `RangeCopy` `AlignedRequests`
(a call that takes the fast path starts in step). The passing runs of these
properties satisfy them. What a
disciplined program gets when transfers do fail is checked by `adsm_faults` and
not proved.

| Theorem | Statement | Argument |
|---|---|---|
| `Lazy_proofs!TypeCorrect` | `Spec => []TypeOK` | inductive as it stands; `limit` stays at least 1 because it is halved only above 1 |
| `Lazy_proofs!DirtyListExact` | `Spec => []DirtyListed` | `TypeOK /\ DirtyListed` is inductive. Lemmas say what `Append` and `RemoveFirst` do to the elements of a list without repetitions. Holds with failing transfers until a loop has destroyed a block, of which it says nothing |
| `Lazy_proofs!FrontKeepsBlocks` | without failures: `Spec => [](ListHoldsReference /\ FrontBlockExists)` | each block has a reference, a listed one two (`HeldInv`), over the exact list: a release in a loop that succeeds takes the block off the list with the reference (`LoopReleases`) |
| `Lazy_proofs!DirtyBounded` | `Spec => []DirtyWithinTwiceLimit` | the bound is claimed only outside `addDirty`, and is inductive over `ListInv` (`TypeOK /\ DirtyListed`): outside the loop the list never grows, and the loop ends within the limit |
| `Lazy_proofs!AddedBlockSafe` | `Spec => AddedBlockStays` | while `addDirty` runs over its limit the list has at least two entries, because the limit is at least 1; removing the head keeps the last |
| `Lazy_proofs!CopiesCoherent` | without failures: `ReadOnlyBothCopies`, `AcceleratorCurrent`, `HostCurrent`, `ReadablePagesCurrent`, `ProtectionFollowsState` always hold | none of the five is inductive alone: a release needs the host copy to be current, an acquire needs the accelerator's, a store needs to know from the protection which state it hits. Taken together, block by block (`Coherent(b)`), with the fact that a lent block has been released and over the exact list, they are |
| `Adsm_proofs!LaunchesImplementLazy` | `AdsmSpec => ImplementsLazy`, when `Disciplined` and no transfer fails | `AdsmInv`, below |
| `Adsm_proofs!LaunchesRelease` | `AdsmSpec => [](AdsmTypeOK /\ KernelBlocksReleased /\ ObjectsTakenBack)`, same hypotheses | `AdsmInv` |
| `Adsm_proofs!LaunchesCoherent` | `KernelDataCurrent` and `SynchronizedReadsCurrent`, same hypotheses | the refinement carries `CopiesCoherent` over; `AdsmInv` says that no block is lent between launches |
| `LazyThreads_proofs!ThreadsTypeCorrect`, `ListUnderThreads` | `Spec => []TypeOK`, `Spec => []DirtyListed`, disciplined or not | `LockInv`, below |
| `LazyThreads_proofs!FrontAlwaysExists` | `Spec => []FrontExists` when `Disciplined` | `CallInv`, below |
| `LazyThreads_proofs!NoCircle` | `Spec => []NoCircularWait` when `Disciplined` | `CallInv` and a rank of the places where threads wait |
| `ModeQueues_proofs!SemaphoreExact` | `Spec => []SemaphoreCountsQueue`, disciplined or not | `QueueInv`: the semaphore is the length of the queue less the posts still to come and the receiver that has passed |
| `ModeQueues_proofs!QueuesTypeCorrect`, `ModesCounted` | `Spec => []TypeOK`, `Spec => []CountsExact` when `Disciplined` | `CountInv`, below |
| `RangeCopy_proofs!CopiesTypeCorrect`, `CallsKeepContract`, `BuffersFreeOfRaces` | `Spec => []TypeOK`, `Spec => KeepsContract` (the refinement of `ByteCopies`), `Spec => TransfersUndisturbed`, under `AlignedRequests` | `CopyInv`, below |
| `RangeCopy_proofs!LoopsAdvance` | `Spec => CallsAdvance` under the same condition | `CopyInv`: a step that changes anything copies, stores or starts some byte of a stretch or chunk, or comes closer to the next |
| `IOMemory_proofs!BuddyTypeCorrect`, `FreeMemoryMaximal` | `Spec => []TypeOK`, `Spec => []FreeChunksMaximal` | `IInv`, below |
| `IOMemory_proofs!MemoryMerges` | `Spec => [](pinned = {} => tree = Whole)` | `FreeChunksMaximal` without buffers: the piece itself is the only chunk that is no half of an unused one |
| `IOMemory_proofs!BuffersKeepContract` | `Spec => KeepsContract` (the refinement of `BufferPool`) | `IInv`: a new buffer has an unused chunk of the least size that is enough; and if some aligned range of that size were unused, a free chunk around it would have been found (`FreeAround`) |
| `SlabCache_proofs!SlabTypeCorrect` | `Spec => []TypeOK` | `IInv`, below |
| `SlabCache_proofs!ObjectsAccountedFor` | `Spec => []ArenasAccountFor` | `IInv` |
| `SlabCache_proofs!ObjectsFound` | `Spec => []AddressesExact` | `IInv` |
| `SlabCache_proofs!ObjectsStayApart` | `Spec => []ObjectsApart` | `SizesKept` over `IInv`: what a regular call site asks for is the size of its cache; two multiples of a size are at least the size apart (`MultiplesApart`) |

**Adsm.** `AdsmInv` says, phase by phase, what the flags mean for blocks. Its
parts: `AtRest` (between launches no live object is released), `AllOrNone` (a
launch of all objects has released every object and the map knows it, or none and
its kernel uses none: this is where the discipline enters), `ListedOnly` (a
listing launch has released exactly what it has reached), `KernelReady` (what has
been released for the kernel is not Dirty again when it starts), `LentReleased`,
`HostOnlyMigrating`, `ArgumentsLive` and `StillToDo`. `KernelReady` after a
launch of all objects rests on `DirtyListed`: an empty list means no Dirty
block. Without the discipline it is `AllOrNone` that fails.

**LazyThreads.** `DirtyListed` alone is not inductive: a step that lists or
unlists a block keeps it only because no other thread is about to do the same. So
`LockInv` reads off every place of every thread which locks it holds (`Well`), and
says that no two threads hold one block or one protocol (`Apart`). That needs no
discipline. `CallInv` adds what disciplined threads may do beside each other
(`Compatible`: in one mode all fault, or all walk over the objects) and what a loop
over the list may rely on (`OverList`): its condition stays true, its victim stays
at the head and the block just added stays last, although other threads mark blocks
Dirty and release them meanwhile. For `NoCircle` the places where a thread waits
have a `Rank`; a thread waits only for threads of lower rank. The object lock that
a walk takes under the map and a fault asks the map for are the two orders of
section 5: `Compatible` is what rules the second one out.

**ModeQueues.** The counts are sums over threads and queues. They are inductive in
the form *references = users + queued copies - copies not yet counted*; but to see
that a mode does not die early, one needs that it has more active users and queued
copies than copies that wait to be counted (`Counted`): the thread that copies is
itself a user until it has counted, because a disciplined program lets no thread
end, or give the mode away, in between. Lemmas say how the size of each of these
sets changes when one thread moves.

**RangeCopy.** `CopyInv` is `LoopInv`, for the loop of `Manager`, and `DataInv`,
for the bytes. `Issued` is the address up to which the destination has been stored
or handed to transfers. `MemoryRight`: every byte below it has its value or is
`Carried` by a transfer to an object; no other byte has changed. `BuffersRight`: a
buffer either is being loaded (`Loading`: each of its bytes is the one of the
source, or arrives with the transfer under way), or is on its way to an object with
bytes that belong there (`Outgoing`), or is idle; which of these, for which buffer,
depends on the place (`Loads`). `FlightsApart`: two transfers to objects do not
overlap. On the fast path nothing is in flight, and `InStep` says that the two
block counters are those of the addresses: that they remain so after a block of the
destination is what `StartsInStep` is for. The refinement then is short: a step
moves bytes to where they belong or leaves memory alone, and at the return nothing
is `Carried`. `CopyInv` was checked with TLC on the requests of `range_copy` before
it was proved.

The same invariant shows that calls get on. `Advances` orders what is left of a
call: the bytes the loop of `Manager` has not begun with, then the bytes left of the
object's copy, then the `Stage` on the way to the next chunk, then the transfers
under way. Each is a natural number or the size of a set of at most two, and every
step that changes anything lowers the first of them that it changes, so that no call
goes on for ever changing something. That is all: a loop that goes round without
changing anything, as at the end of an object (section 5), is a stutter, and that a
step is possible at all (`CallsReturn`) is left to TLC. `LoopInv` lets the
loop stand there: it holds objects that end at its address or later, and is itself,
between the first and the last stretch, where one of them begins or ends
(`AtBorder`).

**IOMemory.** `IInv` adds to the two properties that buffers lie at multiples of
their size and are apart (`BuffersApart`); TLC checked it on the instance of
`io_memory` first. The argument is in terms of which aligned ranges are unused.
Aligned ranges are nested or apart (`Laminar`), so a new buffer at `off` changes
that only for the ranges around `off` and inside it (`SplitUnused`), and a returned
one likewise (`ReturnUnused`). `getFromList` takes from the least size that has a
free chunk: no free chunk lies between, the halves on the way become maximal and
everything else stays as it is (`SplitKeepsMaximal`). `putToList` merges exactly
while the buddy is free: two halves of an unused chunk are one used and one maximal
range just before (`MatesFacts`), and where it stops, the chunk around has a used
byte (`TopFacts`). All of it rests on division by `Size[k]`, from `MaskedFacts` to
`HalfOf`: the range of a size around an offset is one of the two halves of the next
bigger one around it.

**SlabCache.** `IInv` states the first two properties address by address,
without set builders: an address is out, with the program or with one thread,
exactly if its arena misses it (`OutIsMissed`); an arena that exists misses one
(`ArenasMissSome`); nobody carries what another has (`CarriedOnce`); the map
knows an address with a cache exactly if the program or a thread that is about
to erase it has it and its arena belongs to the cache (`KnownByCache`). Two
further parts make it inductive: threads inside `Cache::get` and `Cache::put`
work on an arena of their cache (`CachesRight`), and nobody frees into a cache
another allocates from (`Disciplined`) - without it an arena could go between
`ChooseArena` and `Take`. None of this depends on sizes; that objects share no byte
does, and is proved apart from it.

Only model-checked:

* All liveness: both `CallsReturn`, `ReceiveReturns`. It needs
  fairness and ENABLED, which are out of the prover's reach. What liveness rests on
  is proved where it is a matter of states and steps: `CallsAdvance` for bulk
  copies, `NoCircularWait` for threads, `SemaphoreCountsQueue` for receivers.
* That nobody is stuck, beyond these: TLC looks for deadlock.
* The `violation` runs and the configurations of section 5 are counterexamples, and have nothing to prove.

No module uses a recursive operator. The induction rules of the library take an
operator, which the provers cannot instantiate; where induction over numbers is
needed, a proof takes a least counterexample instead. That one exists (`HasLeast` in
`Facts`) comes from the well-foundedness of finite sets under inclusion
(`WellFoundedInduction`). The sizes of chunks are the one recursive function: that
there is a function with its equation, for any number of sizes, is proved in that
way (`SizesExist`), and only then is the equation used (`SizeEquation`). The
same fact gives the first object of a range of addresses.
`RemoveFirst` of the community modules is defined with `SelectInSeq`, about which
the lemmas in `Facts` are proved from its definition.

## 7. Plan

In order of importance:

1. `LazyThreads`: the reference counts of `Lazy`, and `free`, handlers delayed past an unmap.
2. Theorems about `Adsm` with failing transfers, and about `TransfersInBlocks`.
3. `SlabCache` with several threads inside one cache, once `Cache::get` keeps
   its lock; `RangeCopy` with transfers that fail.
4. The buffered system calls (`toIOBuffer`, `fromIOBuffer`) over `RangeCopy`'s
   memory.

## 8. Not modelled

* The largest part of the tree is not the library: `lib/gtest-1.6.0` (vendored
  and mostly generated by templates), `samples`, the OpenCL headers, tests. The
  map names lines of `src/src` only, and can never reach a large share of the
  whole tree.
* *Replicated objects* and `Process::globalMalloc`: never reached (section 2,
  `Lazy`). What blocks do with several owners, and `HostMappedObject`, which
  needs no coherence and keeps a set of itself under one lock, are left out.
* *Page-fault handler* (`memory/posix/Handler.cpp`) and *library interposition*:
  they decode a signal or forward arguments to operations that are modelled.
* *CUDA and OpenCL back ends*, streams and events: calls of vendor drivers.
  Transfers are modelled by their effect and by when it may happen.
* *OpenCL lite*: a second front end to the same memory manager.
* *VM bitmap, Gather, sub-block tree*: off by default or not built.
* *Contexts and the choice of an accelerator*: they pick a device, on which no
  property here depends.
* *Tracing, parameters, logging, design-by-contract checks*: output,
  configuration and restated conditions.

## Running

```
tlc -workers 2 -config MCLazyRolling.cfg MCLazy
tlc -workers 2 -config MCAdsm.cfg MCAdsm
tlc -workers 2 -config MCAdsmFaults.cfg MCAdsm
tlc -workers 2 -config MCLazyThreads.cfg MCLazyThreads
tlc -workers 2 -config MCRangeCopy.cfg MCRangeCopy
tlc -workers 2 -config MCModeQueues.cfg MCModeQueues
tlc -workers 2 -config MCIOMemory.cfg MCIOMemory
tlc -workers 2 -config MCSlabCache.cfg MCSlabCache
tlapm Lazy_proofs.tla
tlapm Adsm_proofs.tla
tlapm LazyThreads_proofs.tla
tlapm ModeQueues_proofs.tla
tlapm RangeCopy_proofs.tla
tlapm IOMemory_proofs.tla
tlapm SlabCache_proofs.tla
```
