------------------------------- MODULE RangeCopy -------------------------------
(***************************************************************************)
(* Bulk copies over host memory and objects: the loops of Manager::memcpy  *)
(* and Manager::memset, which cut a range at the borders of objects, and   *)
(* Object::memcpyToObject, memcpyFromObject and memcpyObjectToObject, which*)
(* cut it at the borders of blocks and move it through two I/O buffers, so *)
(* that one buffer is filled while the other is on its way                 *)
(* (memory/Manager.cpp, Object.cpp, Object-impl.h, ObjectMap.cpp).         *)
(*                                                                         *)
(* A transfer between an object and an I/O buffer may take effect at any   *)
(* time until the library waits for the buffer.  One thread copies; which  *)
(* of the two copies of a block its bytes are in is the business of module *)
(* Lazy.  All objects belong to one mode and no transfer fails.            *)
(***************************************************************************)
EXTENDS Integers

CONSTANTS
    Top,            \* the last address
    BlockSize,      \* memory::BlockSize_: pinned buffers of a power of two are not
                    \* rounded up (module IOMemory)
    Objects,        \* objects, as records of a start and a size
    Requests        \* the calls the program makes

ASSUME TopAssumption == Top \in Nat
ASSUME BlockSizeAssumption == BlockSize \in Nat \ {0} /\ \E k \in 0..Top : BlockSize = 2^k
ASSUME ObjectsAssumption ==
    /\ \A o \in Objects : o.start \in Nat /\ o.size \in Nat \ {0} /\ o.start + o.size - 1 <= Top
    /\ \A o, p \in Objects : o = p \/ o.start + o.size <= p.start \/ p.start + p.size <= o.start

\* Ranges lie in memory, and those of memcpy do not overlap.
ASSUME RequestsAssumption ==
    \A r \in Requests :
        /\ r.call \in {"memcpy", "memset"} /\ r.fast \in BOOLEAN
        /\ {r.dst, r.src, r.size} \subseteq Nat /\ r.dst + r.size <= Top + 1
        /\ r.call = "memcpy" =>
              /\ r.src + r.size <= Top + 1
              /\ r.dst + r.size <= r.src \/ r.src + r.size <= r.dst

VARIABLES
    mem,        \* the bytes of memory, each with the name of where it comes from
    req,        \* the call that is running
    pc,         \* where it is
    offset,     \* bytes that Manager has dealt with
    dstObject,  \* the object Manager has looked up for the destination
    srcObject,  \* and for the source
    job,        \* the copy an object performs
    buffer,     \* the contents of the two I/O buffers
    flight,     \* the transfer each of them takes part in
    active      \* the one of them that is called active

vars == <<mem, req, pc, offset, dstObject, srcObject, job, buffer, flight, active>>
managerVars == <<offset, dstObject, srcObject>>
bufferVars == <<buffer, flight, active>>

Contract == INSTANCE ByteCopies WITH Top <- Top, Requests <- Requests, mem <- mem, req <- req
Cells == Contract!Cells
NoRequest == Contract!NoRequest

Buffers == {"x", "y"}
passive == CHOOSE b \in Buffers : b # active

NoObject == [start |-> 0, size |-> 0]
NoTransfer == [way |-> "none", cell |-> 0, slot |-> 0, size |-> 0]

\* An object's copy: the next destination and source, the bytes left, the bytes
\* of the current chunk and the size of the buffers.  The fast path counts the
\* blocks it walks over in i and j.
NoJob == [dst |-> 0, src |-> 0, left |-> 0, chunk |-> 0, bufSize |-> 0, i |-> 0, j |-> 0]

TypeOK ==
    /\ mem \in [Cells -> Cells \cup {Contract!Fresh}]
    /\ req \in Requests \cup {NoRequest}
    /\ pc \in {"idle", "memcpy", "memset", "toObject", "fromObject", "objectToObject",
               "send", "refill", "fetch", "secondFetch", "store", "forward", "reload",
               "secondReload", "drain", "fast"}
    /\ offset \in 0..Top + 1
    /\ {dstObject, srcObject} \subseteq Objects \cup {NoObject}
    /\ job \in [dst : 0..Top + 1, src : 0..Top + 1, left : 0..Top + 1, chunk : 0..BlockSize,
                bufSize : 0..BlockSize, i : 0..Top + 1, j : 0..Top + 1]
    /\ buffer \in [Buffers -> [0..BlockSize - 1 -> Cells]]
    /\ flight \in [Buffers -> [way : {"none", "fromObject", "toObject"}, cell : 0..Top,
                               slot : 0..BlockSize - 1, size : 0..BlockSize]]
    /\ active \in Buffers

\* What a buffer holds when it is created.
Empty == [k \in 0..BlockSize - 1 |-> 0]

Init ==
    /\ mem = Contract!Named
    /\ req = NoRequest
    /\ pc = "idle"
    /\ offset = 0
    /\ dstObject = NoObject /\ srcObject = NoObject
    /\ job = NoJob
    /\ buffer = [b \in Buffers |-> Empty]
    /\ flight = [b \in Buffers |-> NoTransfer]
    /\ active = "x"

-------------------------------------------------------------------------------
(* Objects and blocks.                                                       *)

Least(a, b) == IF a < b THEN a ELSE b

End(o) == o.start + o.size

\* Mutant: an object that ends at a is found.
FindObjectEnding(a, n) ==
    LET hits == {o \in Objects : a <= End(o) /\ o.start <= a + n}
    IN  IF hits = {} THEN NoObject
        ELSE CHOOSE o \in hits : \A p \in hits : o.start <= p.start

\* ObjectMap::mapFind: the first object that ends after a, if it begins in the
\* range or right after it.
FindObject(a, n) ==
    LET hits == {o \in Objects : a < End(o) /\ o.start <= a + n}
    IN  IF hits = {} THEN NoObject
        ELSE CHOOSE o \in hits : \A p \in hits : o.start <= p.start

\* Mutant: a chunk is cut at the end of the object alone.
BlockEndOfObject(o, a) == o.size - (a - o.start)

\* Object::blockEnd: the bytes of o from address a to the end of a's block.
BlockEnd(o, a) ==
    LET inBlock == (a - o.start) % BlockSize
    IN  Least(o.size - (a - o.start), BlockSize - inBlock)

\* Object::firstBlock, as the index of the block of o that holds address a.
BlockOf(o, a) == (a - o.start) \div BlockSize

\* Sequence f with n values of g, from position from on, written at position at.
Moved(f, at, g, from, n) ==
    [x \in DOMAIN f |-> IF x \in Contract!Bytes(at, n) THEN g[from + (x - at)] ELSE f[x]]

-------------------------------------------------------------------------------
(* I/O buffers.                                                              *)

\* IOBuffer::wait lets the caller go on.
Waited(b) == flight[b] = NoTransfer

\* Object::memoryOp for n bytes that lie in one block: the transfer begins when
\* the last one of the buffer has ended.
StartTransfer(b, way, cell, slot, n) ==
    /\ Waited(b)
    /\ flight' = [flight EXCEPT ![b] = [way |-> way, cell |-> cell, slot |-> slot, size |-> n]]

\* A transfer takes effect.
Transfer(b) ==
    /\ ~Waited(b)
    /\ LET f == flight[b]
       IN  IF f.way = "toObject"
           THEN mem' = Moved(mem, f.cell, buffer[b], f.slot, f.size) /\ UNCHANGED buffer
           ELSE /\ buffer' = [buffer EXCEPT ![b] = Moved(@, f.slot, mem, f.cell, f.size)]
                /\ UNCHANGED mem
    /\ flight' = [flight EXCEPT ![b] = NoTransfer]
    /\ UNCHANGED <<req, pc, managerVars, job, active>>

-------------------------------------------------------------------------------
(* Manager::memcpy.                                                          *)

Left == req.size - offset
Dst == req.dst + offset
Src == req.src + offset

Memcpy(r) ==
    /\ pc = "idle"
    /\ r.call = "memcpy"
    /\ req' = r
    /\ offset' = 0
    /\ dstObject' = FindObject(r.dst, r.size)
    /\ srcObject' = FindObject(r.src, r.size)
    /\ pc' = "memcpy"
    /\ UNCHANGED <<mem, job, bufferVars>>

\* The object of the last iteration, or the next one once it lies behind.
Refreshed(o, a) == IF o # NoObject /\ End(o) < a THEN FindObject(a, Left) ELSE o

\* hostMemory(): the bytes in host memory before object o.
HostMemory(a, n, o) ==
    IF o = NoObject THEN n ELSE IF a < o.start THEN o.start - a ELSE 0

\* Least of the lengths of two stretches.
Stretches(dstHost, srcHost) ==
    LET dstPart == IF dstHost # 0 THEN dstHost ELSE End(dstObject') - Dst
        srcPart == IF srcHost # 0 THEN srcHost ELSE End(srcObject') - Src
    IN  Least(dstPart, srcPart)

\* An object starts to copy n bytes; its first chunk ends with a block of o.
StartJob(n, chunk) ==
    job' = [NoJob EXCEPT !.dst = Dst, !.src = Src, !.left = n, !.chunk = chunk,
                         !.bufSize = Least(n, BlockSize)]

HostToHost(n) ==
    /\ mem' = Moved(mem, Dst, mem, Src, n)
    /\ UNCHANGED <<pc, job>>

HostToObject(n) ==
    /\ StartJob(n, Least(n, BlockEnd(dstObject', Dst)))
    /\ pc' = "toObject"
    /\ UNCHANGED mem

ObjectToHost(n) ==
    /\ StartJob(n, Least(n, BlockEnd(srcObject', Src)))
    /\ pc' = "fromObject"
    /\ UNCHANGED mem

ObjectToObject(n) ==
    /\ IF req.fast
       THEN /\ job' = [NoJob EXCEPT !.dst = Dst, !.src = Src, !.left = n,
                                    !.i = BlockOf(srcObject', Src), !.j = BlockOf(dstObject', Dst)]
            /\ pc' = "fast"
       ELSE /\ StartJob(n, Least(n, BlockEnd(dstObject', Dst)))
            /\ pc' = "objectToObject"
    /\ UNCHANGED mem

\* One iteration of the loop.  At the end of an object, which the loop does not
\* leave there, it finds nothing to copy and stays where it is.
CopyStretch ==
    /\ pc = "memcpy"
    /\ Left > 0
    /\ dstObject' = Refreshed(dstObject, Dst)
    /\ srcObject' = Refreshed(srcObject, Src)
    /\ LET dstHost == HostMemory(Dst, Left, dstObject')
           srcHost == HostMemory(Src, Left, srcObject')
           n == Least(Stretches(dstHost, srcHost), Left)
       IN  /\ IF n = 0 THEN UNCHANGED <<mem, pc, job>>
              ELSE CASE dstHost # 0 /\ srcHost # 0 -> HostToHost(n)
                     [] dstHost # 0 /\ srcHost = 0 -> ObjectToHost(n)
                     [] dstHost = 0 /\ srcHost # 0 -> HostToObject(n)
                     [] dstHost = 0 /\ srcHost = 0 -> ObjectToObject(n)
           /\ offset' = offset + n
    /\ UNCHANGED <<req, bufferVars>>

\* memcpy or memset returns, and the bytes are named anew.
Return ==
    /\ pc \in {"memcpy", "memset"}
    /\ Left = 0
    /\ req' = NoRequest
    /\ mem' = Contract!Named
    /\ pc' = "idle"
    /\ offset' = 0
    /\ dstObject' = NoObject /\ srcObject' = NoObject
    /\ UNCHANGED <<job, bufferVars>>

-------------------------------------------------------------------------------
(* Manager::memset.                                                          *)

\* The first object is looked up at the start of the range alone.
Memset(r) ==
    /\ pc = "idle"
    /\ r.call = "memset"
    /\ req' = r
    /\ offset' = 0
    /\ dstObject' = FindObject(r.dst, 0)
    /\ srcObject' = NoObject
    /\ pc' = "memset"
    /\ UNCHANGED <<mem, job, bufferVars>>

\* One iteration: the part of the range in an object, or all that is left
\* when there is none.  An object that is looked up holds the address.
SetStretch ==
    /\ pc = "memset"
    /\ Left > 0
    /\ LET n == IF dstObject = NoObject THEN Left ELSE Least(Left, End(dstObject) - Dst)
       IN  /\ mem' = [a \in Cells |-> IF a \in Contract!Bytes(Dst, n) THEN Contract!Fresh ELSE mem[a]]
           /\ offset' = offset + n
           /\ dstObject' = IF n < Left THEN FindObject(Dst + n, 0) ELSE dstObject
    /\ UNCHANGED <<req, pc, srcObject, job, bufferVars>>

-------------------------------------------------------------------------------
(* Object::memcpyToObject.                                                   *)

Goto(l) == pc' = l

\* The bytes of the next chunk.
NextChunk == Least(job.left - job.chunk, job.bufSize)

\* Mutant: the bytes that have been dealt with are not counted.
AdvancedUncounted ==
    [job EXCEPT !.dst = @ + job.chunk, !.src = @ + job.chunk, !.chunk = NextChunk]

\* The job once the current chunk is dealt with.
Advanced ==
    [job EXCEPT !.dst = @ + job.chunk, !.src = @ + job.chunk,
                !.left = @ - job.chunk, !.chunk = NextChunk]

Swap == active' = passive

\* Host memory is copied into buffer b.
FillBuffer(b, n, from) == buffer' = [buffer EXCEPT ![b] = Moved(@, 0, mem, from, n)]

FillFirst ==
    /\ pc = "toObject"
    /\ FillBuffer(active, job.chunk, job.src)
    /\ Goto("send")
    /\ UNCHANGED <<mem, req, managerVars, job, flight, active>>

\* copyFromBuffer(*active, ...).
Send ==
    /\ pc = "send"
    /\ job.left > 0
    /\ StartTransfer(active, "toObject", job.dst, 0, job.chunk)
    /\ Goto("refill")
    /\ UNCHANGED <<mem, req, managerVars, job, buffer, active>>

\* Mutant: the buffer is filled while its last transfer may be under way.
RefillAtOnce ==
    /\ pc = "refill"
    /\ FillBuffer(passive, NextChunk, job.src + job.chunk)
    /\ job' = Advanced
    /\ Swap
    /\ Goto(IF job'.left > 0 THEN "send" ELSE "drain")
    /\ UNCHANGED <<mem, req, managerVars, flight>>

\* The rest of the loop of memcpyToObject: the other buffer is filled and the
\* two are swapped.
Refill ==
    /\ pc = "refill"
    /\ job.left > job.chunk => Waited(passive)
    /\ IF job.left > job.chunk THEN FillBuffer(passive, NextChunk, job.src + job.chunk)
       ELSE UNCHANGED buffer
    /\ job' = Advanced
    /\ Swap
    /\ Goto(IF job'.left > 0 THEN "send" ELSE "drain")
    /\ UNCHANGED <<mem, req, managerVars, flight>>

\* The object's copy returns and its buffers are destroyed.
EndJob ==
    /\ job' = NoJob
    /\ buffer' = [b \in Buffers |-> Empty]
    /\ active' = "x"
    /\ pc' = "memcpy"

\* The buffers are destroyed "after they are idle".
Drain ==
    /\ pc = "drain"
    /\ \A b \in Buffers : Waited(b)
    /\ EndJob
    /\ UNCHANGED <<mem, req, managerVars, flight>>

-------------------------------------------------------------------------------
(* Object::memcpyFromObject.                                                 *)

\* copyToBuffer(*active, ...) before the loop.
FetchFirst ==
    /\ pc = "fromObject"
    /\ StartTransfer(active, "fromObject", job.src, 0, job.chunk)
    /\ Goto("fetch")
    /\ UNCHANGED <<mem, req, managerVars, job, buffer, active>>

\* The loop up to its wait: the next chunk is asked for.  chunk stays that of
\* the active buffer (previousCopySize).
Fetch ==
    /\ pc = "fetch"
    /\ IF job.left > job.chunk
       THEN StartTransfer(passive, "fromObject", job.src + job.chunk, 0, NextChunk)
       ELSE UNCHANGED flight
    /\ Goto("store")
    /\ UNCHANGED <<mem, req, managerVars, job, buffer, active>>

\* Mutant: the active buffer is read before it is full.
StoreAtOnce ==
    /\ pc = "store"
    /\ mem' = Moved(mem, job.dst, buffer[active], 0, job.chunk)
    /\ IF job.left > job.chunk
       THEN /\ job' = Advanced
            /\ Swap
            /\ Goto("fetch")
            /\ UNCHANGED buffer
       ELSE EndJob
    /\ UNCHANGED <<req, managerVars, flight>>

\* The active buffer is copied to host memory and the two are swapped.
Store ==
    /\ pc = "store"
    /\ Waited(active)
    /\ mem' = Moved(mem, job.dst, buffer[active], 0, job.chunk)
    /\ IF job.left > job.chunk
       THEN /\ job' = Advanced
            /\ Swap
            /\ Goto("fetch")
            /\ UNCHANGED buffer
       ELSE EndJob
    /\ UNCHANGED <<req, managerVars, flight>>

-------------------------------------------------------------------------------
(* Object::memcpyObjectToObject through buffers.                             *)

\* Mutant: a chunk is fetched in one transfer.
FirstPartWhole == job.chunk

\* One or two copyToBuffer: what the chunk takes from its first block.
FirstPart == Least(job.chunk, BlockEnd(srcObject, job.src))

\* The first transfer into buffer b, at label from; the second at label second.
LoadFirst(b, from, second, next) ==
    /\ pc = from
    /\ StartTransfer(b, "fromObject", job.src, 0, FirstPart)
    /\ Goto(IF FirstPart < job.chunk THEN second ELSE next)
    /\ UNCHANGED <<mem, req, managerVars, job, buffer>>

LoadSecond(b, from, next) ==
    /\ pc = from
    /\ StartTransfer(b, "fromObject", job.src + FirstPart, FirstPart, job.chunk - FirstPart)
    /\ Goto(next)
    /\ UNCHANGED <<mem, req, managerVars, job, buffer>>

\* Before the loop.
Load ==
    /\ LoadFirst(active, "objectToObject", "secondFetch", "forward")
    /\ UNCHANGED active

LoadRest ==
    /\ LoadSecond(active, "secondFetch", "forward")
    /\ UNCHANGED active

\* The loop: the full buffer goes to the destination.
Forward ==
    /\ pc = "forward"
    /\ StartTransfer(active, "toObject", job.dst, 0, job.chunk)
    /\ job' = Advanced
    /\ Goto(IF job'.left > 0 THEN "reload" ELSE "drain")
    /\ UNCHANGED <<mem, req, managerVars, buffer, active>>

\* The other buffer gets the next chunk, and the two are swapped.
Reload ==
    /\ LoadFirst(passive, "reload", "secondReload", "forward")
    /\ IF FirstPart < job.chunk THEN UNCHANGED active ELSE Swap

ReloadRest ==
    /\ LoadSecond(passive, "secondReload", "forward")
    /\ Swap

-------------------------------------------------------------------------------
(* Object::memcpyObjectToObject between blocks of one accelerator.           *)

\* The address at offset a % blockSize() of the n-th block of object o.
InBlock(o, n, a) == o.start + (n * BlockSize) + ((a - o.start) % BlockSize)

\* One iteration: the blocks under i and j are those the walk has reached.
FastCopy ==
    /\ pc = "fast"
    /\ job.left > 0
    /\ LET n == Least(job.left, BlockEnd(dstObject, job.dst))
           first == Least(n, BlockEnd(srcObject, job.src))
           to == InBlock(dstObject, job.j, job.dst)
           moved == Moved(mem, to, mem, InBlock(srcObject, job.i, job.src), first)
       IN  /\ mem' = IF first = n THEN moved
                     ELSE Moved(moved, to + first, mem,
                                InBlock(srcObject, job.i + 1, job.src + first), n - first)
           /\ job' = [job EXCEPT !.dst = @ + n, !.src = @ + n, !.left = @ - n,
                                 !.i = @ + 1, !.j = @ + 1]
    /\ UNCHANGED <<req, pc, managerVars, bufferVars>>

FastReturns ==
    /\ pc = "fast"
    /\ job.left = 0
    /\ job' = NoJob
    /\ Goto("memcpy")
    /\ UNCHANGED <<mem, req, managerVars, bufferVars>>

-------------------------------------------------------------------------------

Begins == \E r \in Requests : Memcpy(r) \/ Memset(r)

Manages == CopyStretch \/ SetStretch \/ Return

ToObject == FillFirst \/ Send \/ Refill \/ Drain

FromObject == FetchFirst \/ Fetch \/ Store

BetweenObjects ==
    \/ Load
    \/ LoadRest
    \/ Forward
    \/ Reload
    \/ ReloadRest
    \/ FastCopy
    \/ FastReturns

Works == Manages \/ ToObject \/ FromObject \/ BetweenObjects

Next == Begins \/ Works \/ \E b \in Buffers : Transfer(b)

Spec == Init /\ [][Next]_vars

\* The thread runs on, and the accelerator completes what it has been given.
FairSpec == Spec /\ WF_vars(Works) /\ \A b \in Buffers : WF_vars(Transfer(b))

-------------------------------------------------------------------------------
(* Properties.                                                               *)

\* No object ends inside a range.
StopsAtEnd(a, n) == \A o \in Objects : a < End(o) => a + n <= End(o)

\* The calls whose ranges go on past no object: memset leaves an object where
\* it ends, the loop of memcpy does not.
Ending(r) == r.call = "memset" \/ (StopsAtEnd(r.dst, r.size) /\ StopsAtEnd(r.src, r.size))

InObject(o, a) == o.start <= a /\ a < End(o)

\* Where a copy between objects starts, the source is not closer to the begin of
\* its block than the destination: the walk over the blocks stays in step.
StartsInStep(r) ==
    \A o, p \in Objects : \A k \in 0..r.size - 1 :
        /\ InObject(o, r.dst + k) /\ InObject(p, r.src + k)
        /\ k = 0 \/ r.dst + k = o.start \/ r.src + k = p.start
        => (r.dst + k - o.start) % BlockSize <= (r.src + k - p.start) % BlockSize

(* Whatever blocks, objects and stretches of host memory a call cuts its     *)
(* range into, every byte of the destination gets its value, no other byte   *)
(* is touched at any time, and the call does not return before.              *)
KeepsContract == Contract!Spec

(* Nobody reads or writes the part of a buffer, or of memory, that a         *)
(* transfer under way still has to read or write: the double buffer is free  *)
(* of races.                                                                 *)
TransfersUndisturbed ==
    [][\A b \in Buffers :
         LET f == flight[b]
         IN  f # NoTransfer /\ flight'[b] = f =>
               /\ buffer'[b] = buffer[b]
               /\ \A a \in Contract!Bytes(f.cell, f.size) : mem'[a] = mem[a]]_vars

(* Object::memoryOp is never asked for bytes of two blocks, whatever a chunk *)
(* takes from a source that is cut elsewhere than the destination: it would  *)
(* wait between its transfers, and the double buffer with it.                *)
TransfersInBlocks ==
    \A b \in Buffers : ~Waited(b) =>
        \E o \in Objects : /\ InObject(o, flight[b].cell)
                          /\ flight[b].size <= BlockEnd(o, flight[b].cell)

(* A call whose ranges stop with the objects they touch returns: its waits   *)
(* end, and its loops find something to copy.                                *)
CallsReturn == req # NoRequest /\ Ending(req) ~> req = NoRequest

\* Where the copy of an object is on its way to the next chunk.
Stage ==
    CASE pc \in {"toObject", "fromObject", "objectToObject", "reload"} -> 3
      [] pc \in {"send", "fetch", "secondFetch", "secondReload"} -> 2
      [] pc \in {"refill", "store", "forward", "drain", "fast"} -> 1
      [] OTHER -> 0

\* The loop of Manager has dealt with more bytes, or else the object it has
\* called has, or else that has come closer to its next chunk, or else a
\* transfer it may wait for has ended.
Advances ==
    \/ Left' < Left
    \/ Left' = Left /\ job'.left < job.left
    \/ Left' = Left /\ job'.left = job.left /\ Stage' < Stage
    \/ /\ Left' = Left /\ job' = job /\ Stage' = Stage
       /\ \E b \in Buffers : ~Waited(b) /\ flight' = [flight EXCEPT ![b] = NoTransfer]

(* No step that changes anything leaves a call with as much to do as before, *)
(* wherever borders of objects, blocks and buffers cut its range: a call that*)
(* does not end stands still, at the end of an object it goes on past.       *)
CallsAdvance == [][pc # "idle" /\ pc' # "idle" => Advances]_vars

(* hostMemory() asserts that an object the loop holds ends after the address *)
(* it is looked at from: otherwise there is nothing to copy.                 *)
ObjectReached ==
    pc = "memcpy" /\ Left > 0 =>
        LET d == Refreshed(dstObject, Dst)
            s == Refreshed(srcObject, Src)
        IN  /\ d # NoObject => End(d) > Dst
            /\ s # NoObject => End(s) > Src

===============================================================================
