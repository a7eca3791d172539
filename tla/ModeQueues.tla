------------------------------ MODULE ModeQueues ------------------------------
(***************************************************************************)
(* Execution modes that threads hand to each other: gmacSend, gmacReceive, *)
(* gmacSendReceive and gmacCopy, the queue of modes and the semaphore every*)
(* thread has, the map of these queues with its reader-writer lock, and the*)
(* two counts of the users of a mode, its references and its entry in the  *)
(* map of modes (core/hpe/Process.cpp, Queue.cpp, util/posix/Semaphore-impl*)
(* .h, hpe/pthreads/pthread.cpp).                                          *)
(*                                                                         *)
(* A step is what a thread does under one lock.  push() and pop() keep the *)
(* lock of the map of queues for several steps, and pop() waits under it.  *)
(***************************************************************************)
EXTENDS Integers, FiniteSets, Sequences

CONSTANTS
    Threads,
    Modes,          \* identities of execution modes
    MaxRefs,        \* bound of the model: gmacCopy makes no more references
    Disciplined     \* threads synchronise as Disciplines says

ASSUME ThreadsAssumption == IsFiniteSet(Threads)
ASSUME MaxRefsAssumption == MaxRefs \in Nat \ {0}
ASSUME DisciplinedAssumption == Disciplined \in BOOLEAN

NoMode == "noMode"

ASSUME NoModeAssumption == NoMode \notin Modes

VARIABLES
    pc,         \* where each thread is
    call,       \* the call that pushes a mode
    target,     \* the thread it pushes to
    current,    \* Thread::currentMode_
    queues,     \* threads that have a queue in QueueMap
    queue,      \* the modes in it
    sem,        \* Semaphore::_val of the queue
    readers,    \* threads that hold the lock of QueueMap for reading
    refs,       \* the reference count of each mode
    entries     \* its count in ModeMap, 0 for a mode without an entry

vars == <<pc, call, target, current, queues, queue, sem, readers, refs, entries>>
queueVars == <<queues, queue, sem, readers>>
countVars == <<refs, entries>>

Calls == {"none", "send", "sendReceive", "copy"}

Places == {"none", "init", "run", "push", "post", "forget", "pop", "wait", "incRef",
           "insert", "erase", "remove", "done"}

TypeOK ==
    /\ pc \in [Threads -> Places]
    /\ call \in [Threads -> Calls]
    /\ target \in [Threads -> Threads]
    /\ current \in [Threads -> Modes \cup {NoMode}]
    /\ queues \subseteq Threads
    /\ queue \in [Threads -> Seq(Modes)]
    /\ sem \in [Threads -> Int]
    /\ readers \subseteq Threads
    /\ refs \in [Modes -> Nat]
    /\ entries \in [Modes -> Nat]

Init ==
    /\ pc = [t \in Threads |-> "none"]
    /\ call = [t \in Threads |-> "none"]
    /\ target = [t \in Threads |-> t]
    /\ current = [t \in Threads |-> NoMode]
    /\ queues = {}
    /\ queue = [t \in Threads |-> <<>>]
    /\ sem = [t \in Threads |-> 0]
    /\ readers = {}
    /\ refs = [m \in Modes |-> 0]
    /\ entries = [m \in Modes |-> 0]

Goto(t, l) == pc' = [pc EXCEPT ![t] = l]

-------------------------------------------------------------------------------
(* What threads of a disciplined program wait for before a call.  The        *)
(* library demands none of it.                                               *)

Pushing(t) == pc[t] \in {"push", "post"}

Copying(t) == call[t] = "copy"

\* Modes go to threads that run and receive them before they finish.
MayPushTo(t, u) == Disciplined => u # t /\ u \in queues /\ pc[u] # "erase"

\* No thread has yet to start, and the caller has sent its mode away.
MayReceive(t) ==
    Disciplined => /\ current[t] = NoMode
                   /\ \A u \in Threads : pc[u] \notin {"none", "init"}

\* Nobody sends to a thread that finishes, nor copies the mode it gives up.
MayFinish(t) ==
    Disciplined => /\ queue[t] = <<>>
                   /\ \A u \in Threads : Pushing(u) => target[u] # t
                   /\ \A u \in Threads : Copying(u) => current[u] # current[t]

-------------------------------------------------------------------------------
(* Threads begin and end.                                                    *)

\* pthread_create.
Create(t) ==
    /\ pc[t] = "none"
    /\ Goto(t, "init")
    /\ UNCHANGED <<call, target, current, queueVars, countVars>>

\* Process::initThread: QueueMap::insert waits for all readers.
InitThread(t) ==
    /\ pc[t] = "init"
    /\ readers = {}
    /\ queues' = queues \cup {t}
    /\ Goto(t, "run")
    /\ UNCHANGED <<call, target, current, queue, sem, readers, countVars>>

\* The start routine of the thread returns.
Finish(t) ==
    /\ pc[t] = "run"
    /\ MayFinish(t)
    /\ Goto(t, "erase")
    /\ UNCHANGED <<call, target, current, queueVars, countVars>>

\* Process::finiThread: QueueMap::erase deletes the queue and what is in it.
Erase(t) ==
    /\ pc[t] = "erase"
    /\ readers = {}
    /\ queues' = queues \ {t}
    /\ queue' = [queue EXCEPT ![t] = <<>>]
    /\ sem' = [sem EXCEPT ![t] = 0]
    /\ Goto(t, "remove")
    /\ UNCHANGED <<call, target, current, readers, countVars>>

\* finiThread goes on: Process::removeMode, and the Thread is deleted.
RemoveMode(t) ==
    /\ pc[t] = "remove"
    /\ IF current[t] = NoMode
       THEN UNCHANGED countVars
       ELSE /\ entries' = [entries EXCEPT ![current[t]] = IF @ = 0 THEN 0 ELSE @ - 1]
            /\ refs' = [refs EXCEPT ![current[t]] = @ - 1]
    /\ current' = [current EXCEPT ![t] = NoMode]
    /\ Goto(t, "done")
    /\ UNCHANGED <<call, target, queueVars>>

\* Thread::getCurrentMode of a thread that has none: Process::createMode.
CreateMode(t) ==
    /\ pc[t] = "run"
    /\ current[t] = NoMode
    /\ \E m \in Modes :
         /\ refs[m] = 0 /\ entries[m] = 0
         /\ refs' = [refs EXCEPT ![m] = 1]
         /\ entries' = [entries EXCEPT ![m] = 1]
         /\ current' = [current EXCEPT ![t] = m]
    /\ UNCHANGED <<pc, call, target, queueVars>>

-------------------------------------------------------------------------------
(* Process::send, receive, sendReceive and copy.                             *)

StartPush(t, u, c) ==
    /\ pc[t] = "run"
    /\ current[t] # NoMode
    /\ MayPushTo(t, u)
    /\ call' = [call EXCEPT ![t] = c]
    /\ target' = [target EXCEPT ![t] = u]
    /\ Goto(t, "push")
    /\ UNCHANGED <<current, queueVars, countVars>>

\* The kernel the caller waits for first is left out.  Without a mode a thread
\* sends and copies nothing, and SendReceive is Receive.
Send(t, u) == StartPush(t, u, "send")

SendReceive(t, u) ==
    /\ Disciplined => \A v \in Threads : pc[v] \notin {"none", "init"}
    /\ StartPush(t, u, "sendReceive")

Copy(t, u) ==
    /\ current[t] # NoMode => refs[current[t]] < MaxRefs
    /\ StartPush(t, u, "copy")

\* QueueMap::push up to the release of the lock of the queue: a mode for a
\* thread without a queue goes nowhere.
Push(t) ==
    /\ pc[t] = "push"
    /\ readers' = readers \cup {t}
    /\ queue' = IF target[t] \in queues
                THEN [queue EXCEPT ![target[t]] = Append(@, current[t])]
                ELSE queue
    /\ Goto(t, "post")
    /\ UNCHANGED <<call, target, current, queues, sem, countVars>>

AfterPush(t) ==
    CASE call[t] = "send"        -> "forget"
      [] call[t] = "sendReceive" -> "pop"
      [] call[t] = "copy"        -> "incRef"

\* Mutant: the semaphore is posted for the first mode in the queue alone.
PostIfFirst(t) ==
    /\ pc[t] = "post"
    /\ sem' = IF Len(queue[target[t]]) = 1
              THEN [sem EXCEPT ![target[t]] = @ + 1]
              ELSE sem
    /\ readers' = readers \ {t}
    /\ Goto(t, AfterPush(t))
    /\ UNCHANGED <<call, target, current, queues, queue, countVars>>

\* Queue::push posts the semaphore, and QueueMap::push returns.
Post(t) ==
    /\ pc[t] = "post"
    /\ sem' = IF target[t] \in queues THEN [sem EXCEPT ![target[t]] = @ + 1] ELSE sem
    /\ readers' = readers \ {t}
    /\ Goto(t, AfterPush(t))
    /\ UNCHANGED <<call, target, current, queues, queue, countVars>>

\* The call returns with m as the mode of the thread.
Return(t, m) ==
    /\ current' = [current EXCEPT ![t] = m]
    /\ call' = [call EXCEPT ![t] = "none"]
    /\ target' = [target EXCEPT ![t] = t]
    /\ Goto(t, "run")

\* send: setCurrentMode(NULL).
Forget(t) ==
    /\ pc[t] = "forget"
    /\ Return(t, NoMode)
    /\ UNCHANGED <<queueVars, countVars>>

\* Mutant: copy takes no reference.
IncRefForgotten(t) ==
    /\ pc[t] = "incRef"
    /\ Goto(t, "insert")
    /\ UNCHANGED <<call, target, current, queueVars, countVars>>

\* copy: the reference and the entry of the mode that has been pushed.
IncRef(t) ==
    /\ pc[t] = "incRef"
    /\ refs' = [refs EXCEPT ![current[t]] = @ + 1]
    /\ Goto(t, "insert")
    /\ UNCHANGED <<call, target, current, queueVars, entries>>

\* Mutant: inserting a mode that has an entry leaves the entry as it is.
InsertOnce(t) ==
    /\ pc[t] = "insert"
    /\ entries' = [entries EXCEPT ![current[t]] = IF @ = 0 THEN 1 ELSE @]
    /\ Return(t, current[t])
    /\ UNCHANGED <<queueVars, refs>>

Insert(t) ==
    /\ pc[t] = "insert"
    /\ entries' = [entries EXCEPT ![current[t]] = @ + 1]
    /\ Return(t, current[t])
    /\ UNCHANGED <<queueVars, refs>>

\* receive: the mode of the caller loses a reference and keeps its entry.
Receive(t) ==
    /\ pc[t] = "run"
    /\ MayReceive(t)
    /\ refs' = IF current[t] = NoMode THEN refs ELSE [refs EXCEPT ![current[t]] = @ - 1]
    /\ Goto(t, "pop")
    /\ UNCHANGED <<call, target, current, queueVars, entries>>

\* QueueMap::pop and Queue::pop up to the loop of Semaphore::wait.
Pop(t) ==
    /\ pc[t] = "pop"
    /\ readers' = readers \cup {t}
    /\ sem' = [sem EXCEPT ![t] = @ - 1]
    /\ Goto(t, "wait")
    /\ UNCHANGED <<call, target, current, queues, queue, countVars>>

\* The semaphore lets the thread go on.
PopReturns(t) ==
    /\ pc[t] = "wait"
    /\ sem[t] >= 0
    /\ queue' = [queue EXCEPT ![t] = Tail(@)]
    /\ readers' = readers \ {t}
    /\ Return(t, Head(queue[t]))
    /\ UNCHANGED <<queues, sem, countVars>>

-------------------------------------------------------------------------------

Starts(t) ==
    \/ Create(t)
    \/ Finish(t)
    \/ CreateMode(t)
    \/ \E u \in Threads : Send(t, u) \/ SendReceive(t, u) \/ Copy(t, u)
    \/ Receive(t)

Works(t) ==
    \/ InitThread(t)
    \/ Erase(t)
    \/ RemoveMode(t)
    \/ Push(t)
    \/ Post(t)
    \/ Forget(t)
    \/ IncRef(t)
    \/ Insert(t)
    \/ Pop(t)
    \/ PopReturns(t)

Next == \E t \in Threads : Starts(t) \/ Works(t)

Spec == Init /\ [][Next]_vars

\* A thread that is inside the library runs on unless it waits.
FairSpec == Spec /\ \A t \in Threads : WF_vars(Works(t))

-------------------------------------------------------------------------------
(* Properties.                                                               *)

\* Threads that use mode m: those that have pushed it away do not.
Users(m) ==
    {t \in Threads : /\ current[t] = m
                     /\ pc[t] \notin {"forget", "pop", "wait"}
                     /\ pc[t] = "post" => call[t] = "copy"}

Queued(m) ==
    UNION {{t} \X {i \in DOMAIN queue[t] : queue[t][i] = m} : t \in Threads}

Holders(m) == Cardinality(Users(m)) + Cardinality(Queued(m))

\* Threads that have pushed a copy of m and not counted it yet.
Uncounted(m, places) ==
    {t \in Threads : call[t] = "copy" /\ current[t] = m /\ pc[t] \in places}

(* Both counts of a mode agree with the threads that use it and the queues   *)
(* that hold it, whatever disciplined threads send, copy and receive: a mode *)
(* dies with its last user and none is lost.  Nor is one used after its      *)
(* death, however many copies have been pushed and not been counted yet, as  *)
(* long as no receiver of such a copy ends (MayFinish).                      *)
CountsExact ==
    \A m \in Modes :
        /\ refs[m] = Holders(m) - Cardinality(Uncounted(m, {"post", "incRef"}))
        /\ Holders(m) > 0 => refs[m] > 0
        /\ entries[m] = Holders(m) - Cardinality(Uncounted(m, {"post", "incRef", "insert"}))

(* A thread that the semaphore lets pass finds a mode in its queue           *)
(* (assertion of Queue::pop), and none that is there is left behind.         *)
SemaphoreCountsQueue ==
    \A t \in queues :
        sem[t] = Len(queue[t]) - (IF pc[t] = "wait" THEN 1 ELSE 0)
                 - Cardinality({u \in Threads : pc[u] = "post" /\ target[u] = t})

(* A receive returns once a mode has been sent to its thread.                *)
ReceiveReturns ==
    \A t \in Threads : pc[t] = "wait" /\ queue[t] # <<>> ~> pc[t] = "run"

(* "The current thread receives the execution mode that is sent by another   *)
(* thread" (gmac/api.h): a thread that is created gets to run, also while    *)
(* another waits for what it will send.                                      *)
ThreadsStart == \A t \in Threads : pc[t] = "init" ~> pc[t] = "run"

===============================================================================
