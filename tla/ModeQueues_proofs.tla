-------------------------- MODULE ModeQueues_proofs --------------------------
(***************************************************************************)
(* Proofs about the exchange of execution modes, for any number of threads *)
(* and modes.                                                              *)
(***************************************************************************)
EXTENDS ModeQueues, FiniteSetTheorems, SequenceTheorems, TLAPS

-------------------------------------------------------------------------------
(* Counting.                                                                 *)

One(b) == IF b THEN 1 ELSE 0

LEMMA OneType == \A b : One(b) \in {0, 1} /\ (b => One(b) = 1) /\ (~b => One(b) = 0)
BY DEF One

(* Two sets that differ in one element at most.                              *)
LEMMA SizeChange ==
    ASSUME NEW S, NEW T, NEW x, IsFiniteSet(S), \A y : y # x => (y \in S <=> y \in T)
    PROVE  /\ IsFiniteSet(T)
           /\ Cardinality(S) \in Nat /\ Cardinality(T) \in Nat
           /\ Cardinality(T) = Cardinality(S) + One(x \in T) - One(x \in S)
<1>1. Cardinality(S) \in Nat
  BY FS_CardinalityType
<1>2. CASE x \in S <=> x \in T
  <2>1. S = T
    BY <1>2
  <2> QED BY <1>1, <2>1 DEF One
<1>3. CASE x \in S /\ x \notin T
  <2>1. T = S \ {x}
    BY <1>3
  <2>2. IsFiniteSet(S \ {x}) /\ Cardinality(S \ {x}) = Cardinality(S) - 1
    BY <1>3, FS_RemoveElement
  <2>3. Cardinality(T) \in Nat
    BY <2>1, <2>2, FS_CardinalityType
  <2> QED BY <1>1, <1>3, <2>1, <2>2, <2>3 DEF One
<1>4. CASE x \notin S /\ x \in T
  <2>1. T = S \cup {x}
    BY <1>4
  <2>2. IsFiniteSet(S \cup {x}) /\ Cardinality(S \cup {x}) = Cardinality(S) + 1
    BY <1>4, FS_AddElement
  <2> QED BY <1>1, <1>4, <2>1, <2>2 DEF One
<1> QED BY <1>2, <1>3, <1>4

LEMMA NoModeIsNone == NoMode \notin Modes
BY NoModeAssumption

-------------------------------------------------------------------------------
(* Queues and semaphores.                                                    *)

\* The part of TypeOK that has nothing to do with the counts of modes.
QueueTypes ==
    /\ pc \in [Threads -> Places]
    /\ call \in [Threads -> Calls]
    /\ target \in [Threads -> Threads]
    /\ current \in [Threads -> Modes \cup {NoMode}]
    /\ queues \subseteq Threads
    /\ queue \in [Threads -> Seq(Modes)]
    /\ sem \in [Threads -> Int]
    /\ readers \subseteq Threads

\* The calls that come to each place.
CallOf(t) ==
    /\ pc[t] \in {"push", "post"} => call[t] \in {"send", "sendReceive", "copy"}
    /\ pc[t] = "forget" => call[t] = "send"
    /\ pc[t] \in {"incRef", "insert"} => call[t] = "copy"
    /\ pc[t] \in {"pop", "wait"} => call[t] \in {"none", "sendReceive"}
    /\ pc[t] \in {"none", "init", "run", "erase", "remove", "done"} => call[t] = "none"

\* Who has a queue, reads the map of queues, and has a mode.
Placed(t) ==
    /\ CallOf(t)
    /\ t \in readers <=> pc[t] \in {"post", "wait"}
    /\ t \in queues <=> pc[t] \notin {"none", "init", "remove", "done"}
    /\ t \notin queues => queue[t] = <<>> /\ sem[t] = 0
    /\ pc[t] \in {"push", "post", "forget", "incRef", "insert"} => current[t] \in Modes

Posters(t) == {u \in Threads : pc[u] = "post" /\ target[u] = t}

\* The semaphore counts the queue.
Counts(t) ==
    t \in queues => sem[t] = Len(queue[t]) - One(pc[t] = "wait") - Cardinality(Posters(t))

QueueInv ==
    /\ QueueTypes
    /\ \A t \in Threads : Placed(t) /\ Counts(t)

LEMMA QueueInvInit == Init => QueueInv
<1> SUFFICES ASSUME Init PROVE QueueInv
  OBVIOUS
<1>1. QueueTypes
  BY DEF Init, QueueTypes, Places, Calls
<1>2. \A t \in Threads : Placed(t)
  BY DEF Init, Placed, CallOf
<1>3. \A t \in Threads : Counts(t)
  BY DEF Init, Counts
<1> QED BY <1>1, <1>2, <1>3 DEF QueueInv

\* What belongs to the other threads stays as it is.
OnlyMoves(t) ==
    \A u \in Threads \ {t} :
        /\ pc'[u] = pc[u] /\ call'[u] = call[u] /\ target'[u] = target[u]
        /\ current'[u] = current[u]
        /\ u \in queues' <=> u \in queues
        /\ u \in readers' <=> u \in readers

LEMMA PostersChange ==
    ASSUME NEW t \in Threads, OnlyMoves(t), NEW v \in Threads
    PROVE  /\ Cardinality(Posters(v)) \in Nat /\ Cardinality(Posters(v)') \in Nat
           /\ Cardinality(Posters(v)') =
                 Cardinality(Posters(v)) + One(pc'[t] = "post" /\ target'[t] = v)
                                         - One(pc[t] = "post" /\ target[t] = v)
<1>1. IsFiniteSet(Posters(v))
  BY ThreadsAssumption, FS_Subset DEF Posters
<1>2. \A u : u # t => (u \in Posters(v) <=> u \in Posters(v)')
  BY DEF OnlyMoves, Posters
<1>3. /\ t \in Posters(v) <=> pc[t] = "post" /\ target[t] = v
      /\ t \in Posters(v)' <=> pc'[t] = "post" /\ target'[t] = v
  BY DEF Posters
<1>4. /\ One(t \in Posters(v)) = One(pc[t] = "post" /\ target[t] = v)
      /\ One(t \in Posters(v)') = One(pc'[t] = "post" /\ target'[t] = v)
  BY <1>3 DEF One
<1> QED BY <1>1, <1>2, <1>4, SizeChange

(* A step of thread t that posts nothing, pushes nothing and does not wait.  *)
LEMMA QueuesSame ==
    ASSUME QueueInv, NEW t \in Threads, OnlyMoves(t), QueueTypes', Placed(t)',
           queue' = queue, sem' = sem, queues' = queues,
           pc[t] \notin {"post", "wait"}, pc'[t] \notin {"post", "wait"}
    PROVE  QueueInv'
<1>1. ASSUME NEW u \in Threads
      PROVE  Placed(u)'
  <2>1. Placed(u)
    BY DEF QueueInv
  <2>2. CASE u # t
    BY <2>1, <2>2 DEF OnlyMoves, Placed, CallOf
  <2> QED BY <2>2
<1>2. ASSUME NEW u \in Threads
      PROVE  Counts(u)'
  <2>1. Cardinality(Posters(u)') = Cardinality(Posters(u))
    BY PostersChange, OneType
  <2>2. One(pc'[u] = "wait") = One(pc[u] = "wait")
    BY DEF OnlyMoves, One
  <2> QED BY <2>1, <2>2 DEF QueueInv, Counts
<1> QED BY <1>1, <1>2 DEF QueueInv

LEMMA CreateKeepsQueues ==
    ASSUME QueueInv, NEW t \in Threads, Create(t)
    PROVE  QueueInv'
<1>1. QueueTypes /\ Placed(t)
  BY DEF QueueInv
<1>2. QueueTypes'
  BY <1>1 DEF Create, Goto, queueVars, QueueTypes, Places, Calls, Placed
<1>3. OnlyMoves(t)
  BY <1>1 DEF Create, Goto, queueVars, OnlyMoves, QueueTypes
<1>4. Placed(t)'
  BY <1>1 DEF Create, Goto, queueVars, QueueTypes, Placed, CallOf
<1>5. /\ queue' = queue /\ sem' = sem /\ queues' = queues
      /\ pc[t] \notin {"post", "wait"} /\ pc'[t] \notin {"post", "wait"}
  BY <1>1 DEF Create, Goto, queueVars, QueueTypes
<1> QED BY <1>2, <1>3, <1>4, <1>5, QueuesSame

LEMMA FinishKeepsQueues ==
    ASSUME QueueInv, NEW t \in Threads, Finish(t)
    PROVE  QueueInv'
<1>1. QueueTypes /\ Placed(t)
  BY DEF QueueInv
<1>2. QueueTypes'
  BY <1>1 DEF Finish, Goto, queueVars, QueueTypes, Places, Calls, Placed
<1>3. OnlyMoves(t)
  BY <1>1 DEF Finish, Goto, queueVars, OnlyMoves, QueueTypes
<1>4. Placed(t)'
  BY <1>1 DEF Finish, Goto, queueVars, QueueTypes, Placed, CallOf
<1>5. /\ queue' = queue /\ sem' = sem /\ queues' = queues
      /\ pc[t] \notin {"post", "wait"} /\ pc'[t] \notin {"post", "wait"}
  BY <1>1 DEF Finish, Goto, queueVars, QueueTypes
<1> QED BY <1>2, <1>3, <1>4, <1>5, QueuesSame

LEMMA CreateModeKeepsQueues ==
    ASSUME QueueInv, NEW t \in Threads, CreateMode(t)
    PROVE  QueueInv'
<1>1. QueueTypes /\ Placed(t)
  BY DEF QueueInv
<1>2. QueueTypes'
  BY <1>1 DEF CreateMode, Goto, queueVars, QueueTypes, Places, Calls, Placed
<1>3. OnlyMoves(t)
  BY <1>1 DEF CreateMode, Goto, queueVars, OnlyMoves, QueueTypes
<1>4. Placed(t)'
  BY <1>1 DEF CreateMode, Goto, queueVars, QueueTypes, Placed, CallOf
<1>5. /\ queue' = queue /\ sem' = sem /\ queues' = queues
      /\ pc[t] \notin {"post", "wait"} /\ pc'[t] \notin {"post", "wait"}
  BY <1>1 DEF CreateMode, Goto, queueVars, QueueTypes
<1> QED BY <1>2, <1>3, <1>4, <1>5, QueuesSame

LEMMA RemoveModeKeepsQueues ==
    ASSUME QueueInv, NEW t \in Threads, RemoveMode(t)
    PROVE  QueueInv'
<1>1. QueueTypes /\ Placed(t)
  BY DEF QueueInv
<1>2. QueueTypes'
  BY <1>1 DEF RemoveMode, Goto, queueVars, QueueTypes, Places, Calls, Placed
<1>3. OnlyMoves(t)
  BY <1>1 DEF RemoveMode, Goto, queueVars, OnlyMoves, QueueTypes
<1>4. Placed(t)'
  BY <1>1 DEF RemoveMode, Goto, queueVars, QueueTypes, Placed, CallOf
<1>5. /\ queue' = queue /\ sem' = sem /\ queues' = queues
      /\ pc[t] \notin {"post", "wait"} /\ pc'[t] \notin {"post", "wait"}
  BY <1>1 DEF RemoveMode, Goto, queueVars, QueueTypes
<1> QED BY <1>2, <1>3, <1>4, <1>5, QueuesSame

LEMMA ForgetKeepsQueues ==
    ASSUME QueueInv, NEW t \in Threads, Forget(t)
    PROVE  QueueInv'
<1>1. QueueTypes /\ Placed(t)
  BY DEF QueueInv
<1>2. QueueTypes'
  BY <1>1 DEF Forget, Return, Goto, queueVars, QueueTypes, Places, Calls, Placed
<1>3. OnlyMoves(t)
  BY <1>1 DEF Forget, Return, Goto, queueVars, OnlyMoves, QueueTypes
<1>4. Placed(t)'
  BY <1>1 DEF Forget, Return, Goto, queueVars, QueueTypes, Placed, CallOf
<1>5. /\ queue' = queue /\ sem' = sem /\ queues' = queues
      /\ pc[t] \notin {"post", "wait"} /\ pc'[t] \notin {"post", "wait"}
  BY <1>1 DEF Forget, Return, Goto, queueVars, QueueTypes
<1> QED BY <1>2, <1>3, <1>4, <1>5, QueuesSame

LEMMA IncRefKeepsQueues ==
    ASSUME QueueInv, NEW t \in Threads, IncRef(t)
    PROVE  QueueInv'
<1>1. QueueTypes /\ Placed(t)
  BY DEF QueueInv
<1>2. QueueTypes'
  BY <1>1 DEF IncRef, Goto, queueVars, QueueTypes, Places, Calls, Placed
<1>3. OnlyMoves(t)
  BY <1>1 DEF IncRef, Goto, queueVars, OnlyMoves, QueueTypes
<1>4. Placed(t)'
  BY <1>1 DEF IncRef, Goto, queueVars, QueueTypes, Placed, CallOf
<1>5. /\ queue' = queue /\ sem' = sem /\ queues' = queues
      /\ pc[t] \notin {"post", "wait"} /\ pc'[t] \notin {"post", "wait"}
  BY <1>1 DEF IncRef, Goto, queueVars, QueueTypes
<1> QED BY <1>2, <1>3, <1>4, <1>5, QueuesSame

LEMMA InsertKeepsQueues ==
    ASSUME QueueInv, NEW t \in Threads, Insert(t)
    PROVE  QueueInv'
<1>1. QueueTypes /\ Placed(t)
  BY DEF QueueInv
<1>2. QueueTypes'
  BY <1>1 DEF Insert, Return, Goto, queueVars, QueueTypes, Places, Calls, Placed
<1>3. OnlyMoves(t)
  BY <1>1 DEF Insert, Return, Goto, queueVars, OnlyMoves, QueueTypes
<1>4. Placed(t)'
  BY <1>1 DEF Insert, Return, Goto, queueVars, QueueTypes, Placed, CallOf
<1>5. /\ queue' = queue /\ sem' = sem /\ queues' = queues
      /\ pc[t] \notin {"post", "wait"} /\ pc'[t] \notin {"post", "wait"}
  BY <1>1 DEF Insert, Return, Goto, queueVars, QueueTypes
<1> QED BY <1>2, <1>3, <1>4, <1>5, QueuesSame

LEMMA ReceiveKeepsQueues ==
    ASSUME QueueInv, NEW t \in Threads, Receive(t)
    PROVE  QueueInv'
<1>1. QueueTypes /\ Placed(t)
  BY DEF QueueInv
<1>2. QueueTypes'
  BY <1>1 DEF Receive, Goto, queueVars, QueueTypes, Places, Calls, Placed
<1>3. OnlyMoves(t)
  BY <1>1 DEF Receive, Goto, queueVars, OnlyMoves, QueueTypes
<1>4. Placed(t)'
  BY <1>1 DEF Receive, Goto, queueVars, QueueTypes, Placed, CallOf
<1>5. /\ queue' = queue /\ sem' = sem /\ queues' = queues
      /\ pc[t] \notin {"post", "wait"} /\ pc'[t] \notin {"post", "wait"}
  BY <1>1 DEF Receive, Goto, queueVars, QueueTypes
<1> QED BY <1>2, <1>3, <1>4, <1>5, QueuesSame

LEMMA StartPushKeepsQueues ==
    ASSUME QueueInv, NEW t \in Threads, NEW u \in Threads,
           NEW c \in {"send", "sendReceive", "copy"}, StartPush(t, u, c)
    PROVE  QueueInv'
<1>1. QueueTypes /\ Placed(t)
  BY DEF QueueInv
<1>2. QueueTypes'
  BY <1>1 DEF StartPush, Goto, queueVars, QueueTypes, Places, Calls
<1>3. OnlyMoves(t)
  BY <1>1 DEF StartPush, Goto, queueVars, OnlyMoves, QueueTypes
<1>4. Placed(t)'
  BY <1>1 DEF StartPush, Goto, queueVars, QueueTypes, Placed, CallOf
<1>5. /\ queue' = queue /\ sem' = sem /\ queues' = queues
      /\ pc[t] \notin {"post", "wait"} /\ pc'[t] \notin {"post", "wait"}
  BY <1>1 DEF StartPush, Goto, queueVars, QueueTypes
<1> QED BY <1>2, <1>3, <1>4, <1>5, QueuesSame

(* The other threads stay in their places.                                   *)
LEMMA OthersPlaced ==
    ASSUME QueueInv, NEW t \in Threads, OnlyMoves(t), NEW u \in Threads, u # t,
           u \notin queues => queue'[u] = queue[u] /\ sem'[u] = sem[u]
    PROVE  Placed(u)'
<1>1. Placed(u)
  BY DEF QueueInv
<1> QED BY <1>1 DEF OnlyMoves, Placed, CallOf

LEMMA InitThreadKeepsQueues ==
    ASSUME QueueInv, NEW t \in Threads, InitThread(t)
    PROVE  QueueInv'
<1>1. QueueTypes /\ Placed(t)
  BY DEF QueueInv
<1>2. QueueTypes'
  BY <1>1 DEF InitThread, Goto, QueueTypes, Places
<1>3. OnlyMoves(t)
  BY <1>1 DEF InitThread, Goto, OnlyMoves, QueueTypes
<1>4. Placed(t)'
  BY <1>1 DEF InitThread, Goto, QueueTypes, Placed, CallOf
<1>5. ASSUME NEW u \in Threads
      PROVE  Placed(u)'
  BY <1>3, <1>4, OthersPlaced DEF InitThread
<1>6. ASSUME NEW u \in Threads
      PROVE  Counts(u)'
  <2>1. Posters(u)' = {}
    BY <1>2, <1>5 DEF InitThread, Posters, Placed
  <2>2. Cardinality(Posters(u)') = 0
    BY <2>1, FS_EmptySet
  <2>3. Cardinality(Posters(u)) = 0
    <3>1. Posters(u) = {}
      BY DEF QueueInv, InitThread, Posters, Placed
    <3> QED BY <3>1, FS_EmptySet
  <2>4. CASE u = t
    <3>1. One(pc'[u] = "wait") = 0
      BY <1>1, <2>4 DEF InitThread, Goto, QueueTypes, One
    <3>2. queue'[u] = <<>> /\ sem'[u] = 0
      BY <1>1, <2>4 DEF InitThread, Placed
    <3> QED BY <2>2, <3>1, <3>2 DEF Counts
  <2>5. CASE u # t
    <3>1. Counts(u)
      BY DEF QueueInv
    <3> QED BY <1>3, <2>2, <2>3, <2>5, <3>1 DEF InitThread, OnlyMoves, Counts
  <2> QED BY <2>4, <2>5
<1> QED BY <1>2, <1>5, <1>6 DEF QueueInv

LEMMA EraseKeepsQueues ==
    ASSUME QueueInv, NEW t \in Threads, Erase(t)
    PROVE  QueueInv'
<1>1. QueueTypes /\ Placed(t)
  BY DEF QueueInv
<1>2. QueueTypes'
  BY <1>1 DEF Erase, Goto, QueueTypes, Places
<1>3. OnlyMoves(t)
  BY <1>1 DEF Erase, Goto, OnlyMoves, QueueTypes
<1>4. Placed(t)'
  BY <1>1 DEF Erase, Goto, QueueTypes, Placed, CallOf
<1>5. ASSUME NEW u \in Threads
      PROVE  Placed(u)'
  BY <1>1, <1>3, <1>4, OthersPlaced DEF Erase, QueueTypes
<1>6. ASSUME NEW u \in Threads, u \in queues'
      PROVE  Counts(u)'
  <2>1. u # t /\ u \in queues /\ Counts(u)
    BY <1>6 DEF Erase, QueueInv
  <2>2. Cardinality(Posters(u)') = Cardinality(Posters(u))
    <3>1. Posters(u)' = Posters(u)
      BY <1>1 DEF Erase, Goto, QueueTypes, Posters
    <3> QED BY <3>1
  <2>3. pc'[u] = pc[u] /\ queue'[u] = queue[u] /\ sem'[u] = sem[u]
    BY <1>1, <2>1 DEF Erase, Goto, QueueTypes
  <2> QED BY <2>1, <2>2, <2>3 DEF Counts
<1> QED BY <1>2, <1>5, <1>6 DEF QueueInv, Counts

LEMMA PushKeepsQueues ==
    ASSUME QueueInv, NEW t \in Threads, Push(t)
    PROVE  QueueInv'
<1>1. QueueTypes /\ Placed(t)
  BY DEF QueueInv
<1>2. current[t] \in Modes /\ target[t] \in Threads
  BY <1>1 DEF QueueTypes, Placed, Push
<1>3. QueueTypes'
  BY <1>1, <1>2 DEF Push, Goto, QueueTypes, Places
<1>4. OnlyMoves(t)
  BY <1>1 DEF Push, Goto, OnlyMoves, QueueTypes
<1>5. Placed(t)'
  BY <1>1 DEF Push, Goto, QueueTypes, Placed, CallOf
<1>6. ASSUME NEW u \in Threads
      PROVE  Placed(u)'
  BY <1>1, <1>4, <1>5, OthersPlaced DEF Push, QueueTypes
<1>7. ASSUME NEW u \in Threads, u \in queues
      PROVE  Counts(u)'
  <2>1. Counts(u)
    BY DEF QueueInv
  <2>2. /\ Cardinality(Posters(u)) \in Nat
        /\ Cardinality(Posters(u)') = Cardinality(Posters(u)) + One(u = target[t])
    <3>1. pc[t] # "post" /\ pc'[t] = "post" /\ target'[t] = target[t]
      BY <1>1 DEF Push, Goto, QueueTypes
    <3>2. /\ One(pc[t] = "post" /\ target[t] = u) = 0
          /\ One(pc'[t] = "post" /\ target'[t] = u) = One(u = target[t])
      BY <3>1 DEF One
    <3> QED BY <1>4, <3>2, PostersChange, OneType
  <2>3. queue[u] \in Seq(Modes) /\ Len(queue[u]) \in Nat
    BY <1>1 DEF QueueTypes
  <2>4. Len(queue'[u]) = Len(queue[u]) + One(u = target[t])
    <3>1. CASE u = target[t]
      <4>1. queue'[u] = Append(queue[u], current[t])
        BY <1>1, <1>7, <3>1 DEF Push, QueueTypes
      <4> QED BY <1>2, <2>3, <3>1, <4>1 DEF One
    <3>2. CASE u # target[t]
      BY <1>1, <2>3, <3>2 DEF Push, QueueTypes, One
    <3> QED BY <3>1, <3>2
  <2>5. One(pc'[u] = "wait") = One(pc[u] = "wait") /\ sem'[u] = sem[u]
    BY <1>1 DEF Push, Goto, QueueTypes, One
  <2> QED BY SMTT(30), <1>7, <2>1, <2>2, <2>3, <2>4, <2>5, OneType DEF Counts
<1>8. queues' = queues
  BY DEF Push
<1> QED BY <1>3, <1>6, <1>7, <1>8 DEF QueueInv, Counts

LEMMA PostKeepsQueues ==
    ASSUME QueueInv, NEW t \in Threads, Post(t)
    PROVE  QueueInv'
<1>1. QueueTypes /\ Placed(t)
  BY DEF QueueInv
<1>2. /\ target[t] \in Threads
      /\ AfterPush(t) \in {"forget", "pop", "incRef"}
      /\ AfterPush(t) = "forget" => call[t] = "send"
      /\ AfterPush(t) = "pop" => call[t] = "sendReceive"
      /\ AfterPush(t) = "incRef" => call[t] = "copy"
  BY <1>1 DEF QueueTypes, Placed, CallOf, Post, AfterPush
<1>3. QueueTypes'
  BY <1>1, <1>2 DEF Post, Goto, QueueTypes, Places
<1>4. OnlyMoves(t)
  BY <1>1 DEF Post, Goto, OnlyMoves, QueueTypes
<1>5. Placed(t)'
  BY <1>1, <1>2 DEF Post, Goto, QueueTypes, Placed, CallOf
<1>6. ASSUME NEW u \in Threads
      PROVE  Placed(u)'
  BY <1>1, <1>4, <1>5, OthersPlaced DEF Post, QueueTypes
<1>7. ASSUME NEW u \in Threads, u \in queues
      PROVE  Counts(u)'
  <2>1. Counts(u)
    BY DEF QueueInv
  <2>2. /\ Cardinality(Posters(u)) \in Nat
        /\ Cardinality(Posters(u)') = Cardinality(Posters(u)) - One(u = target[t])
    <3>1. pc[t] = "post" /\ pc'[t] # "post"
      BY <1>1, <1>2 DEF Post, Goto, QueueTypes
    <3>2. /\ One(pc[t] = "post" /\ target[t] = u) = One(u = target[t])
          /\ One(pc'[t] = "post" /\ target'[t] = u) = 0
      BY <3>1 DEF One
    <3> QED BY <1>4, <3>2, PostersChange, OneType
  <2>3. sem'[u] = sem[u] + One(u = target[t]) /\ sem[u] \in Int
    BY <1>1, <1>7 DEF Post, QueueTypes, One
  <2>4. One(pc'[u] = "wait") = One(pc[u] = "wait") /\ queue'[u] = queue[u]
    BY <1>1, <1>2 DEF Post, Goto, QueueTypes, One
  <2>5. Len(queue[u]) \in Nat
    BY <1>1 DEF QueueTypes
  <2> QED BY <1>7, <2>1, <2>2, <2>3, <2>4, <2>5, OneType DEF Counts
<1>8. queues' = queues
  BY DEF Post
<1> QED BY <1>3, <1>6, <1>7, <1>8 DEF QueueInv, Counts

LEMMA PopKeepsQueues ==
    ASSUME QueueInv, NEW t \in Threads, Pop(t)
    PROVE  QueueInv'
<1>1. QueueTypes /\ Placed(t)
  BY DEF QueueInv
<1>2. QueueTypes'
  BY <1>1 DEF Pop, Goto, QueueTypes, Places
<1>3. OnlyMoves(t)
  BY <1>1 DEF Pop, Goto, OnlyMoves, QueueTypes
<1>4. Placed(t)'
  BY <1>1 DEF Pop, Goto, QueueTypes, Placed, CallOf
<1>5. ASSUME NEW u \in Threads
      PROVE  Placed(u)'
  BY <1>1, <1>3, <1>4, OthersPlaced DEF Pop, QueueTypes
<1>6. ASSUME NEW u \in Threads
      PROVE  Counts(u)'
  <2>1. Counts(u)
    BY DEF QueueInv
  <2>2. /\ Cardinality(Posters(u)) \in Nat
        /\ Cardinality(Posters(u)') = Cardinality(Posters(u))
    <3>1. Posters(u)' = Posters(u)
      BY <1>1 DEF Pop, Goto, QueueTypes, Posters
    <3>2. IsFiniteSet(Posters(u))
      BY ThreadsAssumption, FS_Subset DEF Posters
    <3> QED BY <3>1, <3>2, FS_CardinalityType
  <2>3. sem'[u] = sem[u] - One(u = t) /\ sem[u] \in Int
    BY <1>1 DEF Pop, QueueTypes, One
  <2>4. One(pc'[u] = "wait") = One(pc[u] = "wait") + One(u = t)
    BY <1>1 DEF Pop, Goto, QueueTypes, One
  <2>5. Len(queue[u]) \in Nat /\ queue'[u] = queue[u] /\ queues' = queues
    BY <1>1 DEF Pop, QueueTypes
  <2> QED BY <2>1, <2>2, <2>3, <2>4, <2>5, OneType DEF Counts
<1> QED BY <1>2, <1>5, <1>6 DEF QueueInv

(* A thread that the semaphore lets pass finds a mode in its queue.          *)
LEMMA ModeIsThere ==
    ASSUME QueueInv, NEW t \in Threads, pc[t] = "wait", sem[t] >= 0
    PROVE  /\ queue[t] \in Seq(Modes) /\ queue[t] # <<>> /\ Len(queue[t]) \in Nat \ {0}
           /\ Head(queue[t]) \in Modes
           /\ Tail(queue[t]) \in Seq(Modes) /\ Len(Tail(queue[t])) = Len(queue[t]) - 1
<1>1. /\ queue[t] \in Seq(Modes) /\ Len(queue[t]) \in Nat /\ sem[t] \in Int
      /\ t \in queues /\ Counts(t)
  <2>1. QueueTypes /\ Placed(t) /\ Counts(t)
    BY DEF QueueInv
  <2> QED BY <2>1 DEF QueueTypes, Placed
<1>2. Cardinality(Posters(t)) \in Nat
  <2>1. IsFiniteSet(Posters(t))
    BY ThreadsAssumption, FS_Subset DEF Posters
  <2> QED BY <2>1, FS_CardinalityType
<1>3. Len(queue[t]) >= 1
  BY <1>1, <1>2 DEF Counts, One
<1>4. queue[t] # <<>>
  BY <1>1, <1>3
<1> QED BY <1>1, <1>3, <1>4, HeadTailProperties

LEMMA PopReturnsKeepsQueues ==
    ASSUME QueueInv, NEW t \in Threads, PopReturns(t)
    PROVE  QueueInv'
<1>1. QueueTypes /\ Placed(t)
  BY DEF QueueInv
<1>2. /\ queue[t] \in Seq(Modes) /\ Head(queue[t]) \in Modes
      /\ Tail(queue[t]) \in Seq(Modes) /\ Len(Tail(queue[t])) = Len(queue[t]) - 1
  BY ModeIsThere DEF PopReturns
<1>3. QueueTypes'
  BY <1>1, <1>2 DEF PopReturns, Return, Goto, QueueTypes, Places, Calls
<1>4. OnlyMoves(t)
  BY <1>1 DEF PopReturns, Return, Goto, OnlyMoves, QueueTypes
<1>5. Placed(t)'
  BY <1>1, <1>2 DEF PopReturns, Return, Goto, QueueTypes, Placed, CallOf
<1>6. ASSUME NEW u \in Threads
      PROVE  Placed(u)'
  BY <1>1, <1>4, <1>5, OthersPlaced DEF PopReturns, QueueTypes
<1>7. ASSUME NEW u \in Threads
      PROVE  Counts(u)'
  <2>1. Counts(u)
    BY DEF QueueInv
  <2>2. /\ Cardinality(Posters(u)) \in Nat
        /\ Cardinality(Posters(u)') = Cardinality(Posters(u))
    <3>1. Posters(u)' = Posters(u)
      BY <1>1 DEF PopReturns, Return, Goto, QueueTypes, Posters
    <3>2. IsFiniteSet(Posters(u))
      BY ThreadsAssumption, FS_Subset DEF Posters
    <3> QED BY <3>1, <3>2, FS_CardinalityType
  <2>3. Len(queue[u]) \in Nat /\ Len(queue'[u]) = Len(queue[u]) - One(u = t)
    BY <1>1, <1>2 DEF PopReturns, QueueTypes, One
  <2>4. One(pc'[u] = "wait") = One(pc[u] = "wait") - One(u = t)
    BY <1>1 DEF PopReturns, Return, Goto, QueueTypes, One
  <2>5. sem[u] \in Int /\ sem'[u] = sem[u] /\ queues' = queues
    BY <1>1 DEF PopReturns, QueueTypes
  <2> QED BY <2>1, <2>2, <2>3, <2>4, <2>5, OneType DEF Counts
<1> QED BY <1>3, <1>6, <1>7 DEF QueueInv

LEMMA QueueInvStep == QueueInv /\ [Next]_vars => QueueInv'
<1> SUFFICES ASSUME QueueInv, [Next]_vars
             PROVE  QueueInv'
  OBVIOUS
<1>1. CASE Next
  <2>1. PICK t \in Threads : Starts(t) \/ Works(t)
    BY <1>1 DEF Next
  <2>2. CASE Starts(t)
    <3>1. CASE \E u \in Threads : Send(t, u) \/ SendReceive(t, u) \/ Copy(t, u)
      BY <3>1, StartPushKeepsQueues DEF Send, SendReceive, Copy
    <3> QED BY <2>2, <3>1, CreateKeepsQueues, FinishKeepsQueues, CreateModeKeepsQueues,
               ReceiveKeepsQueues DEF Starts
  <2>3. CASE Works(t)
    BY <2>3, InitThreadKeepsQueues, EraseKeepsQueues, RemoveModeKeepsQueues,
       PushKeepsQueues, PostKeepsQueues, ForgetKeepsQueues, IncRefKeepsQueues,
       InsertKeepsQueues, PopKeepsQueues, PopReturnsKeepsQueues DEF Works
  <2> QED BY <2>1, <2>2, <2>3
<1>2. CASE UNCHANGED vars
  <2>1. QueueTypes'
    BY <1>2 DEF vars, QueueInv, QueueTypes
  <2>2. \A u \in Threads : Placed(u)'
    BY <1>2 DEF vars, QueueInv, Placed, CallOf
  <2>3. \A u \in Threads : Posters(u)' = Posters(u)
    BY <1>2 DEF vars, Posters
  <2>4. \A u \in Threads : Counts(u)'
    BY <1>2, <2>3 DEF vars, QueueInv, Counts
  <2> QED BY <2>1, <2>2, <2>4 DEF QueueInv
<1> QED BY <1>1, <1>2

LEMMA QueueInvAlways == Spec => []QueueInv
BY QueueInvInit, QueueInvStep, PTL DEF Spec

(* A thread that the semaphore of its queue lets pass finds a mode there, and*)
(* none is left behind, whatever the threads send to each other, also to     *)
(* threads that have no queue yet or no longer (Queue::pop asserts it).      *)
THEOREM SemaphoreExact == Spec => []SemaphoreCountsQueue
<1>1. QueueInv => SemaphoreCountsQueue
  <2> SUFFICES ASSUME QueueInv, NEW t \in queues
               PROVE  sem[t] = Len(queue[t]) - (IF pc[t] = "wait" THEN 1 ELSE 0)
                               - Cardinality({u \in Threads : pc[u] = "post" /\ target[u] = t})
    BY DEF SemaphoreCountsQueue
  <2>1. Counts(t)
    BY DEF QueueInv, QueueTypes
  <2> QED BY <2>1 DEF Counts, One, Posters
<1> QED BY <1>1, QueueInvAlways, PTL

-------------------------------------------------------------------------------
(* The counts of a mode, in a disciplined program.                           *)

\* Threads that use mode m and have yet to finish.
Active(m) == {t \in Users(m) : pc[t] \notin {"erase", "remove"}}

\* Copies of m that are pushed and have no reference, or no entry, yet.
Unreferenced(m) == Uncounted(m, {"post", "incRef"})
Unentered(m) == Uncounted(m, {"post", "incRef", "insert"})

\* A mode has more active users and queued copies than copies that wait to be
\* counted: that is why it does not die before they are.
Counted(m) ==
    /\ IsFiniteSet(Queued(m))
    /\ refs[m] = Cardinality(Users(m)) + Cardinality(Queued(m))
                 - Cardinality(Unreferenced(m))
    /\ entries[m] = Cardinality(Users(m)) + Cardinality(Queued(m))
                    - Cardinality(Unentered(m))
    /\ Cardinality(Unentered(m)) > 0 =>
          Cardinality(Active(m)) + Cardinality(Queued(m)) > Cardinality(Unentered(m))

\* What the discipline keeps: modes are pushed to threads that receive them.
Receives(t) ==
    /\ pc[t] = "push" => target[t] \in queues /\ pc[target[t]] # "erase"
    /\ pc[t] = "erase" => queue[t] = <<>>

CountTypes == refs \in [Modes -> Int] /\ entries \in [Modes -> Int]

CountInv ==
    /\ QueueInv
    /\ CountTypes
    /\ \A m \in Modes : Counted(m)
    /\ \A t \in Threads : Receives(t)

LEMMA CountInvInit == Init => CountInv
<1> SUFFICES ASSUME Init PROVE CountInv
  OBVIOUS
<1>1. QueueInv
  BY QueueInvInit
<1>2. CountTypes
  BY DEF Init, CountTypes
<1>3. ASSUME NEW m \in Modes
      PROVE  Counted(m)
  <2>1. Users(m) = {} /\ Unreferenced(m) = {} /\ Unentered(m) = {}
    BY NoModeIsNone DEF Init, Users, Unreferenced, Unentered, Uncounted
  <2>2. Queued(m) = {}
    BY DEF Init, Queued
  <2>3. Cardinality({}) = 0 /\ IsFiniteSet({})
    BY FS_EmptySet
  <2>4. refs[m] = 0 /\ entries[m] = 0
    BY DEF Init
  <2> QED BY <2>1, <2>2, <2>3, <2>4 DEF Counted
<1>4. \A t \in Threads : Receives(t)
  BY DEF Init, Receives
<1> QED BY <1>1, <1>2, <1>3, <1>4 DEF CountInv

(* The sizes of the sets of threads are numbers, and are ordered.            *)
LEMMA Sizes ==
    ASSUME NEW m
    PROVE  /\ Cardinality(Users(m)) \in Nat /\ Cardinality(Active(m)) \in Nat
           /\ Cardinality(Unreferenced(m)) \in Nat /\ Cardinality(Unentered(m)) \in Nat
           /\ Cardinality(Active(m)) <= Cardinality(Users(m))
           /\ Cardinality(Unreferenced(m)) <= Cardinality(Unentered(m))
           /\ IsFiniteSet(Users(m)) /\ IsFiniteSet(Active(m))
           /\ IsFiniteSet(Unreferenced(m)) /\ IsFiniteSet(Unentered(m))
<1>1. IsFiniteSet(Users(m)) /\ IsFiniteSet(Unentered(m))
  BY ThreadsAssumption, FS_Subset DEF Users, Unentered, Uncounted
<1>2. Active(m) \in SUBSET Users(m)
  BY DEF Active
<1>3. Unreferenced(m) \in SUBSET Unentered(m)
  BY DEF Unreferenced, Unentered, Uncounted
<1>4. /\ IsFiniteSet(Active(m)) /\ Cardinality(Active(m)) <= Cardinality(Users(m))
      /\ IsFiniteSet(Unreferenced(m))
      /\ Cardinality(Unreferenced(m)) <= Cardinality(Unentered(m))
  BY <1>1, <1>2, <1>3, FS_Subset
<1> QED BY <1>1, <1>4, FS_CardinalityType

(* A step of thread t changes the sets of threads by t alone.                *)
LEMMA SizesChange ==
    ASSUME NEW t \in Threads, OnlyMoves(t), NEW m
    PROVE  /\ Cardinality(Users(m)') =
                 Cardinality(Users(m)) + One(t \in Users(m)') - One(t \in Users(m))
           /\ Cardinality(Active(m)') =
                 Cardinality(Active(m)) + One(t \in Active(m)') - One(t \in Active(m))
           /\ Cardinality(Unreferenced(m)') =
                 Cardinality(Unreferenced(m)) + One(t \in Unreferenced(m)')
                                              - One(t \in Unreferenced(m))
           /\ Cardinality(Unentered(m)') =
                 Cardinality(Unentered(m)) + One(t \in Unentered(m)')
                                           - One(t \in Unentered(m))
<1>1. \A u : u # t => (u \in Users(m) <=> u \in Users(m)')
  BY DEF OnlyMoves, Users
<1>2. \A u : u # t => (u \in Active(m) <=> u \in Active(m)')
  BY <1>1 DEF OnlyMoves, Active, Users
<1>3. \A u : u # t => (u \in Unreferenced(m) <=> u \in Unreferenced(m)')
  BY DEF OnlyMoves, Unreferenced, Uncounted
<1>4. \A u : u # t => (u \in Unentered(m) <=> u \in Unentered(m)')
  BY DEF OnlyMoves, Unentered, Uncounted
<1>5. Cardinality(Users(m)') =
         Cardinality(Users(m)) + One(t \in Users(m)') - One(t \in Users(m))
  BY <1>1, Sizes, SizeChange
<1>6. Cardinality(Active(m)') =
         Cardinality(Active(m)) + One(t \in Active(m)') - One(t \in Active(m))
  BY <1>2, Sizes, SizeChange
<1>7. Cardinality(Unreferenced(m)') =
         Cardinality(Unreferenced(m)) + One(t \in Unreferenced(m)')
                                      - One(t \in Unreferenced(m))
  BY <1>3, Sizes, SizeChange
<1>8. Cardinality(Unentered(m)') =
         Cardinality(Unentered(m)) + One(t \in Unentered(m)') - One(t \in Unentered(m))
  BY <1>4, Sizes, SizeChange
<1> QED BY <1>5, <1>6, <1>7, <1>8

(* What a thread contributes to the counts of a mode.                        *)
LEMMA Contributes ==
    ASSUME NEW t \in Threads, NEW m
    PROVE  /\ t \in Users(m) <=> /\ current[t] = m
                                 /\ pc[t] \notin {"forget", "pop", "wait"}
                                 /\ pc[t] = "post" => call[t] = "copy"
           /\ t \in Active(m) <=> t \in Users(m) /\ pc[t] \notin {"erase", "remove"}
           /\ t \in Unreferenced(m) <=> /\ call[t] = "copy" /\ current[t] = m
                                        /\ pc[t] \in {"post", "incRef"}
           /\ t \in Unentered(m) <=> /\ call[t] = "copy" /\ current[t] = m
                                     /\ pc[t] \in {"post", "incRef", "insert"}
BY DEF Users, Active, Unreferenced, Unentered, Uncounted

LEMMA ContributesNext ==
    ASSUME NEW t \in Threads, NEW m
    PROVE  /\ t \in Users(m)' <=> /\ current'[t] = m
                                  /\ pc'[t] \notin {"forget", "pop", "wait"}
                                  /\ pc'[t] = "post" => call'[t] = "copy"
           /\ t \in Active(m)' <=> t \in Users(m)' /\ pc'[t] \notin {"erase", "remove"}
           /\ t \in Unreferenced(m)' <=> /\ call'[t] = "copy" /\ current'[t] = m
                                         /\ pc'[t] \in {"post", "incRef"}
           /\ t \in Unentered(m)' <=> /\ call'[t] = "copy" /\ current'[t] = m
                                      /\ pc'[t] \in {"post", "incRef", "insert"}
BY DEF Users, Active, Unreferenced, Unentered, Uncounted

LEMMA QueuedSame ==
    ASSUME queue' = queue, NEW m
    PROVE  Queued(m)' = Queued(m)
BY DEF Queued

(* A step in which the counts of mode m, its place in the queues and what t  *)
(* contributes stay as they are.                                             *)
LEMMA CountedSame ==
    ASSUME CountInv, NEW t \in Threads, OnlyMoves(t), queue' = queue, NEW m \in Modes,
           refs'[m] = refs[m], entries'[m] = entries[m],
           t \in Users(m)' <=> t \in Users(m),
           t \in Active(m)' <=> t \in Active(m),
           t \in Unreferenced(m)' <=> t \in Unreferenced(m),
           t \in Unentered(m)' <=> t \in Unentered(m)
    PROVE  Counted(m)'
<1>1. Counted(m) /\ Queued(m)' = Queued(m)
  BY QueuedSame DEF CountInv
<1>2. /\ One(t \in Users(m)') = One(t \in Users(m))
      /\ One(t \in Active(m)') = One(t \in Active(m))
      /\ One(t \in Unreferenced(m)') = One(t \in Unreferenced(m))
      /\ One(t \in Unentered(m)') = One(t \in Unentered(m))
  BY DEF One
<1>3. /\ Cardinality(Users(m)') = Cardinality(Users(m))
      /\ Cardinality(Active(m)') = Cardinality(Active(m))
      /\ Cardinality(Unreferenced(m)') = Cardinality(Unreferenced(m))
      /\ Cardinality(Unentered(m)') = Cardinality(Unentered(m))
  BY <1>2, Sizes, SizesChange, OneType
<1> QED BY <1>1, <1>3 DEF Counted

(* A thread goes on being one that receives unless its target or it begins   *)
(* to finish.                                                                *)
LEMMA ReceivesSame ==
    ASSUME CountInv, NEW t \in Threads, OnlyMoves(t), queues \subseteq queues',
           pc'[t] = "push" => pc[t] = "push" /\ target'[t] = target[t],
           pc'[t] # "erase", NEW u \in Threads,
           pc'[u] = "erase" => queue'[u] = queue[u]
    PROVE  Receives(u)'
<1>1. /\ \A v \in Threads : target[v] \in Threads
      /\ \A v \in Threads : pc'[v] = "erase" => pc[v] = "erase"
  BY DEF CountInv, QueueInv, QueueTypes, OnlyMoves
<1>2. Receives(u)
  BY DEF CountInv
<1>3. pc'[u] = "push" => pc[u] = "push" /\ target'[u] = target[u]
  BY DEF OnlyMoves
<1> QED BY <1>1, <1>2, <1>3 DEF Receives

(* Steps that change neither a count nor a queue, nor who uses a mode.       *)
LEMMA CreateKeepsCounts ==
    ASSUME CountInv, NEW t \in Threads, Create(t)
    PROVE  CountInv'
<1>1. QueueTypes /\ Placed(t) /\ CountTypes
  BY DEF CountInv, QueueInv
<1>2. QueueInv'
  BY CreateKeepsQueues DEF CountInv
<1>3. OnlyMoves(t)
  BY <1>1 DEF Create, Goto, queueVars, OnlyMoves, QueueTypes
<1>5. refs' = refs /\ entries' = entries /\ queue' = queue
  BY DEF Create, countVars, queueVars
<1>6. ASSUME NEW m \in Modes
      PROVE  Counted(m)'
  <2>1. /\ t \in Users(m)' <=> t \in Users(m)
        /\ t \in Active(m)' <=> t \in Active(m)
        /\ t \in Unreferenced(m)' <=> t \in Unreferenced(m)
        /\ t \in Unentered(m)' <=> t \in Unentered(m)
    BY <1>1, Contributes, ContributesNext, NoModeIsNone
       DEF Create, Goto, QueueTypes, Placed, CallOf
  <2> QED BY <1>3, <1>5, <2>1, CountedSame
<1>7. ASSUME NEW u \in Threads
      PROVE  Receives(u)'
  <2>1. /\ pc'[t] \notin {"push", "erase"}
        /\ queues \subseteq queues'
    BY <1>1 DEF Create, Goto, QueueTypes, queueVars, Placed, CallOf
  <2> QED BY <1>3, <1>5, <2>1, ReceivesSame
<1> QED BY <1>1, <1>2, <1>5, <1>6, <1>7 DEF CountInv, CountTypes

LEMMA InitThreadKeepsCounts ==
    ASSUME CountInv, NEW t \in Threads, InitThread(t)
    PROVE  CountInv'
<1>1. QueueTypes /\ Placed(t) /\ CountTypes
  BY DEF CountInv, QueueInv
<1>2. QueueInv'
  BY InitThreadKeepsQueues DEF CountInv
<1>3. OnlyMoves(t)
  BY <1>1 DEF InitThread, Goto, queueVars, OnlyMoves, QueueTypes
<1>5. refs' = refs /\ entries' = entries /\ queue' = queue
  BY DEF InitThread, countVars, queueVars
<1>6. ASSUME NEW m \in Modes
      PROVE  Counted(m)'
  <2>1. /\ t \in Users(m)' <=> t \in Users(m)
        /\ t \in Active(m)' <=> t \in Active(m)
        /\ t \in Unreferenced(m)' <=> t \in Unreferenced(m)
        /\ t \in Unentered(m)' <=> t \in Unentered(m)
    BY <1>1, Contributes, ContributesNext, NoModeIsNone
       DEF InitThread, Goto, QueueTypes, Placed, CallOf
  <2> QED BY <1>3, <1>5, <2>1, CountedSame
<1>7. ASSUME NEW u \in Threads
      PROVE  Receives(u)'
  <2>1. /\ pc'[t] \notin {"push", "erase"}
        /\ queues \subseteq queues'
    BY <1>1 DEF InitThread, Goto, QueueTypes, queueVars, Placed, CallOf
  <2> QED BY <1>3, <1>5, <2>1, ReceivesSame
<1> QED BY <1>1, <1>2, <1>5, <1>6, <1>7 DEF CountInv, CountTypes

LEMMA PostKeepsCounts ==
    ASSUME CountInv, NEW t \in Threads, Post(t)
    PROVE  CountInv'
<1>1. QueueTypes /\ Placed(t) /\ CountTypes
  BY DEF CountInv, QueueInv
<1>2. QueueInv'
  BY PostKeepsQueues DEF CountInv
<1>3. OnlyMoves(t)
  BY <1>1 DEF Post, Goto, queueVars, OnlyMoves, QueueTypes
<1>5. refs' = refs /\ entries' = entries /\ queue' = queue
  BY DEF Post, countVars, queueVars
<1>6. ASSUME NEW m \in Modes
      PROVE  Counted(m)'
  <2>1. /\ t \in Users(m)' <=> t \in Users(m)
        /\ t \in Active(m)' <=> t \in Active(m)
        /\ t \in Unreferenced(m)' <=> t \in Unreferenced(m)
        /\ t \in Unentered(m)' <=> t \in Unentered(m)
    <3>1. /\ pc[t] = "post" /\ current' = current /\ call' = call
          /\ pc'[t] = AfterPush(t)
          /\ call[t] \in {"send", "sendReceive", "copy"}
      BY <1>1 DEF Post, Goto, QueueTypes, Placed, CallOf
    <3>2. /\ call[t] = "send" => pc'[t] = "forget"
          /\ call[t] = "sendReceive" => pc'[t] = "pop"
          /\ call[t] = "copy" => pc'[t] = "incRef"
      BY <3>1 DEF AfterPush
    <3>3. t \in Users(m)' <=> t \in Users(m)
      BY <3>1, <3>2, Contributes, ContributesNext
    <3>4. t \in Active(m)' <=> t \in Active(m)
      BY <3>1, <3>2, <3>3, Contributes, ContributesNext
    <3>5. t \in Unreferenced(m)' <=> t \in Unreferenced(m)
      BY <3>1, <3>2, Contributes, ContributesNext
    <3>6. t \in Unentered(m)' <=> t \in Unentered(m)
      BY <3>1, <3>2, Contributes, ContributesNext
    <3> QED BY <3>3, <3>4, <3>5, <3>6
  <2> QED BY <1>3, <1>5, <2>1, CountedSame
<1>7. ASSUME NEW u \in Threads
      PROVE  Receives(u)'
  <2>1. /\ pc'[t] \notin {"push", "erase"}
        /\ queues \subseteq queues'
    BY <1>1 DEF Post, AfterPush, Goto, QueueTypes, queueVars, Placed, CallOf
  <2> QED BY <1>3, <1>5, <2>1, ReceivesSame
<1> QED BY <1>1, <1>2, <1>5, <1>6, <1>7 DEF CountInv, CountTypes

LEMMA ForgetKeepsCounts ==
    ASSUME CountInv, NEW t \in Threads, Forget(t)
    PROVE  CountInv'
<1>1. QueueTypes /\ Placed(t) /\ CountTypes
  BY DEF CountInv, QueueInv
<1>2. QueueInv'
  BY ForgetKeepsQueues DEF CountInv
<1>3. OnlyMoves(t)
  BY <1>1 DEF Forget, Return, Goto, queueVars, OnlyMoves, QueueTypes
<1>5. refs' = refs /\ entries' = entries /\ queue' = queue
  BY DEF Forget, countVars, queueVars
<1>6. ASSUME NEW m \in Modes
      PROVE  Counted(m)'
  <2>1. /\ t \in Users(m)' <=> t \in Users(m)
        /\ t \in Active(m)' <=> t \in Active(m)
        /\ t \in Unreferenced(m)' <=> t \in Unreferenced(m)
        /\ t \in Unentered(m)' <=> t \in Unentered(m)
    BY <1>1, Contributes, ContributesNext, NoModeIsNone
       DEF Forget, Return, Goto, QueueTypes, Placed, CallOf
  <2> QED BY <1>3, <1>5, <2>1, CountedSame
<1>7. ASSUME NEW u \in Threads
      PROVE  Receives(u)'
  <2>1. /\ pc'[t] \notin {"push", "erase"}
        /\ queues \subseteq queues'
    BY <1>1 DEF Forget, Return, Goto, QueueTypes, queueVars, Placed, CallOf
  <2> QED BY <1>3, <1>5, <2>1, ReceivesSame
<1> QED BY <1>1, <1>2, <1>5, <1>6, <1>7 DEF CountInv, CountTypes

LEMMA PopKeepsCounts ==
    ASSUME CountInv, NEW t \in Threads, Pop(t)
    PROVE  CountInv'
<1>1. QueueTypes /\ Placed(t) /\ CountTypes
  BY DEF CountInv, QueueInv
<1>2. QueueInv'
  BY PopKeepsQueues DEF CountInv
<1>3. OnlyMoves(t)
  BY <1>1 DEF Pop, Goto, queueVars, OnlyMoves, QueueTypes
<1>5. refs' = refs /\ entries' = entries /\ queue' = queue
  BY DEF Pop, countVars, queueVars
<1>6. ASSUME NEW m \in Modes
      PROVE  Counted(m)'
  <2>1. /\ t \in Users(m)' <=> t \in Users(m)
        /\ t \in Active(m)' <=> t \in Active(m)
        /\ t \in Unreferenced(m)' <=> t \in Unreferenced(m)
        /\ t \in Unentered(m)' <=> t \in Unentered(m)
    BY <1>1, Contributes, ContributesNext, NoModeIsNone
       DEF Pop, Goto, QueueTypes, Placed, CallOf
  <2> QED BY <1>3, <1>5, <2>1, CountedSame
<1>7. ASSUME NEW u \in Threads
      PROVE  Receives(u)'
  <2>1. /\ pc'[t] \notin {"push", "erase"}
        /\ queues \subseteq queues'
    BY <1>1 DEF Pop, Goto, QueueTypes, queueVars, Placed, CallOf
  <2> QED BY <1>3, <1>5, <2>1, ReceivesSame
<1> QED BY <1>1, <1>2, <1>5, <1>6, <1>7 DEF CountInv, CountTypes

LEMMA ReceiveKeepsCounts ==
    ASSUME CountInv, NEW t \in Threads, Receive(t), Disciplined
    PROVE  CountInv'
<1>1. QueueTypes /\ Placed(t) /\ CountTypes
  BY DEF CountInv, QueueInv
<1>2. QueueInv'
  BY ReceiveKeepsQueues DEF CountInv
<1>3. OnlyMoves(t)
  BY <1>1 DEF Receive, Goto, queueVars, OnlyMoves, QueueTypes
<1>5. refs' = refs /\ entries' = entries /\ queue' = queue
  BY DEF Receive, MayReceive, countVars, queueVars
<1>6. ASSUME NEW m \in Modes
      PROVE  Counted(m)'
  <2>1. /\ t \in Users(m)' <=> t \in Users(m)
        /\ t \in Active(m)' <=> t \in Active(m)
        /\ t \in Unreferenced(m)' <=> t \in Unreferenced(m)
        /\ t \in Unentered(m)' <=> t \in Unentered(m)
    BY <1>1, Contributes, ContributesNext, NoModeIsNone
       DEF Receive, MayReceive, Goto, QueueTypes, Placed, CallOf
  <2> QED BY <1>3, <1>5, <2>1, CountedSame
<1>7. ASSUME NEW u \in Threads
      PROVE  Receives(u)'
  <2>1. /\ pc'[t] \notin {"push", "erase"}
        /\ queues \subseteq queues'
    BY <1>1 DEF Receive, Goto, QueueTypes, queueVars, Placed, CallOf
  <2> QED BY <1>3, <1>5, <2>1, ReceivesSame
<1> QED BY <1>1, <1>2, <1>5, <1>6, <1>7 DEF CountInv, CountTypes

LEMMA StartPushKeepsCounts ==
    ASSUME CountInv, NEW t \in Threads, NEW u \in Threads, Disciplined,
           NEW c \in {"send", "sendReceive", "copy"}, StartPush(t, u, c)
    PROVE  CountInv'
<1>1. QueueTypes /\ Placed(t) /\ CountTypes
  BY DEF CountInv, QueueInv
<1>2. QueueInv'
  BY StartPushKeepsQueues DEF CountInv
<1>3. OnlyMoves(t)
  BY <1>1 DEF StartPush, Goto, queueVars, OnlyMoves, QueueTypes
<1>4. /\ refs' = refs /\ entries' = entries /\ queue' = queue /\ queues' = queues
      /\ pc[t] = "run" /\ pc'[t] = "push" /\ target'[t] = u
      /\ current'[t] = current[t] /\ call[t] = "none"
  BY <1>1 DEF StartPush, Goto, countVars, queueVars, QueueTypes, Placed, CallOf
<1>5. ASSUME NEW m \in Modes
      PROVE  Counted(m)'
  <2>1. /\ t \in Users(m)' <=> t \in Users(m)
        /\ t \in Active(m)' <=> t \in Active(m)
        /\ t \in Unreferenced(m)' <=> t \in Unreferenced(m)
        /\ t \in Unentered(m)' <=> t \in Unentered(m)
    BY <1>4, Contributes, ContributesNext
  <2> QED BY <1>3, <1>4, <2>1, CountedSame
<1>6. ASSUME NEW v \in Threads
      PROVE  Receives(v)'
  <2>1. u # t /\ u \in queues /\ pc[u] # "erase"
    BY DEF StartPush, MayPushTo
  <2>2. CASE v = t
    BY <1>3, <1>4, <2>1, <2>2 DEF OnlyMoves, Receives
  <2>3. CASE v # t
    <3>1. Receives(v) /\ target[v] \in Threads
      BY <1>1 DEF CountInv, QueueTypes
    <3> QED BY <1>3, <1>4, <2>3, <3>1 DEF OnlyMoves, Receives
  <2> QED BY <2>2, <2>3
<1> QED BY <1>1, <1>2, <1>4, <1>5, <1>6 DEF CountInv, CountTypes

(* The queue of a thread that finishes is empty.                             *)
LEMMA EraseKeepsCounts ==
    ASSUME CountInv, NEW t \in Threads, Erase(t)
    PROVE  CountInv'
<1>1. QueueTypes /\ Placed(t) /\ CountTypes /\ Receives(t)
  BY DEF CountInv, QueueInv
<1>2. QueueInv'
  BY EraseKeepsQueues DEF CountInv
<1>3. OnlyMoves(t)
  BY <1>1 DEF Erase, Goto, OnlyMoves, QueueTypes
<1>4. queue' = queue
  BY <1>1 DEF Erase, QueueTypes, Receives
<1>5. /\ refs' = refs /\ entries' = entries
      /\ pc[t] = "erase" /\ pc'[t] = "remove" /\ queues' = queues \ {t}
      /\ current'[t] = current[t] /\ call'[t] = call[t]
  BY <1>1 DEF Erase, Goto, countVars, QueueTypes
<1>6. ASSUME NEW m \in Modes
      PROVE  Counted(m)'
  <2>1. /\ t \in Users(m)' <=> t \in Users(m)
        /\ t \in Active(m)' <=> t \in Active(m)
        /\ t \in Unreferenced(m)' <=> t \in Unreferenced(m)
        /\ t \in Unentered(m)' <=> t \in Unentered(m)
    BY <1>5, Contributes, ContributesNext
  <2> QED BY <1>3, <1>4, <1>5, <2>1, CountedSame
<1>7. ASSUME NEW v \in Threads
      PROVE  Receives(v)'
  <2>1. Receives(v) /\ target[v] \in Threads
    BY <1>1 DEF CountInv, QueueTypes
  <2> QED BY <1>3, <1>4, <1>5, <2>1 DEF OnlyMoves, Receives
<1> QED BY <1>1, <1>2, <1>5, <1>6, <1>7 DEF CountInv, CountTypes

(* No copy of the mode of a thread that finishes waits to be counted.        *)
LEMMA FinishKeepsCounts ==
    ASSUME CountInv, NEW t \in Threads, Disciplined, Finish(t)
    PROVE  CountInv'
<1>1. QueueTypes /\ Placed(t) /\ CountTypes
  BY DEF CountInv, QueueInv
<1>2. QueueInv'
  BY FinishKeepsQueues DEF CountInv
<1>3. OnlyMoves(t)
  BY <1>1 DEF Finish, Goto, queueVars, OnlyMoves, QueueTypes
<1>4. /\ refs' = refs /\ entries' = entries /\ queue' = queue /\ queues' = queues
      /\ pc[t] = "run" /\ pc'[t] = "erase" /\ current'[t] = current[t]
      /\ call[t] = "none" /\ call'[t] = "none"
  BY <1>1 DEF Finish, Goto, countVars, queueVars, QueueTypes, Placed, CallOf
<1>5. /\ queue[t] = <<>>
      /\ \A u \in Threads : pc[u] \in {"push", "post"} => target[u] # t
      /\ \A u \in Threads : call[u] = "copy" => current[u] # current[t]
  BY DEF Finish, MayFinish, Pushing, Copying
<1>6. ASSUME NEW m \in Modes
      PROVE  Counted(m)'
  <2>1. CASE current[t] = m
    <3>1. Unentered(m) = {} /\ Unreferenced(m) = {}
      BY <1>5, <2>1 DEF Unentered, Unreferenced, Uncounted
    <3>2. Unentered(m)' = {} /\ Unreferenced(m)' = {}
      BY <1>3, <1>4, <1>5, <2>1 DEF Unentered, Unreferenced, Uncounted, OnlyMoves
    <3>3. Cardinality(Users(m)') = Cardinality(Users(m))
      <4>1. t \in Users(m)' <=> t \in Users(m)
        BY <1>4, Contributes, ContributesNext
      <4>2. One(t \in Users(m)') = One(t \in Users(m))
        BY <4>1 DEF One
      <4> QED BY <1>3, <4>2, SizesChange, Sizes, OneType
    <3>4. Counted(m) /\ Queued(m)' = Queued(m)
      BY <1>4, QueuedSame DEF CountInv
    <3>5. Cardinality({}) = 0
      BY FS_EmptySet
    <3> QED BY <1>4, <3>1, <3>2, <3>3, <3>4, <3>5 DEF Counted
  <2>2. CASE current[t] # m
    <3>1. /\ t \in Users(m)' <=> t \in Users(m)
          /\ t \in Active(m)' <=> t \in Active(m)
          /\ t \in Unreferenced(m)' <=> t \in Unreferenced(m)
          /\ t \in Unentered(m)' <=> t \in Unentered(m)
      BY <1>4, <2>2, Contributes, ContributesNext
    <3> QED BY <1>3, <1>4, <3>1, CountedSame
  <2> QED BY <2>1, <2>2
<1>7. ASSUME NEW v \in Threads
      PROVE  Receives(v)'
  <2>1. Receives(v) /\ target[v] \in Threads
    BY <1>1 DEF CountInv, QueueTypes
  <2> QED BY <1>3, <1>4, <1>5, <2>1 DEF OnlyMoves, Receives
<1> QED BY <1>1, <1>2, <1>4, <1>6, <1>7 DEF CountInv, CountTypes

(* A mode that is made has no user and is in no queue.                       *)
LEMMA CreateModeKeepsCounts ==
    ASSUME CountInv, NEW t \in Threads, CreateMode(t)
    PROVE  CountInv'
<1>1. QueueTypes /\ Placed(t) /\ CountTypes
  BY DEF CountInv, QueueInv
<1>2. QueueInv'
  BY CreateModeKeepsQueues DEF CountInv
<1>3. OnlyMoves(t)
  BY <1>1 DEF CreateMode, queueVars, OnlyMoves, QueueTypes
<1>4. PICK n \in Modes : /\ refs[n] = 0 /\ entries[n] = 0
                         /\ refs' = [refs EXCEPT ![n] = 1]
                         /\ entries' = [entries EXCEPT ![n] = 1]
                         /\ current' = [current EXCEPT ![t] = n]
  BY DEF CreateMode
<1>5. /\ queue' = queue /\ queues' = queues /\ pc' = pc /\ call' = call
      /\ pc[t] = "run" /\ current[t] = NoMode /\ current'[t] = n /\ call[t] = "none"
  BY <1>1, <1>4 DEF CreateMode, queueVars, QueueTypes, Placed, CallOf
<1>6. ASSUME NEW m \in Modes
      PROVE  Counted(m)'
  <2>1. CASE m = n
    <3>1. /\ t \notin Users(m) /\ t \in Users(m)'
          /\ t \notin Active(m) /\ t \in Active(m)'
          /\ t \notin Unreferenced(m) /\ t \notin Unreferenced(m)'
          /\ t \notin Unentered(m) /\ t \notin Unentered(m)'
      BY <1>5, <2>1, Contributes, ContributesNext, NoModeIsNone
    <3>2. /\ One(t \in Users(m)') = 1 /\ One(t \in Users(m)) = 0
          /\ One(t \in Active(m)') = 1 /\ One(t \in Active(m)) = 0
          /\ One(t \in Unreferenced(m)') = 0 /\ One(t \in Unreferenced(m)) = 0
          /\ One(t \in Unentered(m)') = 0 /\ One(t \in Unentered(m)) = 0
      BY <3>1 DEF One
    <3>3. /\ Cardinality(Users(m)') = Cardinality(Users(m)) + 1
          /\ Cardinality(Active(m)') = Cardinality(Active(m)) + 1
          /\ Cardinality(Unreferenced(m)') = Cardinality(Unreferenced(m))
          /\ Cardinality(Unentered(m)') = Cardinality(Unentered(m))
      BY <1>3, <3>2, SizesChange, Sizes
    <3>4. Counted(m) /\ Queued(m)' = Queued(m) /\ Cardinality(Queued(m)) \in Nat
      BY <1>5, QueuedSame, FS_CardinalityType DEF CountInv, Counted
    <3>5. refs[m] = 0 /\ entries[m] = 0 /\ refs'[m] = 1 /\ entries'[m] = 1
      BY <1>1, <1>4, <2>1 DEF CountTypes
    <3>6. Cardinality(Unentered(m)) = 0 /\ Cardinality(Unreferenced(m)) = 0
      <4>1. /\ Cardinality(Users(m)) \in Nat /\ Cardinality(Active(m)) \in Nat
            /\ Cardinality(Unreferenced(m)) \in Nat /\ Cardinality(Unentered(m)) \in Nat
            /\ Cardinality(Active(m)) <= Cardinality(Users(m))
            /\ Cardinality(Unreferenced(m)) <= Cardinality(Unentered(m))
        BY Sizes
      <4> QED BY <3>4, <3>5, <4>1 DEF Counted
    <3>7. Cardinality(Users(m)) = 0 /\ Cardinality(Queued(m)) = 0
      BY <3>4, <3>5, <3>6, Sizes DEF Counted
    <3> QED BY <3>3, <3>4, <3>5, <3>6, <3>7 DEF Counted
  <2>2. CASE m # n
    <3>1. /\ t \in Users(m)' <=> t \in Users(m)
          /\ t \in Active(m)' <=> t \in Active(m)
          /\ t \in Unreferenced(m)' <=> t \in Unreferenced(m)
          /\ t \in Unentered(m)' <=> t \in Unentered(m)
      BY <1>5, <2>2, Contributes, ContributesNext, NoModeIsNone
    <3>2. refs'[m] = refs[m] /\ entries'[m] = entries[m]
      BY <1>1, <1>4, <2>2 DEF CountTypes
    <3> QED BY <1>3, <1>5, <3>1, <3>2, CountedSame
  <2> QED BY <2>1, <2>2
<1>7. ASSUME NEW u \in Threads
      PROVE  Receives(u)'
  BY <1>3, <1>5, ReceivesSame
<1>8. CountTypes'
  BY <1>1, <1>4 DEF CountTypes
<1> QED BY <1>2, <1>6, <1>7, <1>8 DEF CountInv

(* The mode of a thread that is deleted has an entry to be taken away.       *)
LEMMA RemoveModeKeepsCounts ==
    ASSUME CountInv, NEW t \in Threads, RemoveMode(t)
    PROVE  CountInv'
<1>1. QueueTypes /\ Placed(t) /\ CountTypes
  BY DEF CountInv, QueueInv
<1>2. QueueInv'
  BY RemoveModeKeepsQueues DEF CountInv
<1>3. OnlyMoves(t)
  BY <1>1 DEF RemoveMode, Goto, queueVars, OnlyMoves, QueueTypes
<1>4. /\ queue' = queue /\ queues' = queues /\ pc[t] = "remove" /\ pc'[t] = "done"
      /\ current'[t] = NoMode /\ call[t] = "none" /\ call'[t] = "none"
      /\ current[t] \in Modes \cup {NoMode}
  BY <1>1 DEF RemoveMode, Goto, queueVars, QueueTypes, Placed, CallOf
<1>5. CountTypes'
  BY <1>1, <1>4, NoModeIsNone DEF RemoveMode, countVars, CountTypes
<1>6. ASSUME NEW m \in Modes
      PROVE  Counted(m)'
  <2>1. CASE current[t] = m
    <3>1. /\ t \in Users(m) /\ t \notin Users(m)'
          /\ t \notin Active(m) /\ t \notin Active(m)'
          /\ t \notin Unreferenced(m) /\ t \notin Unreferenced(m)'
          /\ t \notin Unentered(m) /\ t \notin Unentered(m)'
      BY <1>4, <2>1, Contributes, ContributesNext, NoModeIsNone
    <3>2. /\ One(t \in Users(m)') = 0 /\ One(t \in Users(m)) = 1
          /\ One(t \in Active(m)') = 0 /\ One(t \in Active(m)) = 0
          /\ One(t \in Unreferenced(m)') = 0 /\ One(t \in Unreferenced(m)) = 0
          /\ One(t \in Unentered(m)') = 0 /\ One(t \in Unentered(m)) = 0
      BY <3>1 DEF One
    <3>3. /\ Cardinality(Users(m)') = Cardinality(Users(m)) - 1
          /\ Cardinality(Active(m)') = Cardinality(Active(m))
          /\ Cardinality(Unreferenced(m)') = Cardinality(Unreferenced(m))
          /\ Cardinality(Unentered(m)') = Cardinality(Unentered(m))
      BY <1>3, <3>2, SizesChange, Sizes
    <3>4. Counted(m) /\ Queued(m)' = Queued(m) /\ Cardinality(Queued(m)) \in Nat
      BY <1>4, QueuedSame, FS_CardinalityType DEF CountInv, Counted
    <3>5. /\ Cardinality(Users(m)) \in Nat /\ Cardinality(Active(m)) \in Nat
          /\ Cardinality(Unreferenced(m)) \in Nat /\ Cardinality(Unentered(m)) \in Nat
          /\ Cardinality(Active(m)) <= Cardinality(Users(m)) - 1
      <4>1. Active(m) \in SUBSET (Users(m) \ {t})
        BY <3>1 DEF Active
      <4>2. /\ IsFiniteSet(Users(m) \ {t})
            /\ Cardinality(Users(m) \ {t}) = Cardinality(Users(m)) - 1
        BY <3>1, Sizes, FS_RemoveElement
      <4>3. Cardinality(Active(m)) <= Cardinality(Users(m)) - 1
        BY <4>1, <4>2, FS_Subset
      <4> QED BY <4>3, Sizes
    <3>6. entries[m] # 0
      BY <3>4, <3>5 DEF Counted
    <3>7. entries'[m] = entries[m] - 1 /\ refs'[m] = refs[m] - 1
      BY <1>1, <2>1, <3>6, NoModeIsNone DEF RemoveMode, CountTypes
    <3> QED BY <3>3, <3>4, <3>5, <3>7 DEF Counted
  <2>2. CASE current[t] # m
    <3>1. /\ t \in Users(m)' <=> t \in Users(m)
          /\ t \in Active(m)' <=> t \in Active(m)
          /\ t \in Unreferenced(m)' <=> t \in Unreferenced(m)
          /\ t \in Unentered(m)' <=> t \in Unentered(m)
      BY <1>4, <2>2, Contributes, ContributesNext, NoModeIsNone
    <3>2. refs'[m] = refs[m] /\ entries'[m] = entries[m]
      BY <1>1, <1>4, <2>2 DEF RemoveMode, countVars, CountTypes
    <3> QED BY <1>3, <1>4, <3>1, <3>2, CountedSame
  <2> QED BY <2>1, <2>2
<1>7. ASSUME NEW u \in Threads
      PROVE  Receives(u)'
  BY <1>3, <1>4, ReceivesSame
<1> QED BY <1>2, <1>5, <1>6, <1>7 DEF CountInv

LEMMA IncRefKeepsCounts ==
    ASSUME CountInv, NEW t \in Threads, IncRef(t)
    PROVE  CountInv'
<1>1. QueueTypes /\ Placed(t) /\ CountTypes
  BY DEF CountInv, QueueInv
<1>2. QueueInv'
  BY IncRefKeepsQueues DEF CountInv
<1>3. OnlyMoves(t)
  BY <1>1 DEF IncRef, Goto, queueVars, OnlyMoves, QueueTypes
<1>4. /\ queue' = queue /\ queues' = queues /\ entries' = entries
      /\ pc[t] = "incRef" /\ pc'[t] = "insert"
      /\ current'[t] = current[t] /\ call[t] = "copy" /\ call'[t] = "copy"
      /\ current[t] \in Modes
  BY <1>1 DEF IncRef, Goto, queueVars, QueueTypes, Placed, CallOf
<1>5. CountTypes'
  BY <1>1, <1>4 DEF IncRef, CountTypes
<1>6. ASSUME NEW m \in Modes
      PROVE  Counted(m)'
  <2>1. CASE current[t] = m
    <3>1. /\ t \in Users(m) /\ t \in Users(m)'
          /\ t \in Active(m) /\ t \in Active(m)'
          /\ t \in Unreferenced(m) /\ t \notin Unreferenced(m)'
          /\ t \in Unentered(m) /\ t \in Unentered(m)'
      BY <1>4, <2>1, Contributes, ContributesNext
    <3>2. /\ One(t \in Users(m)') = 1 /\ One(t \in Users(m)) = 1
          /\ One(t \in Active(m)') = 1 /\ One(t \in Active(m)) = 1
          /\ One(t \in Unreferenced(m)') = 0 /\ One(t \in Unreferenced(m)) = 1
          /\ One(t \in Unentered(m)') = 1 /\ One(t \in Unentered(m)) = 1
      BY <3>1 DEF One
    <3>3. /\ Cardinality(Users(m)') = Cardinality(Users(m))
          /\ Cardinality(Active(m)') = Cardinality(Active(m))
          /\ Cardinality(Unreferenced(m)') = Cardinality(Unreferenced(m)) - 1
          /\ Cardinality(Unentered(m)') = Cardinality(Unentered(m))
      BY <1>3, <3>2, SizesChange, Sizes
    <3>4. Counted(m) /\ Queued(m)' = Queued(m) /\ Cardinality(Queued(m)) \in Nat
      BY <1>4, QueuedSame, FS_CardinalityType DEF CountInv, Counted
    <3>5. refs'[m] = refs[m] + 1
      BY <1>1, <2>1 DEF IncRef, CountTypes
    <3> QED BY <1>4, <3>3, <3>4, <3>5, Sizes DEF Counted
  <2>2. CASE current[t] # m
    <3>1. /\ t \in Users(m)' <=> t \in Users(m)
          /\ t \in Active(m)' <=> t \in Active(m)
          /\ t \in Unreferenced(m)' <=> t \in Unreferenced(m)
          /\ t \in Unentered(m)' <=> t \in Unentered(m)
      BY <1>4, <2>2, Contributes, ContributesNext
    <3>2. refs'[m] = refs[m]
      BY <1>1, <2>2 DEF IncRef, CountTypes
    <3> QED BY <1>3, <1>4, <3>1, <3>2, CountedSame
  <2> QED BY <2>1, <2>2
<1>7. ASSUME NEW u \in Threads
      PROVE  Receives(u)'
  BY <1>3, <1>4, ReceivesSame
<1> QED BY <1>2, <1>5, <1>6, <1>7 DEF CountInv

LEMMA InsertKeepsCounts ==
    ASSUME CountInv, NEW t \in Threads, Insert(t)
    PROVE  CountInv'
<1>1. QueueTypes /\ Placed(t) /\ CountTypes
  BY DEF CountInv, QueueInv
<1>2. QueueInv'
  BY InsertKeepsQueues DEF CountInv
<1>3. OnlyMoves(t)
  BY <1>1 DEF Insert, Return, Goto, queueVars, OnlyMoves, QueueTypes
<1>4. /\ queue' = queue /\ queues' = queues /\ refs' = refs
      /\ pc[t] = "insert" /\ pc'[t] = "run"
      /\ current'[t] = current[t] /\ call[t] = "copy" /\ call'[t] = "none"
      /\ current[t] \in Modes
  BY <1>1 DEF Insert, Return, Goto, queueVars, QueueTypes, Placed, CallOf
<1>5. CountTypes'
  BY <1>1, <1>4 DEF Insert, CountTypes
<1>6. ASSUME NEW m \in Modes
      PROVE  Counted(m)'
  <2>1. CASE current[t] = m
    <3>1. /\ t \in Users(m) /\ t \in Users(m)'
          /\ t \in Active(m) /\ t \in Active(m)'
          /\ t \notin Unreferenced(m) /\ t \notin Unreferenced(m)'
          /\ t \in Unentered(m) /\ t \notin Unentered(m)'
      BY <1>4, <2>1, Contributes, ContributesNext
    <3>2. /\ One(t \in Users(m)') = 1 /\ One(t \in Users(m)) = 1
          /\ One(t \in Active(m)') = 1 /\ One(t \in Active(m)) = 1
          /\ One(t \in Unreferenced(m)') = 0 /\ One(t \in Unreferenced(m)) = 0
          /\ One(t \in Unentered(m)') = 0 /\ One(t \in Unentered(m)) = 1
      BY <3>1 DEF One
    <3>3. /\ Cardinality(Users(m)') = Cardinality(Users(m))
          /\ Cardinality(Active(m)') = Cardinality(Active(m))
          /\ Cardinality(Unreferenced(m)') = Cardinality(Unreferenced(m))
          /\ Cardinality(Unentered(m)') = Cardinality(Unentered(m)) - 1
      BY <1>3, <3>2, SizesChange, Sizes
    <3>4. Counted(m) /\ Queued(m)' = Queued(m) /\ Cardinality(Queued(m)) \in Nat
      BY <1>4, QueuedSame, FS_CardinalityType DEF CountInv, Counted
    <3>5. entries'[m] = entries[m] + 1
      BY <1>1, <2>1 DEF Insert, CountTypes
    <3>6. /\ Cardinality(Users(m)) \in Nat /\ Cardinality(Active(m)) \in Nat
          /\ Cardinality(Unreferenced(m)) \in Nat /\ Cardinality(Unentered(m)) \in Nat
      BY Sizes
    <3> QED BY <1>4, <3>3, <3>4, <3>5, <3>6 DEF Counted
  <2>2. CASE current[t] # m
    <3>1. /\ t \in Users(m)' <=> t \in Users(m)
          /\ t \in Active(m)' <=> t \in Active(m)
          /\ t \in Unreferenced(m)' <=> t \in Unreferenced(m)
          /\ t \in Unentered(m)' <=> t \in Unentered(m)
      BY <1>4, <2>2, Contributes, ContributesNext
    <3>2. entries'[m] = entries[m]
      BY <1>1, <2>2 DEF Insert, CountTypes
    <3> QED BY <1>3, <1>4, <3>1, <3>2, CountedSame
  <2> QED BY <2>1, <2>2
<1>7. ASSUME NEW u \in Threads
      PROVE  Receives(u)'
  BY <1>3, <1>4, ReceivesSame
<1> QED BY <1>2, <1>5, <1>6, <1>7 DEF CountInv

LEMMA QueuedPairs ==
    ASSUME NEW m, NEW y
    PROVE  y \in Queued(m) <=>
              \E u \in Threads : \E i \in DOMAIN queue[u] : y = <<u, i>> /\ queue[u][i] = m
BY DEF Queued

LEMMA QueuedPairsNext ==
    ASSUME NEW m, NEW y
    PROVE  y \in Queued(m)' <=>
              \E u \in Threads : \E i \in DOMAIN queue'[u] : y = <<u, i>> /\ queue'[u][i] = m
BY DEF Queued

(* A push adds the place at the end of the queue to those of its mode.       *)
LEMMA QueuedPush ==
    ASSUME QueueTypes, NEW v \in Threads, NEW n \in Modes, NEW m,
           queue'[v] = Append(queue[v], n),
           \A u \in Threads \ {v} : queue'[u] = queue[u], IsFiniteSet(Queued(m))
    PROVE  /\ IsFiniteSet(Queued(m)')
           /\ Cardinality(Queued(m)) \in Nat
           /\ Cardinality(Queued(m)') = Cardinality(Queued(m)) + One(n = m)
<1> DEFINE x == <<v, Len(queue[v]) + 1>>
<1>1. /\ queue[v] \in Seq(Modes) /\ Len(queue[v]) \in Nat
      /\ DOMAIN queue[v] = 1 .. Len(queue[v])
  BY DEF QueueTypes
<1>2. /\ DOMAIN queue'[v] = 1 .. Len(queue[v]) + 1
      /\ \A i \in 1 .. Len(queue[v]) : queue'[v][i] = queue[v][i]
      /\ queue'[v][Len(queue[v]) + 1] = n
  BY <1>1, AppendProperties
<1>3. ASSUME NEW y, y # x
      PROVE  y \in Queued(m) <=> y \in Queued(m)'
  <2>1. ASSUME NEW u \in Threads, NEW i, y = <<u, i>>
        PROVE  i \in DOMAIN queue[u] /\ queue[u][i] = m
                  <=> i \in DOMAIN queue'[u] /\ queue'[u][i] = m
    <3>1. CASE u # v
      BY <3>1
    <3>2. CASE u = v
      <4>1. i # Len(queue[v]) + 1
        BY <1>3, <2>1, <3>2
      <4>2. i \in 1 .. Len(queue[v]) + 1 <=> i \in 1 .. Len(queue[v])
        BY <1>1, <4>1
      <4> QED BY <1>1, <1>2, <3>2, <4>2
    <3> QED BY <3>1, <3>2
  <2> QED BY <2>1, QueuedPairs, QueuedPairsNext
<1>4. x \notin Queued(m)
  BY <1>1, QueuedPairs
<1>5. x \in Queued(m)' <=> n = m
  BY <1>1, <1>2, QueuedPairsNext
<1>6. One(x \in Queued(m)) = 0 /\ One(x \in Queued(m)') = One(n = m)
  BY <1>4, <1>5 DEF One
<1>7. /\ IsFiniteSet(Queued(m)') /\ Cardinality(Queued(m)) \in Nat
      /\ Cardinality(Queued(m)') =
            Cardinality(Queued(m)) + One(x \in Queued(m)') - One(x \in Queued(m))
  <2> HIDE DEF x
  <2> QED BY <1>3, SizeChange
<1>8. One(n = m) \in {0, 1}
  BY OneType
<1> QED BY <1>6, <1>7, <1>8

(* A pop takes the first place away, and moves the others up by one.         *)
LEMMA QueuedPop ==
    ASSUME QueueTypes, NEW v \in Threads, queue[v] # <<>>, NEW m,
           queue' = [queue EXCEPT ![v] = Tail(@)], IsFiniteSet(Queued(m))
    PROVE  /\ IsFiniteSet(Queued(m)')
           /\ Cardinality(Queued(m)) \in Nat /\ Cardinality(Queued(m)') \in Nat
           /\ Cardinality(Queued(m)') = Cardinality(Queued(m)) - One(Head(queue[v]) = m)
<1> DEFINE Rest == Queued(m) \ {<<v, 1>>}
           up(y) == IF y[1] = v THEN <<v, y[2] - 1>> ELSE y
           move == [y \in Rest |-> up(y)]
<1>1. /\ queue[v] \in Seq(Modes) /\ Len(queue[v]) \in Nat
      /\ DOMAIN queue[v] = 1 .. Len(queue[v])
  BY DEF QueueTypes
<1>2. /\ Tail(queue[v]) \in Seq(Modes) /\ Len(Tail(queue[v])) = Len(queue[v]) - 1
      /\ \A i \in 1 .. Len(Tail(queue[v])) : Tail(queue[v])[i] = queue[v][i + 1]
      /\ Head(queue[v]) = queue[v][1] /\ Len(queue[v]) >= 1
  BY <1>1, HeadTailProperties
<1>3. /\ DOMAIN queue'[v] = 1 .. Len(queue[v]) - 1
      /\ \A i \in 1 .. Len(queue[v]) - 1 : queue'[v][i] = queue[v][i + 1]
      /\ \A u \in Threads \ {v} : queue'[u] = queue[u]
  BY <1>1, <1>2 DEF QueueTypes
<1>4. ASSUME NEW y \in Rest
      PROVE  up(y) \in Queued(m)'
  <2> PICK u \in Threads : \E i \in DOMAIN queue[u] : y = <<u, i>> /\ queue[u][i] = m
    BY QueuedPairs
  <2>1. PICK i \in DOMAIN queue[u] : y = <<u, i>> /\ queue[u][i] = m
    OBVIOUS
  <2>2. CASE u # v
    BY <1>3, <2>1, <2>2, QueuedPairsNext
  <2>3. CASE u = v
    <3>1. i \in 1 .. Len(queue[v]) /\ i # 1
      BY <1>1, <1>4, <2>1, <2>3
    <3>2. i - 1 \in 1 .. Len(queue[v]) - 1 /\ (i - 1) + 1 = i
      BY <1>1, <3>1
    <3>3. queue'[v][i - 1] = m /\ i - 1 \in DOMAIN queue'[v]
      BY <1>3, <2>1, <2>3, <3>2
    <3>4. up(y) = <<v, i - 1>>
      BY <2>1, <2>3
    <3> QED BY <3>3, <3>4, QueuedPairsNext
  <2> QED BY <2>2, <2>3
<1>5. ASSUME NEW z \in Queued(m)'
      PROVE  \E y \in Rest : up(y) = z
  <2> PICK u \in Threads : \E i \in DOMAIN queue'[u] : z = <<u, i>> /\ queue'[u][i] = m
    BY QueuedPairsNext
  <2>1. PICK i \in DOMAIN queue'[u] : z = <<u, i>> /\ queue'[u][i] = m
    OBVIOUS
  <2>2. CASE u # v
    <3>1. z \in Queued(m) /\ z # <<v, 1>>
      BY <1>3, <2>1, <2>2, QueuedPairs
    <3> QED BY <2>1, <2>2, <3>1
  <2>3. CASE u = v
    <3>1. /\ i \in 1 .. Len(queue[v]) - 1 /\ i + 1 \in 1 .. Len(queue[v])
          /\ i + 1 # 1 /\ (i + 1) - 1 = i
      BY <1>1, <1>3, <2>1, <2>3
    <3>2. queue[v][i + 1] = m /\ i + 1 \in DOMAIN queue[v]
      BY <1>1, <1>3, <2>1, <2>3, <3>1
    <3>3. <<v, i + 1>> \in Rest
      BY <3>1, <3>2, QueuedPairs
    <3>4. up(<<v, i + 1>>) = z
      BY <2>1, <2>3, <3>1
    <3> QED BY <3>3, <3>4
  <2> QED BY <2>2, <2>3
<1>6. ASSUME NEW y \in Rest, NEW z \in Rest, up(y) = up(z)
      PROVE  y = z
  <2> PICK u \in Threads : \E i \in DOMAIN queue[u] : y = <<u, i>>
    BY QueuedPairs
  <2> PICK w \in Threads : \E j \in DOMAIN queue[w] : z = <<w, j>>
    BY QueuedPairs
  <2>1. PICK i \in DOMAIN queue[u] : y = <<u, i>>
    OBVIOUS
  <2>2. PICK j \in DOMAIN queue[w] : z = <<w, j>>
    OBVIOUS
  <2>3. CASE u = v /\ w = v
    BY <1>1, <1>6, <2>1, <2>2, <2>3
  <2>4. CASE ~(u = v /\ w = v)
    BY <1>6, <2>1, <2>2, <2>4
  <2> QED BY <2>3, <2>4
<1>7. ExistsBijection(Rest, Queued(m)')
  <2>1. move \in [Rest -> Queued(m)']
    BY <1>4
  <2>2. move \in Injection(Rest, Queued(m)')
    BY <1>6, <2>1 DEF Injection, IsInjective
  <2>3. move \in Surjection(Rest, Queued(m)')
    BY <1>5, <2>1 DEF Surjection
  <2> QED BY <2>2, <2>3 DEF Bijection, ExistsBijection
<1>8. <<v, 1>> \in Queued(m) <=> Head(queue[v]) = m
  BY <1>1, <1>2, QueuedPairs
<1>9. /\ IsFiniteSet(Rest) /\ Cardinality(Queued(m)) \in Nat
      /\ Cardinality(Rest) = Cardinality(Queued(m)) - One(Head(queue[v]) = m)
  <2>1. /\ IsFiniteSet(Rest)
        /\ Cardinality(Rest) = IF <<v, 1>> \in Queued(m) THEN Cardinality(Queued(m)) - 1
                                                         ELSE Cardinality(Queued(m))
    BY FS_RemoveElement
  <2>2. Cardinality(Queued(m)) \in Nat
    BY FS_CardinalityType
  <2> QED BY <1>8, <2>1, <2>2 DEF One
<1>10. IsFiniteSet(Queued(m)') /\ Cardinality(Queued(m)') = Cardinality(Rest)
  <2> HIDE DEF Rest
  <2> QED BY <1>7, <1>9, FS_Bijection
<1> QED BY <1>9, <1>10, FS_CardinalityType

(* The mode of a push gains a place in a queue: the caller gives it up, or   *)
(* goes on using it and has the copy to count.                               *)
LEMMA PushKeepsCounts ==
    ASSUME CountInv, NEW t \in Threads, Push(t)
    PROVE  CountInv'
<1>1. QueueTypes /\ Placed(t) /\ CountTypes /\ Receives(t)
  BY DEF CountInv, QueueInv
<1>2. QueueInv'
  BY PushKeepsQueues DEF CountInv
<1>3. OnlyMoves(t)
  BY <1>1 DEF Push, Goto, OnlyMoves, QueueTypes
<1>4. /\ refs' = refs /\ entries' = entries /\ queues' = queues
      /\ pc[t] = "push" /\ pc'[t] = "post" /\ target'[t] = target[t]
      /\ current'[t] = current[t] /\ call'[t] = call[t]
      /\ call[t] \in {"send", "sendReceive", "copy"} /\ current[t] \in Modes
  BY <1>1 DEF Push, Goto, countVars, QueueTypes, Placed, CallOf
<1>5. /\ target[t] \in Threads /\ pc[target[t]] # "erase"
      /\ queue' = [queue EXCEPT ![target[t]] = Append(@, current[t])]
  BY <1>1, <1>4 DEF Push, Receives, QueueTypes
<1>6. ASSUME NEW m \in Modes
      PROVE  Counted(m)'
  <2>1. Counted(m)
    BY DEF CountInv
  <2>2. /\ IsFiniteSet(Queued(m)')
        /\ Cardinality(Queued(m)) \in Nat
        /\ Cardinality(Queued(m)') = Cardinality(Queued(m)) + One(current[t] = m)
    <3>1. IsFiniteSet(Queued(m))
      BY <2>1 DEF Counted
    <3>2. /\ queue'[target[t]] = Append(queue[target[t]], current[t])
          /\ \A u \in Threads \ {target[t]} : queue'[u] = queue[u]
      BY <1>1, <1>5 DEF QueueTypes
    <3> QED BY <1>1, <1>4, <1>5, <3>1, <3>2, QueuedPush
  <2>3. /\ Cardinality(Users(m)) \in Nat /\ Cardinality(Active(m)) \in Nat
        /\ Cardinality(Unreferenced(m)) \in Nat /\ Cardinality(Unentered(m)) \in Nat
    BY Sizes
  <2>4. CASE current[t] = m /\ call[t] = "copy"
    <3>1. /\ t \in Users(m) /\ t \in Users(m)'
          /\ t \in Active(m) /\ t \in Active(m)'
          /\ t \notin Unreferenced(m) /\ t \in Unreferenced(m)'
          /\ t \notin Unentered(m) /\ t \in Unentered(m)'
      BY <1>4, <2>4, Contributes, ContributesNext
    <3>2. /\ One(t \in Users(m)') = 1 /\ One(t \in Users(m)) = 1
          /\ One(t \in Active(m)') = 1 /\ One(t \in Active(m)) = 1
          /\ One(t \in Unreferenced(m)') = 1 /\ One(t \in Unreferenced(m)) = 0
          /\ One(t \in Unentered(m)') = 1 /\ One(t \in Unentered(m)) = 0
          /\ One(current[t] = m) = 1
      BY <2>4, <3>1 DEF One
    <3>3. /\ Cardinality(Users(m)') = Cardinality(Users(m))
          /\ Cardinality(Active(m)') = Cardinality(Active(m))
          /\ Cardinality(Unreferenced(m)') = Cardinality(Unreferenced(m)) + 1
          /\ Cardinality(Unentered(m)') = Cardinality(Unentered(m)) + 1
          /\ Cardinality(Queued(m)') = Cardinality(Queued(m)) + 1
      BY <1>3, <2>2, <2>3, <3>2, SizesChange
    <3>4. Cardinality(Active(m)) >= 1
      <4>1. Active(m) # {} /\ IsFiniteSet(Active(m))
        BY <3>1, Sizes
      <4>2. Cardinality(Active(m)) # 0
        BY <4>1, FS_EmptySet
      <4> QED BY <2>3, <4>2
    <3> QED BY <1>4, <2>1, <2>2, <2>3, <3>3, <3>4 DEF Counted
  <2>5. CASE current[t] = m /\ call[t] # "copy"
    <3>1. /\ t \in Users(m) /\ t \notin Users(m)'
          /\ t \in Active(m) /\ t \notin Active(m)'
          /\ t \notin Unreferenced(m) /\ t \notin Unreferenced(m)'
          /\ t \notin Unentered(m) /\ t \notin Unentered(m)'
      BY <1>4, <2>5, Contributes, ContributesNext
    <3>2. /\ One(t \in Users(m)') = 0 /\ One(t \in Users(m)) = 1
          /\ One(t \in Active(m)') = 0 /\ One(t \in Active(m)) = 1
          /\ One(t \in Unreferenced(m)') = 0 /\ One(t \in Unreferenced(m)) = 0
          /\ One(t \in Unentered(m)') = 0 /\ One(t \in Unentered(m)) = 0
          /\ One(current[t] = m) = 1
      BY <2>5, <3>1 DEF One
    <3>3. /\ Cardinality(Users(m)') = Cardinality(Users(m)) - 1
          /\ Cardinality(Active(m)') = Cardinality(Active(m)) - 1
          /\ Cardinality(Unreferenced(m)') = Cardinality(Unreferenced(m))
          /\ Cardinality(Unentered(m)') = Cardinality(Unentered(m))
          /\ Cardinality(Queued(m)') = Cardinality(Queued(m)) + 1
      BY <1>3, <2>2, <2>3, <3>2, SizesChange
    <3> QED BY <1>4, <2>1, <2>2, <2>3, <3>3 DEF Counted
  <2>6. CASE current[t] # m
    <3>1. /\ t \notin Users(m) /\ t \notin Users(m)'
          /\ t \notin Active(m) /\ t \notin Active(m)'
          /\ t \notin Unreferenced(m) /\ t \notin Unreferenced(m)'
          /\ t \notin Unentered(m) /\ t \notin Unentered(m)'
      BY <1>4, <2>6, Contributes, ContributesNext
    <3>2. /\ One(t \in Users(m)') = 0 /\ One(t \in Users(m)) = 0
          /\ One(t \in Active(m)') = 0 /\ One(t \in Active(m)) = 0
          /\ One(t \in Unreferenced(m)') = 0 /\ One(t \in Unreferenced(m)) = 0
          /\ One(t \in Unentered(m)') = 0 /\ One(t \in Unentered(m)) = 0
          /\ One(current[t] = m) = 0
      BY <2>6, <3>1 DEF One
    <3>3. /\ Cardinality(Users(m)') = Cardinality(Users(m))
          /\ Cardinality(Active(m)') = Cardinality(Active(m))
          /\ Cardinality(Unreferenced(m)') = Cardinality(Unreferenced(m))
          /\ Cardinality(Unentered(m)') = Cardinality(Unentered(m))
          /\ Cardinality(Queued(m)') = Cardinality(Queued(m))
      BY <1>3, <2>2, <2>3, <3>2, SizesChange
    <3> QED BY <1>4, <2>1, <2>2, <3>3 DEF Counted
  <2> QED BY <2>4, <2>5, <2>6
<1>7. ASSUME NEW u \in Threads
      PROVE  Receives(u)'
  <2>1. pc'[u] = "erase" => queue'[u] = queue[u]
    BY <1>1, <1>3, <1>4, <1>5 DEF OnlyMoves, QueueTypes
  <2> QED BY <1>3, <1>4, <2>1, ReceivesSame
<1> QED BY <1>1, <1>2, <1>4, <1>6, <1>7 DEF CountInv, CountTypes

(* The thread that takes a mode out of its queue becomes a user of it.       *)
LEMMA PopReturnsKeepsCounts ==
    ASSUME CountInv, NEW t \in Threads, PopReturns(t)
    PROVE  CountInv'
<1>1. QueueTypes /\ Placed(t) /\ CountTypes
  BY DEF CountInv, QueueInv
<1>2. QueueInv'
  BY PopReturnsKeepsQueues DEF CountInv
<1>3. OnlyMoves(t)
  BY <1>1 DEF PopReturns, Return, Goto, OnlyMoves, QueueTypes
<1>4. /\ refs' = refs /\ entries' = entries /\ queues' = queues
      /\ pc[t] = "wait" /\ pc'[t] = "run" /\ current'[t] = Head(queue[t])
      /\ call[t] \in {"none", "sendReceive"} /\ call'[t] = "none"
      /\ queue' = [queue EXCEPT ![t] = Tail(@)]
  BY <1>1 DEF PopReturns, Return, Goto, countVars, QueueTypes, Placed, CallOf
<1>5. queue[t] # <<>>
  BY ModeIsThere DEF PopReturns, CountInv
<1>6. ASSUME NEW m \in Modes
      PROVE  Counted(m)'
  <2>1. Counted(m)
    BY DEF CountInv
  <2>2. /\ IsFiniteSet(Queued(m)')
        /\ Cardinality(Queued(m)) \in Nat /\ Cardinality(Queued(m)') \in Nat
        /\ Cardinality(Queued(m)') = Cardinality(Queued(m)) - One(Head(queue[t]) = m)
    <3>1. IsFiniteSet(Queued(m))
      BY <2>1 DEF Counted
    <3> QED BY <1>1, <1>4, <1>5, <3>1, QueuedPop
  <2>3. /\ Cardinality(Users(m)) \in Nat /\ Cardinality(Active(m)) \in Nat
        /\ Cardinality(Unreferenced(m)) \in Nat /\ Cardinality(Unentered(m)) \in Nat
    BY Sizes
  <2>4. /\ t \notin Users(m) /\ (t \in Users(m)' <=> Head(queue[t]) = m)
        /\ t \notin Active(m) /\ (t \in Active(m)' <=> Head(queue[t]) = m)
        /\ t \notin Unreferenced(m) /\ t \notin Unreferenced(m)'
        /\ t \notin Unentered(m) /\ t \notin Unentered(m)'
    BY <1>4, Contributes, ContributesNext
  <2>5. /\ One(t \in Users(m)') = One(Head(queue[t]) = m) /\ One(t \in Users(m)) = 0
        /\ One(t \in Active(m)') = One(Head(queue[t]) = m) /\ One(t \in Active(m)) = 0
        /\ One(t \in Unreferenced(m)') = 0 /\ One(t \in Unreferenced(m)) = 0
        /\ One(t \in Unentered(m)') = 0 /\ One(t \in Unentered(m)) = 0
    BY <2>4 DEF One
  <2>6. One(Head(queue[t]) = m) \in {0, 1}
    BY OneType
  <2>7. /\ Cardinality(Users(m)') = Cardinality(Users(m)) + One(Head(queue[t]) = m)
        /\ Cardinality(Active(m)') = Cardinality(Active(m)) + One(Head(queue[t]) = m)
        /\ Cardinality(Unreferenced(m)') = Cardinality(Unreferenced(m))
        /\ Cardinality(Unentered(m)') = Cardinality(Unentered(m))
    BY <1>3, <2>3, <2>5, <2>6, SizesChange
  <2>8. refs'[m] = refs[m] /\ entries'[m] = entries[m]
    BY <1>4
  <2>9. CASE One(Head(queue[t]) = m) = 0
    BY <2>1, <2>2, <2>3, <2>7, <2>8, <2>9 DEF Counted
  <2>10. CASE One(Head(queue[t]) = m) = 1
    BY <2>1, <2>2, <2>3, <2>7, <2>8, <2>10 DEF Counted
  <2> QED BY <2>6, <2>9, <2>10
<1>7. ASSUME NEW u \in Threads
      PROVE  Receives(u)'
  <2>1. pc'[u] = "erase" => queue'[u] = queue[u]
    BY <1>1, <1>4 DEF QueueTypes
  <2> QED BY <1>3, <1>4, <2>1, ReceivesSame
<1> QED BY <1>1, <1>2, <1>4, <1>6, <1>7 DEF CountInv, CountTypes

LEMMA CountInvStep == ASSUME Disciplined PROVE CountInv /\ [Next]_vars => CountInv'
<1> SUFFICES ASSUME CountInv, [Next]_vars
             PROVE  CountInv'
  OBVIOUS
<1>1. CASE Next
  <2>1. PICK t \in Threads : Starts(t) \/ Works(t)
    BY <1>1 DEF Next
  <2>2. CASE Starts(t)
    <3>1. CASE \E u \in Threads : Send(t, u) \/ SendReceive(t, u) \/ Copy(t, u)
      BY <3>1, StartPushKeepsCounts DEF Send, SendReceive, Copy
    <3> QED BY <2>2, <3>1, CreateKeepsCounts, FinishKeepsCounts, CreateModeKeepsCounts,
               ReceiveKeepsCounts DEF Starts
  <2>3. CASE Works(t)
    BY <2>3, InitThreadKeepsCounts, EraseKeepsCounts, RemoveModeKeepsCounts,
       PushKeepsCounts, PostKeepsCounts, ForgetKeepsCounts, IncRefKeepsCounts,
       InsertKeepsCounts, PopKeepsCounts, PopReturnsKeepsCounts DEF Works
  <2> QED BY <2>1, <2>2, <2>3
<1>2. CASE UNCHANGED vars
  <2>1. QueueInv'
    BY <1>2, QueueInvStep DEF CountInv
  <2>2. CountTypes'
    BY <1>2 DEF vars, CountInv, CountTypes
  <2>3. ASSUME NEW m \in Modes
        PROVE  Counted(m)'
    <3>1. /\ Users(m)' = Users(m) /\ Unreferenced(m)' = Unreferenced(m)
          /\ Unentered(m)' = Unentered(m)
      BY <1>2 DEF vars, Users, Unreferenced, Unentered, Uncounted
    <3>2. Active(m)' = Active(m) /\ Queued(m)' = Queued(m)
      BY <1>2, <3>1, QueuedSame DEF vars, Active
    <3> QED BY <1>2, <3>1, <3>2 DEF vars, CountInv, Counted
  <2>4. \A u \in Threads : Receives(u)'
    BY <1>2 DEF vars, CountInv, Receives
  <2> QED BY <2>1, <2>2, <2>3, <2>4 DEF CountInv
<1> QED BY <1>1, <1>2

LEMMA CountInvAlways == ASSUME Disciplined PROVE Spec => []CountInv
<1>1. CountInv /\ [Next]_vars => CountInv'
  BY CountInvStep
<1> QED BY <1>1, CountInvInit, PTL DEF Spec

(* A mode that has users, or is in a queue, has references.                  *)
LEMMA CountsFollow ==
    ASSUME CountInv, NEW m \in Modes
    PROVE  /\ refs[m] = Holders(m) - Cardinality(Unreferenced(m))
           /\ entries[m] = Holders(m) - Cardinality(Unentered(m))
           /\ Holders(m) > 0 => refs[m] > 0
           /\ refs[m] \in Nat /\ entries[m] \in Nat
<1>1. Counted(m) /\ Cardinality(Queued(m)) \in Nat
  BY FS_CardinalityType DEF CountInv, Counted
<1>2. /\ Cardinality(Users(m)) \in Nat /\ Cardinality(Active(m)) \in Nat
      /\ Cardinality(Unreferenced(m)) \in Nat /\ Cardinality(Unentered(m)) \in Nat
      /\ Cardinality(Active(m)) <= Cardinality(Users(m))
      /\ Cardinality(Unreferenced(m)) <= Cardinality(Unentered(m))
  BY Sizes
<1> QED BY <1>1, <1>2 DEF Counted, Holders

(* The variables keep their types: no count of a mode falls below zero       *)
(* (core/Process.cpp, util/Reference-impl.h).                                *)
THEOREM QueuesTypeCorrect == ASSUME Disciplined PROVE Spec => []TypeOK
<1>1. CountInv => TypeOK
  <2> SUFFICES ASSUME CountInv
               PROVE  TypeOK
    OBVIOUS
  <2>1. QueueTypes /\ CountTypes
    BY DEF CountInv, QueueInv
  <2>2. \A m \in Modes : refs[m] \in Nat /\ entries[m] \in Nat
    BY CountsFollow
  <2>3. refs \in [Modes -> Nat] /\ entries \in [Modes -> Nat]
    BY <2>1, <2>2 DEF CountTypes
  <2> QED BY <2>1, <2>3 DEF QueueTypes, TypeOK
<1> QED BY <1>1, CountInvAlways, PTL

(* The references and the entry of a mode agree with the threads that use it *)
(* and the queues that hold it, whoever sends, copies and receives, if no    *)
(* thread ends while its mode is being copied (MayFinish): a mode that is    *)
(* used or sent is never destroyed (Process::send, receive, sendReceive,     *)
(* copy, removeMode).                                                        *)
THEOREM ModesCounted == ASSUME Disciplined PROVE Spec => []CountsExact
<1>1. CountInv => CountsExact
  BY CountsFollow DEF CountsExact, Unreferenced, Unentered
<1> QED BY <1>1, CountInvAlways, PTL

===============================================================================
