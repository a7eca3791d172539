----------------------------- MODULE Lazy_proofs -----------------------------
(***************************************************************************)
(* Proofs about the Lazy protocol, for every set of blocks, threshold and  *)
(* build: the list of Dirty blocks is exact and bounded until a loop has   *)
(* destroyed a block, which failing transfers alone can bring about, and   *)
(* when every transfer succeeds no loop does and the copies of every block *)
(* stay coherent for a program that follows the rules (README,             *)
(* observations, says what breaks otherwise).                              *)
(***************************************************************************)
EXTENDS Lazy, Facts

-------------------------------------------------------------------------------
(* Types, and the Dirty Block List.                                          *)

(* The Block object of a live block has a reference, which front() can take. *)
Counted == call # "undefined" => \A b \in Blocks : state[b] # "NoBlock" => refs[b] > 0

ListInv == TypeOK /\ DirtyListed /\ Counted

(* Releasing a block, for whatever reason, keeps the list exact.             *)
LEMMA ReleaseKeepsList ==
    ASSUME ListInv, call # "undefined",
           NEW b \in Blocks, NEW ok \in BOOLEAN, Release(b, ok),
           refs' \in [Blocks -> 0..MaxRefs], \A c \in live : refs'[c] > 0
    PROVE  ListInv'
<1> USE DEF ListInv, TypeOK, Release
<1>1. CASE state[b] = "Dirty" /\ ok
  <2>1. /\ dbl' = RemoveFirst(dbl, b)
        /\ state' = [state EXCEPT ![b] = "ReadOnly"]
        /\ prot' = [prot EXCEPT ![b] = "read"]
        /\ current' = [current EXCEPT ![b] = Transferred(@, "host", "acc")]
    BY <1>1
  <2>2. /\ dbl' \in Seq(Blocks)
        /\ IsInjective(dbl')
        /\ Range(dbl') = Range(dbl) \ {b}
    BY <2>1, RemoveListed DEF DirtyListed
  <2>3. {c \in Blocks : state'[c] = "Dirty"} = {c \in Blocks : state[c] = "Dirty"} \ {b}
    BY <2>1
  <2>4. DirtyListed'
    BY <2>2, <2>3 DEF DirtyListed
  <2>5. TypeOK'
    BY <2>1, <2>2 DEF States, Protections, Sides, Transferred
  <2>6. Counted'
    BY <1>1, <2>1 DEF Counted, live
  <2> QED BY <2>4, <2>5, <2>6
<1>2. CASE ~(state[b] = "Dirty" /\ ok)
  <2>1. UNCHANGED <<dbl, state, current>>
    BY <1>2
  <2>2. DirtyListed'
    BY <2>1 DEF DirtyListed
  <2>3. TypeOK'
    BY <2>1 DEF Protections
  <2>4. Counted'
    BY <2>1 DEF Counted, live
  <2> QED BY <2>2, <2>3, <2>4
<1> QED BY <1>1, <1>2

(* The front of a list that is not empty is a Dirty block with a reference   *)
(* to give up.                                                               *)
LEMMA FrontDirty ==
    ASSUME ListInv, call # "undefined", dbl # <<>>
    PROVE  /\ Head(dbl) \in Blocks
           /\ state[Head(dbl)] = "Dirty"
           /\ refs[Head(dbl)] \in 1..MaxRefs
<1> DEFINE b == Head(dbl)
<1>1. /\ dbl \in Seq(Blocks) /\ Len(dbl) \in Nat /\ 1 \in DOMAIN dbl
      /\ b = dbl[1]
  BY DEF ListInv, TypeOK
<1>2. b \in Range(dbl)
  BY <1>1 DEF Range
<1>3. b \in Blocks /\ state[b] = "Dirty"
  BY <1>2 DEF ListInv, DirtyListed
<1>4. refs[b] \in 1..MaxRefs
  <2> HIDE DEF b
  <2>1. refs[b] > 0
    BY <1>3 DEF ListInv, Counted
  <2>2. refs[b] \in 0..MaxRefs
    BY <1>3 DEF ListInv, TypeOK
  <2> QED BY <2>1, <2>2, MaxRefsAssumption
<1> QED BY <1>3, <1>4

(* So does a loop that takes the front block, until it destroys one.         *)
LEMMA ReleaseFrontKeepsList ==
    ASSUME ListInv, call # "undefined", dbl # <<>>, ReleaseFront
    PROVE  ListInv'
<1> DEFINE b == Head(dbl)
<1>0. /\ b \in Blocks
      /\ refs[b] \in 1..MaxRefs
  BY FrontDirty
<1>1. refs' = [refs EXCEPT ![b] = @ - 1]
  BY DEF ReleaseFront
<1>2. refs' \in [Blocks -> 0..MaxRefs]
  BY <1>0, <1>1, MaxRefsAssumption DEF ListInv, TypeOK
<1>3. CASE refs[b] > 1
  <2>1. PICK ok \in Outcomes : Release(b, ok)
    BY <1>3 DEF ReleaseFront
  <2>2. ok \in BOOLEAN
    BY DEF Outcomes
  <2>3. \A c \in live : refs'[c] > 0
    BY <1>0, <1>1, <1>3 DEF ListInv, TypeOK, Counted, live
  <2> HIDE DEF b
  <2> QED BY <1>0, <1>2, <2>1, <2>2, <2>3, ReleaseKeepsList
<1>4. CASE ~(refs[b] > 1)
  <2>1. /\ state' = [state EXCEPT ![b] = "NoBlock"]
        /\ call' = "undefined"
        /\ UNCHANGED <<prot, faults, current, dbl, limit, lent>>
    BY <1>4 DEF ReleaseFront
  <2>2. DirtyListed' /\ Counted'
    BY <2>1 DEF DirtyListed, Counted
  <2>3. TypeOK'
    BY <1>2, <2>1 DEF ListInv, TypeOK, States
  <2> QED BY <2>2, <2>3 DEF ListInv
<1> QED BY <1>3, <1>4

(* A block that becomes Dirty and is added keeps the list exact.             *)
LEMMA AddDirtyKeepsList ==
    ASSUME ListInv, call # "undefined",
           NEW b \in Blocks, NEW n \in 0..RollThreshold, NEW r \in 0..MaxRefs,
           state[b] # "Dirty", state' = [state EXCEPT ![b] = "Dirty"],
           AddDirty(b, n, r)
    PROVE  /\ DirtyListed' /\ Counted'
           /\ dbl' \in Seq(Blocks)
           /\ limit' \in 1..MaxLimit
           /\ faults' \in [Blocks -> 0..RollThreshold]
           /\ refs' \in [Blocks -> 0..MaxRefs]
           /\ call' \in {"none", "addDirty", "releaseAll", "undefined"}
<1> USE DEF ListInv, TypeOK
<1>1. dbl' = Append(dbl, b)
  BY DEF AddDirty
<1>2. b \notin Range(dbl) /\ IsInjective(dbl)
  BY DEF DirtyListed
<1>3. /\ dbl' \in Seq(Blocks)
      /\ IsInjective(dbl')
      /\ Range(dbl') = Range(dbl) \cup {b}
  BY <1>1, <1>2, AppendListed
<1>4. {c \in Blocks : state'[c] = "Dirty"} = {c \in Blocks : state[c] = "Dirty"} \cup {b}
  OBVIOUS
<1>5. DirtyListed'
  BY <1>3, <1>4 DEF DirtyListed
<1>6. limit' \in 1..MaxLimit
  BY MaxLimitAssumption DEF AddDirty
<1>7. faults' \in [Blocks -> 0..RollThreshold]
  BY RollThresholdAssumption DEF AddDirty
<1>8. call' \in {"none", "addDirty", "releaseAll", "undefined"}
  BY DEF AddDirty
<1>9. refs' = [refs EXCEPT ![b] = r + 1] /\ r + 1 \in 1..MaxRefs
  BY MaxRefsAssumption DEF AddDirty
<1>10. refs' \in [Blocks -> 0..MaxRefs]
  BY <1>9, MaxRefsAssumption
<1>11. Counted'
  BY <1>9, MaxRefsAssumption DEF Counted
<1> QED BY <1>3, <1>5, <1>6, <1>7, <1>8, <1>10, <1>11

(* A block removed from the list as it ceases to be Dirty keeps it exact.    *)
LEMMA RemoveKeepsList ==
    ASSUME ListInv, call # "undefined", NEW b \in Blocks, NEW new, new # "Dirty",
           state' = [state EXCEPT ![b] = new], dbl' = RemoveFirst(dbl, b)
    PROVE  DirtyListed' /\ dbl' \in Seq(Blocks)
<1> USE DEF ListInv, TypeOK
<1>1. /\ dbl' \in Seq(Blocks)
      /\ IsInjective(dbl')
      /\ Range(dbl') = Range(dbl) \ {b}
  BY RemoveListed DEF DirtyListed
<1>2. {c \in Blocks : state'[c] = "Dirty"} = {c \in Blocks : state[c] = "Dirty"} \ {b}
  OBVIOUS
<1> QED BY <1>1, <1>2 DEF DirtyListed

(* Changing no block to or from Dirty keeps an unchanged list exact, and     *)
(* creating none leaves every live block its reference.                      *)
LEMMA SameDirtyKeepsList ==
    ASSUME DirtyListed, Counted, dbl' = dbl, refs' = refs, call' = call,
           \A c \in Blocks : (state'[c] = "Dirty") <=> (state[c] = "Dirty"),
           \A c \in Blocks : state[c] = "NoBlock" => state'[c] = "NoBlock"
    PROVE  DirtyListed' /\ Counted'
BY DEF DirtyListed, Counted

(* No block exists at first and the list is empty.                           *)
LEMMA ListInit == Init => ListInv
<1> SUFFICES ASSUME Init PROVE ListInv
  OBVIOUS
<1>1. TypeOK
  BY MaxLimitAssumption, RollThresholdAssumption, MaxRefsAssumption
  DEF Init, TypeOK, States, Protections, Sides, Uses
<1>2. DirtyListed
  BY DEF Init, DirtyListed, IsInjective, Range
<1>3. Counted
  BY DEF Init, Counted
<1> QED BY <1>1, <1>2, <1>3 DEF ListInv

(* A transfer succeeds or fails.                                             *)
LEMMA OutcomesAreBoolean == Outcomes \subseteq BOOLEAN
BY DEF Outcomes

(* Evictions and flushes keep the list exact, and so does a new limit.       *)
LEMMA LoopKeepsList ==
    ASSUME ListInv, Loop \/ ReleaseAll \/ ReleasedAll
    PROVE  ListInv'
<1> USE DEF ListInv
<1>0. Shrunk \in 1..MaxLimit
  BY MaxLimitAssumption DEF TypeOK, Shrunk
<1>1. CASE Evict \/ Flush
  <2>1. call # "undefined" /\ dbl # <<>> /\ ReleaseFront
    BY <1>1, MaxLimitAssumption DEF Evict, Flush, TypeOK
  <2> QED BY <2>1, ReleaseFrontKeepsList
<1>3. CASE AddDirtyReturns
  BY <1>3 DEF AddDirtyReturns, TypeOK, DirtyListed, Counted
<1>4. CASE ReleaseAllReturns
  BY <1>4 DEF ReleaseAllReturns, TypeOK, DirtyListed, Counted
<1>5. CASE ReleaseAll
  BY <1>0, <1>5 DEF ReleaseAll, Idle, TypeOK, DirtyListed, Counted
<1>6. CASE ReleasedAll
  BY <1>0, <1>6 DEF ReleasedAll, TypeOK, DirtyListed, Counted
<1> QED BY <1>1, <1>3, <1>4, <1>5, <1>6 DEF Loop

\* The two ways of signalWrite on a block that is not Dirty: its transfer fails,
\* and only the fault is counted, or it becomes Dirty.
WriteFails(b) ==
    /\ Idle
    /\ FALSE \in Outcomes
    /\ faults' = [faults EXCEPT ![b] = FaultCount(b)]
    /\ UNCHANGED <<state, prot, current, refs, dbl, limit, call, lent>>

MarksDirty(b) ==
    /\ Idle
    /\ state[b] \in {"ReadOnly", "Invalid"}
    /\ lent[b] = "none"
    /\ current' = [current EXCEPT ![b] =
                     IF state[b] = "Invalid" THEN Transferred(@, "acc", "host") ELSE @]
    /\ state' = [state EXCEPT ![b] = "Dirty"]
    /\ prot' = [prot EXCEPT ![b] = "rw"]
    /\ AddDirty(b, FaultCount(b), refs[b])
    /\ UNCHANGED lent

LEMMA FaultCases ==
    ASSUME NEW b \in Blocks, FaultHandler(b)
    PROVE  \/ \E ok \in Outcomes : SignalRead(b, ok)
           \/ SignalWriteDirty(b)
           \/ WriteFails(b)
           \/ MarksDirty(b)
<1>1. ASSUME NEW ok \in Outcomes, SignalWrite(b, ok)
      PROVE  WriteFails(b) \/ MarksDirty(b)
  <2>1. CASE state[b] = "Invalid" /\ ~ok
    <3>1. FALSE \in Outcomes
      BY <2>1, OutcomesAreBoolean
    <3> QED BY <1>1, <2>1, <3>1 DEF SignalWrite, WriteFails
  <2>2. CASE ~(state[b] = "Invalid" /\ ~ok)
    BY <1>1, <2>2 DEF SignalWrite, MarksDirty
  <2> QED BY <2>1, <2>2
<1> QED BY <1>1 DEF FaultHandler

(* Page faults: signalRead changes no Dirty block, signalWrite adds one.     *)
LEMMA FaultHandlerKeepsList ==
    ASSUME ListInv, NEW b \in Blocks, FaultHandler(b)
    PROVE  ListInv'
<1> USE DEF ListInv
<1>0. FaultCount(b) \in 0..RollThreshold
  BY RollThresholdAssumption DEF TypeOK, FaultCount
<1>1. ASSUME NEW ok \in Outcomes, SignalRead(b, ok)
      PROVE  ListInv'
  <2>1. TypeOK'
    <3>1. Transferred(current[b], "acc", "host") \subseteq Sides
      BY DEF TypeOK, Transferred, Sides
    <3>2. current' \in [Blocks -> SUBSET Sides]
      BY <1>1, <3>1 DEF SignalRead, TypeOK
    <3>3. /\ state' \in [Blocks -> States]
          /\ prot' \in [Blocks -> Protections]
      BY <1>1 DEF SignalRead, TypeOK, States, Protections
    <3> QED BY <1>1, <3>2, <3>3 DEF SignalRead, TypeOK
  <2>2. \A c \in Blocks : /\ (state'[c] = "Dirty") <=> (state[c] = "Dirty")
                          /\ state[c] = "NoBlock" => state'[c] = "NoBlock"
    BY <1>1 DEF SignalRead, TypeOK
  <2>3. UNCHANGED <<dbl, refs, call>>
    BY <1>1 DEF SignalRead
  <2> QED BY <2>1, <2>2, <2>3, SameDirtyKeepsList
<1>2. CASE SignalWriteDirty(b)
  BY <1>0, <1>2 DEF SignalWriteDirty, TypeOK, Protections, DirtyListed, Counted
<1>3. CASE WriteFails(b)
  BY <1>0, <1>3 DEF WriteFails, TypeOK, DirtyListed, Counted
<1>4. CASE MarksDirty(b)
  <2>1. /\ state[b] # "Dirty"
        /\ state' = [state EXCEPT ![b] = "Dirty"]
        /\ AddDirty(b, FaultCount(b), refs[b])
        /\ call # "undefined"
    BY <1>4 DEF MarksDirty, Idle
  <2>5. refs[b] \in 0..MaxRefs
    BY DEF TypeOK
  <2>2. /\ DirtyListed' /\ Counted'
        /\ dbl' \in Seq(Blocks)
        /\ limit' \in 1..MaxLimit
        /\ faults' \in [Blocks -> 0..RollThreshold]
        /\ refs' \in [Blocks -> 0..MaxRefs]
        /\ call' \in {"none", "addDirty", "releaseAll", "undefined"}
    BY <1>0, <2>1, <2>5, AddDirtyKeepsList
  <2>3. TypeOK'
    BY <1>4, <2>2 DEF MarksDirty, TypeOK, States, Protections, Sides, Transferred
  <2> QED BY <2>2, <2>3
<1> QED BY <1>1, <1>2, <1>3, <1>4, FaultCases

(* Acquiring, releasing and fetching a block keep the list exact.            *)
LEMMA CoherenceKeepsList ==
    ASSUME ListInv, NEW b \in Blocks, Coherence(b)
    PROVE  ListInv'
<1> USE DEF ListInv
<1>1. ASSUME NEW p \in {"read", "rw"}, Acquire(b, p)
      PROVE  ListInv'
  <2>1. TypeOK'
    BY <1>1 DEF Acquire, TypeOK, States, Protections, Uses
  <2>2. \A c \in Blocks : /\ (state'[c] = "Dirty") <=> (state[c] = "Dirty")
                          /\ state[c] = "NoBlock" => state'[c] = "NoBlock"
    BY <1>1 DEF Acquire, TypeOK
  <2>3. UNCHANGED <<dbl, refs, call>>
    BY <1>1 DEF Acquire
  <2> QED BY <2>1, <2>2, <2>3, SameDirtyKeepsList
<1>2. ASSUME NEW ok \in Outcomes, ReleaseBlock(b, ok)
      PROVE  ListInv'
  <2>1. Release(b, ok) /\ refs' = refs /\ call # "undefined"
    BY <1>2 DEF ReleaseBlock, Idle
  <2>2. refs' \in [Blocks -> 0..MaxRefs] /\ \A c \in live : refs'[c] > 0
    BY <2>1 DEF TypeOK, Counted, live
  <2> QED BY <2>1, <2>2, OutcomesAreBoolean, ReleaseKeepsList
<1>3. ASSUME NEW ok \in Outcomes, ToHost(b, ok)
      PROVE  ListInv'
  <2>1. TypeOK'
    <3>1. Transferred(current[b], "acc", "host") \subseteq Sides
      BY DEF TypeOK, Transferred, Sides
    <3>2. current' \in [Blocks -> SUBSET Sides]
      BY <1>3, <3>1 DEF ToHost, TypeOK
    <3>3. /\ state' \in [Blocks -> States]
          /\ prot' \in [Blocks -> Protections]
      BY <1>3 DEF ToHost, TypeOK, States, Protections
    <3> QED BY <1>3, <3>2, <3>3 DEF ToHost, TypeOK
  <2>2. \A c \in Blocks : /\ (state'[c] = "Dirty") <=> (state[c] = "Dirty")
                          /\ state[c] = "NoBlock" => state'[c] = "NoBlock"
    BY <1>3 DEF ToHost, TypeOK
  <2>3. UNCHANGED <<dbl, refs, call>>
    BY <1>3 DEF ToHost
  <2> QED BY <2>1, <2>2, <2>3, SameDirtyKeepsList
<1> QED BY <1>1, <1>2, <1>3 DEF Coherence

(* memset and the copies change the state of no Dirty block.                 *)
LEMMA BulkAccessKeepsList ==
    ASSUME ListInv, NEW b \in Blocks, BulkAccess(b)
    PROVE  ListInv'
<1> USE DEF ListInv
<1>1. ASSUME NEW full \in BOOLEAN, NEW ok \in Outcomes, Memset(b, full, ok)
      PROVE  ListInv'
  BY <1>1 DEF Memset, TypeOK, Written, DirtyListed, Counted
<1>2. ASSUME NEW ok \in Outcomes, CopyFromBufferWhole(b, ok)
      PROVE  ListInv'
  <2>1. TypeOK'
    BY <1>2 DEF CopyFromBufferWhole, TypeOK, States, Protections, Written
  <2>2. \A c \in Blocks : /\ (state'[c] = "Dirty") <=> (state[c] = "Dirty")
                          /\ state[c] = "NoBlock" => state'[c] = "NoBlock"
    BY <1>2 DEF CopyFromBufferWhole, TypeOK
  <2>3. UNCHANGED <<dbl, refs, call>>
    BY <1>2 DEF CopyFromBufferWhole
  <2> QED BY <2>1, <2>2, <2>3, SameDirtyKeepsList
<1>3. ASSUME NEW full \in BOOLEAN, NEW ok \in Outcomes, CopyFromBuffer(b, full, ok)
      PROVE  ListInv'
  BY <1>3 DEF CopyFromBuffer, TypeOK, Written, DirtyListed, Counted
<1>4. ASSUME NEW s \in Blocks, NEW full \in BOOLEAN, NEW done \in SUBSET {1, 2},
             CopyBlock(b, s, full, done)
      PROVE  ListInv'
  BY <1>4 DEF CopyBlock, TypeOK, DirtyListed, Counted
<1> QED BY <1>1, <1>2, <1>3, <1>4 DEF BulkAccess

(* A block that is freed or unmapped leaves the list; one that is mapped     *)
(* again joins it.                                                           *)
LEMMA LifetimeKeepsList ==
    ASSUME ListInv, NEW b \in Blocks, Lifetime(b)
    PROVE  ListInv'
<1> USE DEF ListInv
<1>0. 0 \in 0..RollThreshold
  BY RollThresholdAssumption
<1>1. CASE Alloc(b)
  <2>1. TypeOK'
    BY <1>1, MaxRefsAssumption DEF Alloc, TypeOK, States, Protections
  <2>2. \A c \in Blocks : (state'[c] = "Dirty") <=> (state[c] = "Dirty")
    BY <1>1 DEF Alloc, TypeOK
  <2>3. DirtyListed'
    BY <1>1, <2>2 DEF Alloc, Idle, DirtyListed
  <2>4. Counted'
    BY <1>1 DEF Alloc, Idle, Counted, TypeOK
  <2> QED BY <2>1, <2>3, <2>4
<1>2. CASE Free(b)
  <2>1. DirtyListed' /\ dbl' \in Seq(Blocks)
    BY <1>2, RemoveKeepsList DEF Free, Idle
  <2>2. TypeOK'
    BY <1>0, <1>2, <2>1, MaxRefsAssumption DEF Free, TypeOK, States, Protections
  <2>3. Counted'
    BY <1>2 DEF Free, Idle, Counted, TypeOK
  <2> QED BY <2>1, <2>2, <2>3
<1>3. ASSUME NEW ok \in Outcomes, UnmapFromAccelerator(b, ok)
      PROVE  ListInv'
  <2>1. DirtyListed' /\ dbl' \in Seq(Blocks)
    BY <1>3, RemoveKeepsList DEF UnmapFromAccelerator, Idle
  <2>2. current' \in [Blocks -> SUBSET Sides]
    BY <1>3 DEF UnmapFromAccelerator, TypeOK, Transferred, Sides
  <2>3. TypeOK'
    BY <1>3, <2>1, <2>2 DEF UnmapFromAccelerator, TypeOK, States, Protections
  <2>4. Counted'
    BY <1>3 DEF UnmapFromAccelerator, Idle, Counted, TypeOK, live
  <2> QED BY <2>1, <2>3, <2>4
<1>4. CASE MapToAccelerator(b)
  <2>0. 1 \in 0..MaxRefs
    BY MaxRefsAssumption
  <2>1. /\ DirtyListed' /\ Counted'
        /\ dbl' \in Seq(Blocks)
        /\ limit' \in 1..MaxLimit
        /\ faults' \in [Blocks -> 0..RollThreshold]
        /\ refs' \in [Blocks -> 0..MaxRefs]
        /\ call' \in {"none", "addDirty", "releaseAll", "undefined"}
    BY <1>0, <1>4, <2>0, AddDirtyKeepsList DEF MapToAccelerator, Idle
  <2>2. TypeOK'
    BY <1>4, <2>1 DEF MapToAccelerator, TypeOK, States
  <2> QED BY <2>1, <2>2
<1> QED BY <1>1, <1>2, <1>3, <1>4 DEF Lifetime

(* Host stores and kernels' writes leave the protocol alone.                         *)
LEMMA ProgramKeepsList ==
    ASSUME ListInv, NEW b \in Blocks, Program(b)
    PROVE  ListInv'
<1> USE DEF ListInv
<1>1. CASE HostStore(b)
  BY <1>1 DEF HostStore, TypeOK, Written, DirtyListed, Counted
<1>2. CASE KernelWrite(b)
  BY <1>2 DEF KernelWrite, TypeOK, Written, DirtyListed, Counted
<1> QED BY <1>1, <1>2 DEF Program

(* Launching a kernel lends blocks and changes none.                         *)
LEMMA LendKeepsList ==
    ASSUME ListInv, NEW uses \in [Blocks -> Uses], Lend(uses)
    PROVE  ListInv'
BY DEF ListInv, Lend, TypeOK, DirtyListed, Counted

(* Types and the exact list are an inductive invariant.                      *)
LEMMA ListStep == ListInv /\ [Next]_vars => ListInv'
<1> SUFFICES ASSUME ListInv, [Next]_vars PROVE ListInv'
  OBVIOUS
<1>1. CASE UNCHANGED vars
  BY <1>1 DEF vars, ListInv, TypeOK, DirtyListed, Counted
<1>2. CASE Next
  BY <1>2, LoopKeepsList, FaultHandlerKeepsList, CoherenceKeepsList,
     BulkAccessKeepsList, LifetimeKeepsList, ProgramKeepsList, LendKeepsList DEF Next
<1> QED BY <1>1, <1>2

(* The variables keep their types, whatever fails.                           *)
THEOREM TypeCorrect == Spec => []TypeOK
<1>1. ListInv => TypeOK
  BY DEF ListInv
<1> QED BY ListInit, ListStep, <1>1, PTL DEF Spec

(* Until a loop over it destroys a block, the Dirty Block List lists exactly *)
(* the Dirty blocks, each once, in both protocols and both builds, also when *)
(* transfers fail.                                                           *)
THEOREM DirtyListExact == Spec => []DirtyListed
<1>1. ListInv => DirtyListed
  BY DEF ListInv
<1> QED BY ListInit, ListStep, <1>1, PTL DEF Spec

-------------------------------------------------------------------------------
(* The bound on the number of Dirty blocks.                                  *)

(* Releasing a block never makes the list longer.                            *)
LEMMA ReleaseShortens ==
    ASSUME ListInv, call # "undefined", NEW b \in Blocks, NEW ok \in BOOLEAN, Release(b, ok)
    PROVE  Len(dbl') <= Len(dbl) /\ limit' = limit /\ call' = call
<1>1. RemoveFirst(dbl, b) \in Seq(Blocks) /\ Len(RemoveFirst(dbl, b)) <= Len(dbl)
  BY RemoveListed DEF ListInv, TypeOK, DirtyListed
<1> QED BY <1>1 DEF Release, ListInv, TypeOK

(* Nor does a loop that takes the front block.                               *)
LEMMA ReleaseFrontShortens ==
    ASSUME ListInv, call # "undefined", dbl # <<>>, ReleaseFront
    PROVE  /\ dbl' \in Seq(Blocks) /\ Len(dbl') <= Len(dbl)
           /\ limit' = limit
           /\ call' \in {call, "undefined"}
<1>1. dbl' \in Seq(Blocks) /\ Len(dbl) \in Nat
  BY ReleaseFrontKeepsList DEF ListInv, TypeOK
<1>2. CASE \E ok \in Outcomes : Release(Head(dbl), ok)
  BY <1>1, <1>2, FrontDirty, ReleaseShortens, OutcomesAreBoolean
<1>3. CASE UNCHANGED <<dbl, limit>> /\ call' = "undefined"
  BY <1>1, <1>3
<1> QED BY <1>2, <1>3 DEF ReleaseFront

(* A limit that is halved was above the length of the list.                  *)
LEMMA ShrunkBound ==
    ASSUME ListInv, Len(dbl) <= 2 * limit
    PROVE  Len(dbl) <= 2 * Shrunk
<1>1. \A n, m \in Nat : n < m => n <= 2 * (m \div 2)
  OBVIOUS
<1> QED BY <1>1, MaxLimitAssumption DEF Shrunk, ListInv, TypeOK

(* The other operations leave the list, its limit and its loops alone.       *)
LEMMA OtherKeepsList ==
    ASSUME NEW b \in Blocks,
           \/ \E ok \in Outcomes : SignalRead(b, ok) \/ ToHost(b, ok)
           \/ SignalWriteDirty(b) \/ WriteFails(b)
           \/ \E p \in {"read", "rw"} : Acquire(b, p)
           \/ BulkAccess(b) \/ Alloc(b) \/ Program(b)
    PROVE  UNCHANGED <<dbl, limit, call>>
<1>1. CASE \E ok \in Outcomes : SignalRead(b, ok) \/ ToHost(b, ok)
  BY <1>1 DEF SignalRead, ToHost
<1>2. CASE SignalWriteDirty(b) \/ WriteFails(b)
  BY <1>2 DEF SignalWriteDirty, WriteFails
<1>3. CASE \E p \in {"read", "rw"} : Acquire(b, p)
  BY <1>3 DEF Acquire
<1>4. CASE BulkAccess(b)
  <2>1. CASE \E full \in BOOLEAN, ok \in Outcomes : Memset(b, full, ok)
    BY <2>1 DEF Memset
  <2>2. CASE \E ok \in Outcomes : CopyFromBufferWhole(b, ok)
    BY <2>2 DEF CopyFromBufferWhole
  <2>3. CASE \E full \in BOOLEAN, ok \in Outcomes : CopyFromBuffer(b, full, ok)
    BY <2>3 DEF CopyFromBuffer
  <2>4. CASE \E s \in Blocks, full \in BOOLEAN, done \in SUBSET {1, 2} :
                 CopyBlock(b, s, full, done)
    BY <2>4 DEF CopyBlock
  <2> QED BY <1>4, <2>1, <2>2, <2>3, <2>4 DEF BulkAccess
<1>5. CASE Alloc(b)
  BY <1>5 DEF Alloc
<1>6. CASE Program(b)
  BY <1>6 DEF Program, HostStore, KernelWrite
<1> QED BY <1>1, <1>2, <1>3, <1>4, <1>5, <1>6

(* The bound is inductive over the exact list.                               *)
LEMMA BoundStep ==
    ListInv /\ DirtyWithinTwiceLimit /\ [Next]_vars => DirtyWithinTwiceLimit'
<1> SUFFICES ASSUME ListInv, DirtyWithinTwiceLimit, [Next]_vars, Eager,
                    call' \notin {"addDirty", "undefined"}
             PROVE  Len(dbl') <= 2 * limit'
  BY DEF DirtyWithinTwiceLimit
<1>0. /\ Len(dbl) \in Nat /\ limit \in 1..MaxLimit /\ dbl \in Seq(Blocks)
      /\ call \notin {"addDirty", "undefined"} => Len(dbl) <= 2 * limit
  BY DEF ListInv, TypeOK, DirtyWithinTwiceLimit
<1>1. CASE UNCHANGED <<dbl, limit, call>>
  BY <1>0, <1>1
<1>2. CASE Evict
  <2>1. call = "addDirty" /\ dbl # <<>> /\ ReleaseFront
    BY <1>0, <1>2, MaxLimitAssumption DEF Evict
  <2> QED BY <2>1, ReleaseFrontShortens
<1>3. CASE AddDirtyReturns
  BY <1>0, <1>3, MaxLimitAssumption DEF AddDirtyReturns
<1>4. CASE Flush \/ ReleaseAllReturns
  <2>0. CASE ReleaseAllReturns
    BY <1>0, <2>0, MaxLimitAssumption DEF ReleaseAllReturns
  <2>1. CASE Flush
    <3>2. Len(dbl') <= Len(dbl) /\ limit' = limit /\ dbl' \in Seq(Blocks)
      BY <2>1, ReleaseFrontShortens DEF Flush
    <3> QED BY <1>0, <2>1, <3>2, MaxLimitAssumption DEF Flush
  <2> QED BY <1>4, <2>0, <2>1
<1>5. CASE ReleaseAll \/ ReleasedAll
  <2>1. dbl' = dbl /\ limit' = Shrunk /\ Len(dbl) <= 2 * limit
    BY <1>0, <1>5 DEF ReleaseAll, ReleasedAll, Idle
  <2> QED BY <2>1, ShrunkBound
<1>6. CASE \E b \in Blocks : MarksDirty(b) \/ MapToAccelerator(b)
  BY <1>6 DEF MarksDirty, MapToAccelerator, AddDirty
<1>7. CASE \E b \in Blocks, ok \in Outcomes : ReleaseBlock(b, ok)
  <2>1. Idle /\ Len(dbl') <= Len(dbl) /\ limit' = limit /\ dbl' \in Seq(Blocks)
    <3>1. PICK b \in Blocks, ok \in Outcomes : ReleaseBlock(b, ok)
      BY <1>7
    <3>2. ListInv'
      BY <3>1, OutcomesAreBoolean, CoherenceKeepsList DEF Coherence
    <3>3. Idle /\ Release(b, ok) /\ call # "undefined"
      BY <3>1 DEF ReleaseBlock, Idle
    <3> QED BY <3>2, <3>3, ReleaseShortens, OutcomesAreBoolean DEF ListInv, TypeOK
  <2> QED BY <1>0, <2>1, MaxLimitAssumption DEF Idle
<1>8. CASE \E b \in Blocks, ok \in Outcomes : Free(b) \/ UnmapFromAccelerator(b, ok)
  <2>1. PICK b \in Blocks : Idle /\ dbl' = RemoveFirst(dbl, b) /\ limit' = limit
    BY <1>8 DEF Free, UnmapFromAccelerator
  <2>2. Len(dbl') <= Len(dbl) /\ dbl' \in Seq(Blocks)
    BY <2>1, RemoveListed DEF ListInv, TypeOK, DirtyListed, Idle
  <2> QED BY <1>0, <2>1, <2>2, MaxLimitAssumption DEF Idle
<1>9. CASE \E b \in Blocks :
             \/ \E ok \in Outcomes : SignalRead(b, ok) \/ ToHost(b, ok)
             \/ SignalWriteDirty(b) \/ WriteFails(b)
             \/ \E p \in {"read", "rw"} : Acquire(b, p)
             \/ BulkAccess(b) \/ Alloc(b) \/ Program(b)
  <2>1. PICK b \in Blocks :
             \/ \E ok \in Outcomes : SignalRead(b, ok) \/ ToHost(b, ok)
             \/ SignalWriteDirty(b) \/ WriteFails(b)
             \/ \E p \in {"read", "rw"} : Acquire(b, p)
             \/ BulkAccess(b) \/ Alloc(b) \/ Program(b)
    BY <1>9
  <2> QED BY <1>1, <2>1, OtherKeepsList
<1>10. CASE UNCHANGED vars \/ \E uses \in [Blocks -> Uses] : Lend(uses)
  BY <1>1, <1>10 DEF vars, Lend
<1>11. CASE \E b \in Blocks :
              \/ FaultHandler(b) \/ Coherence(b) \/ BulkAccess(b)
              \/ Lifetime(b) \/ Program(b)
  <2>1. PICK b \in Blocks :
              \/ FaultHandler(b) \/ Coherence(b) \/ BulkAccess(b)
              \/ Lifetime(b) \/ Program(b)
    BY <1>11
  <2>2. CASE FaultHandler(b)
    BY <2>2, <1>6, <1>9, FaultCases
  <2>3. CASE Coherence(b)
    BY <2>3, <1>7, <1>9 DEF Coherence
  <2>4. CASE Lifetime(b)
    <3>1. CASE Free(b) \/ \E ok \in Outcomes : UnmapFromAccelerator(b, ok)
      <4>1. TRUE \in Outcomes
        BY DEF Outcomes
      <4> QED BY <3>1, <4>1, <1>8
    <3> QED BY <2>4, <3>1, <1>6, <1>9 DEF Lifetime
  <2>5. CASE BulkAccess(b) \/ Program(b)
    BY <2>5, <1>9
  <2> QED BY <2>1, <2>2, <2>3, <2>4, <2>5
<1>12. CASE Loop
  <2>1. CASE Flush \/ ReleaseAllReturns
    BY <2>1, <1>4
  <2> QED BY <1>2, <1>3, <1>12, <2>1 DEF Loop
<1> QED BY <1>5, <1>10, <1>11, <1>12 DEF Next

(* Halving the limit never leaves more than twice as many Dirty blocks as    *)
(* the limit allows, outside the loop that is evicting them.                 *)
THEOREM DirtyBounded == Spec => []DirtyWithinTwiceLimit
<1>1. Init => DirtyWithinTwiceLimit
  BY DEF Init, DirtyWithinTwiceLimit
<1> QED BY <1>1, ListInit, ListStep, BoundStep, PTL DEF Spec

-------------------------------------------------------------------------------
(* The loop of addDirty.                                                     *)

(* The loop of addDirty runs with a list that is not empty.                  *)
AddedListed == call = "addDirty" => dbl # <<>>

(* A step of addDirty's loop, or one beside it, keeps the last block.        *)
LEMMA AddedStep ==
    ASSUME ListInv, AddedListed, Next, call = "addDirty"
    PROVE  dbl' # <<>> /\ Last(dbl') = Last(dbl)
<1>0. /\ dbl \in Seq(Blocks) /\ IsInjective(dbl) /\ Len(dbl) \in Nat
      /\ limit \in 1..MaxLimit /\ dbl # <<>>
  BY DEF ListInv, TypeOK, DirtyListed, AddedListed
<1>1. CASE Evict
  <2>1. Len(dbl) > 1
    BY <1>0, <1>1, MaxLimitAssumption DEF Evict
  <2>2. /\ RemoveFirst(dbl, Head(dbl)) # <<>>
        /\ Last(RemoveFirst(dbl, Head(dbl))) = Last(dbl)
    BY <1>0, <2>1, RemoveHeadKeepsLast
  <2> QED BY <1>0, <1>1, <2>2 DEF Evict, ReleaseFront, Release
<1>2. CASE dbl' = dbl
  BY <1>0, <1>2
<1>3. CASE AddDirtyReturns \/ \E b \in Blocks : HostStore(b) \/ KernelWrite(b)
  BY <1>2, <1>3 DEF AddDirtyReturns, HostStore, KernelWrite
<1>4. ~Idle /\ call # "releaseAll"
  BY DEF Idle
<1>5. ~ReleaseAll /\ ~ReleasedAll /\ ~Flush /\ ~ReleaseAllReturns
  BY <1>4 DEF ReleaseAll, ReleasedAll, Flush, ReleaseAllReturns
<1>6. ASSUME NEW b \in Blocks
      PROVE  ~FaultHandler(b) /\ ~Coherence(b) /\ ~Lifetime(b)
  BY <1>4 DEF FaultHandler, SignalRead, SignalWriteDirty, SignalWrite,
     Coherence, Acquire, ReleaseBlock, ToHost,
     Lifetime, Alloc, Free, UnmapFromAccelerator, MapToAccelerator
<1>7. ASSUME NEW b \in Blocks
      PROVE  ~BulkAccess(b)
  BY <1>4 DEF BulkAccess, Memset, CopyFromBufferWhole, CopyFromBuffer, CopyBlock
<1>8. ASSUME NEW uses \in [Blocks -> Uses]
      PROVE  ~Lend(uses)
  BY <1>4 DEF Lend
<1> QED BY <1>1, <1>3, <1>5, <1>6, <1>7, <1>8 DEF Next, Loop, Program

(* addDirty puts its block in the list before its loop starts.               *)
LEMMA AddedListedStep == ListInv /\ AddedListed /\ [Next]_vars => AddedListed'
<1> SUFFICES ASSUME ListInv, AddedListed, [Next]_vars, call' = "addDirty"
             PROVE  dbl' # <<>>
  BY DEF AddedListed
<1>1. CASE call = "addDirty"
  BY <1>1, AddedStep DEF vars, AddedListed
<1>2. CASE call # "addDirty"
  <2>0. dbl \in Seq(Blocks)
    BY DEF ListInv, TypeOK
  <2>1. CASE \E b \in Blocks, n \in 0..RollThreshold, r \in 0..MaxRefs : AddDirty(b, n, r)
    BY <2>0, <2>1 DEF AddDirty
  <2>2. CASE ~\E b \in Blocks, n \in 0..RollThreshold, r \in 0..MaxRefs : AddDirty(b, n, r)
    <3>1. ASSUME NEW b \in Blocks
          PROVE  ~MarksDirty(b) /\ ~MapToAccelerator(b)
      <4>1. FaultCount(b) \in 0..RollThreshold /\ 0 \in 0..RollThreshold
        BY RollThresholdAssumption DEF ListInv, TypeOK, FaultCount
      <4>2. refs[b] \in 0..MaxRefs /\ 1 \in 0..MaxRefs
        BY MaxRefsAssumption DEF ListInv, TypeOK
      <4> QED BY <2>2, <4>1, <4>2 DEF MarksDirty, MapToAccelerator
    <3>2. call' \in {call, "none", "releaseAll", "undefined"}
      <4>1. CASE UNCHANGED vars
        BY <4>1 DEF vars
      <4>2. CASE Loop \/ ReleaseAll \/ ReleasedAll \/ \E uses \in [Blocks -> Uses] : Lend(uses)
        BY <4>2, <1>2 DEF Loop, Evict, Flush, AddDirtyReturns, ReleaseAllReturns,
           ReleaseAll, ReleasedAll, ReleaseFront, Release, Lend
      <4>3. ASSUME NEW b \in Blocks,
                   \/ FaultHandler(b) \/ Coherence(b) \/ BulkAccess(b)
                   \/ Lifetime(b) \/ Program(b)
            PROVE  call' = call
        BY <3>1, <4>3, OtherKeepsList, FaultCases DEF Coherence, ReleaseBlock, Release,
           Lifetime, Free, UnmapFromAccelerator
      <4> QED BY <4>1, <4>2, <4>3 DEF Next
    <3> QED BY <1>2, <3>2
  <2> QED BY <2>1, <2>2
<1> QED BY <1>1, <1>2

(* addDirty never evicts the block it was called for, because limit_ never   *)
(* falls below one.                                                          *)
THEOREM AddedBlockSafe == Spec => AddedBlockStays
<1>1. Init => AddedListed
  BY DEF Init, AddedListed
<1>2. ListInv /\ AddedListed /\ [Next]_vars =>
        [call = "addDirty" => dbl' # <<>> /\ Last(dbl') = Last(dbl)]_vars
  BY AddedStep
<1> QED BY <1>1, <1>2, ListInit, ListStep, AddedListedStep, PTL DEF Spec, AddedBlockStays

-------------------------------------------------------------------------------
(* References, when every transfer succeeds.                                 *)

(* What a block holds: its object's reference, and the list's if it is Dirty.*)
Held(b) ==
    /\ state[b] # "NoBlock" => refs[b] >= 1
    /\ state[b] = "Dirty" => refs[b] >= 2

HeldInv == call # "undefined" /\ \A b \in Blocks : Held(b)

(* Without failures every transfer succeeds.                                 *)
LEMMA Succeed == ~TransfersFail => Outcomes = {TRUE}
BY DEF Outcomes

LEMMA HeldInit == Init => HeldInv
BY DEF Init, HeldInv, Held

(* Steps that change no count, and make no block Dirty.                      *)
LEMMA SameRefsHeld ==
    ASSUME HeldInv, refs' = refs, call' # "undefined",
           \A c \in Blocks : /\ state'[c] = "Dirty" => state[c] = "Dirty"
                             /\ state[c] = "NoBlock" => state'[c] = "NoBlock"
    PROVE  HeldInv'
BY DEF HeldInv, Held

(* The loops release the block that front() returns.                         *)
LEMMA LoopReleases ==
    ASSUME ListInv, HeldInv, ~TransfersFail, Evict \/ Flush, NEW b, b = Head(dbl)
    PROVE  /\ b \in Blocks /\ state[b] = "Dirty" /\ refs[b] >= 2 /\ refs[b] \in 1..MaxRefs
           /\ refs' = [refs EXCEPT ![b] = @ - 1]
           /\ Release(b, TRUE)
<1>1. call # "undefined" /\ dbl # <<>> /\ ReleaseFront
  BY MaxLimitAssumption DEF Evict, Flush, ListInv, TypeOK
<1>2. b \in Blocks /\ state[b] = "Dirty" /\ refs[b] >= 2 /\ refs[b] \in 1..MaxRefs
  BY <1>1, FrontDirty DEF HeldInv, Held
<1>3. refs[b] > 1
  BY <1>2, MaxRefsAssumption
<1> QED BY <1>1, <1>2, <1>3, Succeed DEF ReleaseFront

(* The loops give up the reference of a block that leaves the list with it.  *)
LEMMA LoopHeld ==
    ASSUME ListInv, HeldInv, ~TransfersFail, Loop \/ ReleaseAll \/ ReleasedAll
    PROVE  HeldInv'
<1>1. CASE Evict \/ Flush
  <2> DEFINE b == Head(dbl)
  <2>2. b \in Blocks /\ state[b] = "Dirty" /\ refs[b] >= 2 /\ refs[b] \in 1..MaxRefs
    BY <1>1, LoopReleases
  <2>3. refs' = [refs EXCEPT ![b] = @ - 1] /\ Release(b, TRUE)
    BY <1>1, LoopReleases
  <2>4. state' = [state EXCEPT ![b] = "ReadOnly"] /\ call' = call
    BY <2>2, <2>3 DEF Release
  <2> HIDE DEF b
  <2> QED BY <2>2, <2>3, <2>4, MaxRefsAssumption DEF HeldInv, Held, ListInv, TypeOK
<1>2. CASE AddDirtyReturns \/ ReleaseAllReturns \/ ReleaseAll \/ ReleasedAll
  BY <1>2 DEF AddDirtyReturns, ReleaseAllReturns, ReleaseAll, ReleasedAll, HeldInv, Held
<1> QED BY <1>1, <1>2 DEF Loop

(* The other operations: push() takes a reference, the rest none.            *)
LEMMA OtherHeld ==
    ASSUME ListInv, HeldInv, NEW b \in Blocks,
           \/ FaultHandler(b) \/ Coherence(b) \/ BulkAccess(b)
           \/ Lifetime(b) \/ Program(b)
    PROVE  HeldInv'
<1> USE DEF ListInv, TypeOK
<1>1. CASE MarksDirty(b) \/ MapToAccelerator(b)
  <2>1. refs[b] \in Nat /\ (state[b] # "NoBlock" => refs[b] >= 1)
    BY MaxRefsAssumption DEF HeldInv, Held
  <2>2. /\ refs' \in {[refs EXCEPT ![b] = refs[b] + 1], [refs EXCEPT ![b] = 1 + 1]}
        /\ call' # "undefined"
        /\ state' = [state EXCEPT ![b] = "Dirty"]
        /\ state[b] # "NoBlock"
    BY <1>1 DEF MarksDirty, MapToAccelerator, AddDirty
  <2>3. refs'[b] >= 2 /\ \A c \in Blocks \ {b} : refs'[c] = refs[c] /\ state'[c] = state[c]
    BY <2>1, <2>2
  <2> QED BY <2>2, <2>3 DEF HeldInv, Held
<1>2. CASE Alloc(b) \/ Free(b)
  <2>1. \A c \in Blocks \ {b} : refs'[c] = refs[c] /\ state'[c] = state[c]
    BY <1>2 DEF Alloc, Free
  <2>2. \/ state'[b] = "ReadOnly" /\ refs'[b] = 1
        \/ state'[b] = "NoBlock"
    BY <1>2 DEF Alloc, Free
  <2>3. call' # "undefined"
    BY <1>2 DEF Alloc, Free, Idle
  <2>4. ASSUME NEW c \in Blocks \ {b}
        PROVE  Held(c)'
    BY <2>1 DEF HeldInv, Held
  <2>5. Held(b)'
    BY <2>2 DEF Held
  <2> QED BY <2>3, <2>4, <2>5 DEF HeldInv
<1>3. CASE \/ \E ok \in Outcomes :
               SignalRead(b, ok) \/ ReleaseBlock(b, ok) \/ ToHost(b, ok)
           \/ SignalWriteDirty(b) \/ WriteFails(b)
           \/ \E p \in {"read", "rw"} : Acquire(b, p)
           \/ \E ok \in Outcomes : UnmapFromAccelerator(b, ok)
           \/ Program(b)
  <2>1. UNCHANGED <<refs, call>>
    BY <1>3 DEF SignalRead, ReleaseBlock, Release, ToHost, SignalWriteDirty, WriteFails,
       Acquire, UnmapFromAccelerator, Program, HostStore, KernelWrite
  <2>2. \A c \in Blocks : /\ state'[c] = "Dirty" => state[c] = "Dirty"
                          /\ state[c] = "NoBlock" => state'[c] = "NoBlock"
    BY <1>3 DEF SignalRead, ReleaseBlock, Release, ToHost, SignalWriteDirty, WriteFails,
       Acquire, UnmapFromAccelerator, Program, HostStore, KernelWrite, live
  <2> QED BY <2>1, <2>2, SameRefsHeld DEF HeldInv
<1>4. CASE BulkAccess(b)
  <2>1. UNCHANGED <<refs, call>>
    BY <1>4 DEF BulkAccess, Memset, CopyFromBufferWhole, CopyFromBuffer, CopyBlock
  <2>2. \A c \in Blocks : /\ state'[c] = "Dirty" => state[c] = "Dirty"
                          /\ state[c] = "NoBlock" => state'[c] = "NoBlock"
    BY <1>4 DEF BulkAccess, Memset, CopyFromBufferWhole, CopyFromBuffer, CopyBlock
  <2> QED BY <2>1, <2>2, SameRefsHeld DEF HeldInv
<1> QED BY <1>1, <1>2, <1>3, <1>4, FaultCases DEF Coherence, Lifetime

LEMMA HeldStep ==
    ASSUME ~TransfersFail, ListInv, HeldInv, [Next]_vars
    PROVE  HeldInv'
<1>1. CASE UNCHANGED vars
  BY <1>1 DEF vars, HeldInv, Held
<1>2. CASE \E uses \in [Blocks -> Uses] : Lend(uses)
  BY <1>2 DEF Lend, HeldInv, Held
<1> QED BY <1>1, <1>2, LoopHeld, OtherHeld DEF Next

(* Without failing transfers a listed block always has the reference of the  *)
(* list, so that front() never destroys the block it returns.                *)
THEOREM FrontKeepsBlocks ==
    ASSUME ~TransfersFail
    PROVE  Spec => [](ListHoldsReference /\ FrontBlockExists)
<1>1. ListInv /\ HeldInv => ListHoldsReference /\ FrontBlockExists
  BY DEF ListInv, DirtyListed, HeldInv, Held, ListHoldsReference, FrontBlockExists, live
<1>2. ListInv /\ HeldInv /\ [Next]_vars => HeldInv'
  BY HeldStep
<1> QED BY <1>1, <1>2, ListInit, HeldInit, ListStep, PTL DEF Spec

-------------------------------------------------------------------------------
(* Coherence: one block at a time, over the exact list.                      *)

(* What the four coherence properties say of one block, and that a block is  *)
(* lent to a kernel only after it has been released.                         *)
Coherent(b) ==
    /\ state[b] = "ReadOnly" /\ lent[b] # "write" => current[b] = Sides
    /\ state[b] = "Invalid" \/ lent[b] # "none" => "acc" \in current[b]
    /\ state[b] \in {"Dirty", "HostOnly"} => "host" \in current[b]
    /\ prot[b] = "rw" /\ state[b] # "NoBlock" => state[b] \in {"Dirty", "HostOnly"}
    /\ state[b] = "Invalid" => prot[b] = "none"
    /\ lent[b] # "none" => state[b] \in {"ReadOnly", "Invalid"}

CoherenceInv == ListInv /\ HeldInv /\ \A b \in Blocks : Coherent(b)

SameBlock(c) ==
    /\ state'[c] = state[c]
    /\ prot'[c] = prot[c]
    /\ current'[c] = current[c]
    /\ lent'[c] = lent[c]

(* A step that leaves every block but one alone keeps all blocks coherent if *)
(* it keeps that one coherent.                                               *)
LEMMA OneBlock ==
    ASSUME NEW b \in Blocks, \A c \in Blocks : Coherent(c),
           \A c \in Blocks \ {b} : SameBlock(c), Coherent(b)'
    PROVE  \A c \in Blocks : Coherent(c)'
BY DEF Coherent, SameBlock

(* Releasing a block brings its accelerator copy up to date.                 *)
LEMMA ReleaseCoherent ==
    ASSUME CoherenceInv, NEW b \in Blocks, Release(b, TRUE)
    PROVE  \A c \in Blocks : Coherent(c)'
<1> USE DEF CoherenceInv, ListInv, TypeOK
<1>1. \A c \in Blocks \ {b} : SameBlock(c)
  BY DEF Release, SameBlock
<1>2. Coherent(b)'
  <2>1. CASE state[b] = "Dirty"
    BY <2>1 DEF Release, Coherent, Transferred, Sides
  <2>2. CASE state[b] # "Dirty"
    BY <2>2 DEF Release, Coherent
  <2> QED BY <2>1, <2>2
<1> QED BY <1>1, <1>2, OneBlock

(* Evictions and flushes keep the blocks coherent.                           *)
LEMMA LoopCoherent ==
    ASSUME CoherenceInv, ~TransfersFail, Loop \/ ReleaseAll \/ ReleasedAll
    PROVE  \A c \in Blocks : Coherent(c)'
<1>1. CASE Evict \/ Flush
  <2>1. Head(dbl) \in Blocks /\ Release(Head(dbl), TRUE)
    BY <1>1, LoopReleases DEF CoherenceInv
  <2> QED BY <2>1, ReleaseCoherent
<1>2. CASE AddDirtyReturns \/ ReleaseAllReturns \/ ReleaseAll \/ ReleasedAll
  BY <1>2 DEF AddDirtyReturns, ReleaseAllReturns, ReleaseAll, ReleasedAll, CoherenceInv, Coherent
<1> QED BY <1>1, <1>2 DEF Loop

(* A fault brings the host copy up to date before the page can be accessed.  *)
LEMMA FaultHandlerCoherent ==
    ASSUME CoherenceInv, ~TransfersFail, NEW b \in Blocks, FaultHandler(b)
    PROVE  \A c \in Blocks : Coherent(c)'
<1> USE DEF CoherenceInv, ListInv, TypeOK
<1>1. CASE SignalRead(b, TRUE)
  <2>1. \A c \in Blocks \ {b} : SameBlock(c)
    BY <1>1 DEF SignalRead, SameBlock
  <2>2. Coherent(b)'
    BY <1>1 DEF SignalRead, Coherent, Transferred, Sides
  <2> QED BY <2>1, <2>2, OneBlock
<1>2. CASE SignalWriteDirty(b)
  <2>1. \A c \in Blocks \ {b} : SameBlock(c)
    BY <1>2 DEF SignalWriteDirty, SameBlock
  <2>2. Coherent(b)'
    BY <1>2 DEF SignalWriteDirty, Coherent
  <2> QED BY <2>1, <2>2, OneBlock
<1>3. CASE WriteFails(b)
  BY <1>3, Succeed DEF WriteFails
<1>4. CASE MarksDirty(b)
  <2>1. \A c \in Blocks \ {b} : SameBlock(c)
    BY <1>4 DEF MarksDirty, SameBlock
  <2>2. Coherent(b)'
    BY <1>4 DEF MarksDirty, Coherent, Transferred, Sides
  <2> QED BY <2>1, <2>2, OneBlock
<1> QED BY <1>1, <1>2, <1>3, <1>4, Succeed, FaultCases

(* acquire hands the block over only to the side that has its data.          *)
LEMMA CoherenceOpsCoherent ==
    ASSUME CoherenceInv, ~TransfersFail, NEW b \in Blocks, Coherence(b)
    PROVE  \A c \in Blocks : Coherent(c)'
<1> USE DEF CoherenceInv, ListInv, TypeOK
<1>1. ASSUME NEW p \in {"read", "rw"}, Acquire(b, p)
      PROVE  \A c \in Blocks : Coherent(c)'
  <2>1. \A c \in Blocks \ {b} : SameBlock(c)
    BY <1>1 DEF Acquire, SameBlock
  <2>2. Coherent(b)'
    BY <1>1 DEF Acquire, Coherent, Sides, live
  <2> QED BY <2>1, <2>2, OneBlock
<1>2. CASE ReleaseBlock(b, TRUE)
  BY <1>2, ReleaseCoherent DEF ReleaseBlock
<1>3. CASE ToHost(b, TRUE)
  <2>1. \A c \in Blocks \ {b} : SameBlock(c)
    BY <1>3 DEF ToHost, SameBlock
  <2>2. Coherent(b)'
    BY <1>3 DEF ToHost, Coherent, Transferred, Sides
  <2> QED BY <2>1, <2>2, OneBlock
<1> QED BY <1>1, <1>2, <1>3, Succeed DEF Coherence

(* What copyBlockToBlock leaves in the destination, when all its transfers   *)
(* succeed: the copies it wrote are as good as the ones it read.             *)
CopyGood(s, d) ==
    {CopySteps(state[s], state[d])[i][2] :
        i \in {j \in DOMAIN CopySteps(state[s], state[d]) :
                CopySteps(state[s], state[d])[j][1] \in current[s]}}

(* The copies a block copy writes to a destination include every copy that   *)
(* its state says is valid.                                                  *)
LEMMA CopyGoodCovers ==
    ASSUME CoherenceInv, NEW d \in Blocks, NEW s \in Blocks, lent[s] # "write",
           state[d] \in {"ReadOnly", "Invalid", "Dirty"},
           state[s] \in {"ReadOnly", "Invalid", "Dirty"}
    PROVE  /\ state[d] \in {"ReadOnly", "Invalid"} => "acc" \in CopyGood(s, d)
           /\ state[d] \in {"ReadOnly", "Dirty"} => "host" \in CopyGood(s, d)
<1> USE DEF CopyGood, CopySteps
<1>0. /\ state[s] = "ReadOnly" => current[s] = Sides
      /\ state[s] = "Invalid" => "acc" \in current[s]
      /\ state[s] = "Dirty" => "host" \in current[s]
  BY DEF CoherenceInv, Coherent
<1>1. CASE state[d] = "Invalid"
  <2>1. CASE state[s] \in {"Invalid", "ReadOnly"}
    BY <1>0, <1>1, <2>1 DEF Sides
  <2>2. CASE state[s] = "Dirty"
    BY <1>0, <1>1, <2>2
  <2> QED BY <1>1, <2>1, <2>2
<1>2. CASE state[d] = "Dirty"
  <2>1. CASE state[s] \in {"Dirty", "ReadOnly"}
    BY <1>0, <1>2, <2>1 DEF Sides
  <2>2. CASE state[s] = "Invalid"
    BY <1>0, <1>2, <2>2
  <2> QED BY <1>2, <2>1, <2>2
<1>3. CASE state[d] = "ReadOnly"
  <2>1. CASE state[s] = "ReadOnly"
    BY <1>0, <1>3, <2>1 DEF Sides
  <2>2. CASE state[s] = "Invalid"
    BY <1>0, <1>3, <2>2
  <2>3. CASE state[s] = "Dirty"
    BY <1>0, <1>3, <2>3
  <2> QED BY <1>3, <2>1, <2>2, <2>3
<1> QED BY <1>1, <1>2, <1>3

(* Bulk accesses write every valid copy of the destination, or leave one     *)
(* that its state does not call valid.                                       *)
LEMMA BulkAccessCoherent ==
    ASSUME CoherenceInv, ~TransfersFail, NEW b \in Blocks, BulkAccess(b)
    PROVE  \A c \in Blocks : Coherent(c)'
<1> USE DEF CoherenceInv, ListInv, TypeOK
<1>1. ASSUME NEW full \in BOOLEAN, Memset(b, full, TRUE)
      PROVE  \A c \in Blocks : Coherent(c)'
  <2>1. \A c \in Blocks \ {b} : SameBlock(c)
    BY <1>1 DEF Memset, SameBlock
  <2>2. Coherent(b)'
    BY <1>1 DEF Memset, BulkSides, Written, Coherent, Sides, States, live
  <2> QED BY <2>1, <2>2, OneBlock
<1>2. CASE CopyFromBufferWhole(b, TRUE)
  <2>1. \A c \in Blocks \ {b} : SameBlock(c)
    BY <1>2 DEF CopyFromBufferWhole, SameBlock
  <2>2. Coherent(b)'
    BY <1>2 DEF CopyFromBufferWhole, Written, Coherent, Sides
  <2> QED BY <2>1, <2>2, OneBlock
<1>3. ASSUME NEW full \in BOOLEAN, CopyFromBuffer(b, full, TRUE)
      PROVE  \A c \in Blocks : Coherent(c)'
  <2>1. \A c \in Blocks \ {b} : SameBlock(c)
    BY <1>3 DEF CopyFromBuffer, SameBlock
  <2>2. Coherent(b)'
    BY <1>3 DEF CopyFromBuffer, BulkSides, Written, Coherent, Sides, States, live
  <2> QED BY <2>1, <2>2, OneBlock
<1>4. ASSUME NEW s \in Blocks, NEW full \in BOOLEAN, NEW done \in SUBSET {1, 2},
             CopyBlock(b, s, full, done)
      PROVE  \A c \in Blocks : Coherent(c)'
  <2>1. \A c \in Blocks \ {b} : SameBlock(c)
    BY <1>4 DEF CopyBlock, SameBlock
  <2>2. done = DOMAIN CopySteps(state[s], state[b])
    BY <1>4 DEF CopyBlock
  <2>3. /\ state[b] \in {"ReadOnly", "Invalid"} => "acc" \in CopyGood(s, b)
        /\ state[b] \in {"ReadOnly", "Dirty"} => "host" \in CopyGood(s, b)
        /\ state[b] \in {"ReadOnly", "Invalid", "Dirty"}
        /\ lent[b] = "none"
    BY <1>4, CopyGoodCovers DEF CopyBlock
  <2>4. \/ current'[b] = current[b]
        \/ current'[b] = (IF full THEN Sides ELSE current[b]) \cap CopyGood(s, b)
    BY <1>4, <2>2 DEF CopyBlock, CopyGood
  <2>5. Coherent(b)'
    <3>1. UNCHANGED <<state, prot, lent>>
      BY <1>4 DEF CopyBlock
    <3> HIDE DEF CopyGood
    <3>2. current'[b] \subseteq Sides
      BY <2>4
    <3>3. /\ state[b] \in {"ReadOnly", "Invalid"} => "acc" \in current'[b]
          /\ state[b] \in {"ReadOnly", "Dirty"} => "host" \in current'[b]
      BY <2>3, <2>4 DEF Coherent, Sides
    <3>4. state[b] = "ReadOnly" => current'[b] = Sides
      BY <3>2, <3>3 DEF Sides
    <3> QED BY <2>3, <3>1, <3>3, <3>4 DEF Coherent
  <2> QED BY <2>1, <2>5, OneBlock
<1>5. \/ \E full \in BOOLEAN : Memset(b, full, TRUE)
      \/ CopyFromBufferWhole(b, TRUE)
      \/ \E full \in BOOLEAN : CopyFromBuffer(b, full, TRUE)
      \/ \E s \in Blocks, full \in BOOLEAN, done \in SUBSET {1, 2} : CopyBlock(b, s, full, done)
  <2> HIDE DEF CoherenceInv, ListInv, TypeOK
  <2> QED BY Succeed DEF BulkAccess
<1> QED BY <1>1, <1>2, <1>3, <1>4, <1>5

(* Blocks enter ReadOnly with two equal copies and leave the accelerator     *)
(* with their data in host memory.                                           *)
LEMMA LifetimeCoherent ==
    ASSUME CoherenceInv, ~TransfersFail, NEW b \in Blocks, Lifetime(b)
    PROVE  \A c \in Blocks : Coherent(c)'
<1> USE DEF CoherenceInv, ListInv, TypeOK
<1>1. CASE Alloc(b)
  <2>1. \A c \in Blocks \ {b} : SameBlock(c)
    BY <1>1 DEF Alloc, SameBlock
  <2>2. Coherent(b)'
    BY <1>1 DEF Alloc, Coherent, Sides
  <2> QED BY <2>1, <2>2, OneBlock
<1>2. CASE Free(b)
  <2>1. \A c \in Blocks \ {b} : SameBlock(c)
    BY <1>2 DEF Free, SameBlock
  <2>2. Coherent(b)'
    BY <1>2 DEF Free, Coherent
  <2> QED BY <2>1, <2>2, OneBlock
<1>3. CASE UnmapFromAccelerator(b, TRUE)
  <2>1. \A c \in Blocks \ {b} : SameBlock(c)
    BY <1>3 DEF UnmapFromAccelerator, SameBlock
  <2>2. Coherent(b)'
    BY <1>3 DEF UnmapFromAccelerator, Coherent, Transferred, Sides, States, live
  <2> QED BY <2>1, <2>2, OneBlock
<1>4. CASE MapToAccelerator(b)
  <2>1. \A c \in Blocks \ {b} : SameBlock(c)
    BY <1>4 DEF MapToAccelerator, SameBlock
  <2>2. Coherent(b)'
    BY <1>4 DEF MapToAccelerator, Coherent
  <2> QED BY <2>1, <2>2, OneBlock
<1> QED BY <1>1, <1>2, <1>3, <1>4, Succeed DEF Lifetime

(* Stores reach the host copy only where it is the valid one, and kernels    *)
(* write only blocks that have been released.                                *)
LEMMA ProgramCoherent ==
    ASSUME CoherenceInv, NEW b \in Blocks, Program(b)
    PROVE  \A c \in Blocks : Coherent(c)'
<1> USE DEF CoherenceInv, ListInv, TypeOK
<1>1. CASE HostStore(b)
  <2>1. \A c \in Blocks \ {b} : SameBlock(c)
    BY <1>1 DEF HostStore, SameBlock
  <2>2. Coherent(b)'
    BY <1>1 DEF HostStore, Coherent, Written, States
  <2> QED BY <2>1, <2>2, OneBlock
<1>2. CASE KernelWrite(b)
  <2>1. \A c \in Blocks \ {b} : SameBlock(c)
    BY <1>2 DEF KernelWrite, SameBlock
  <2>2. Coherent(b)'
    BY <1>2 DEF KernelWrite, Coherent, Written
  <2> QED BY <2>1, <2>2, OneBlock
<1> QED BY <1>1, <1>2 DEF Program

(* A kernel is lent blocks whose accelerator copy holds their data.          *)
LEMMA LendCoherent ==
    ASSUME CoherenceInv, NEW uses \in [Blocks -> Uses], Lend(uses)
    PROVE  \A c \in Blocks : Coherent(c)'
BY DEF CoherenceInv, ListInv, TypeOK, Lend, Coherent, Sides

(* Coherence of every block is inductive.                                    *)
LEMMA CoherenceStep ==
    ASSUME ~TransfersFail
    PROVE  CoherenceInv /\ [Next]_vars => CoherenceInv'
<1> SUFFICES ASSUME CoherenceInv, [Next]_vars PROVE CoherenceInv'
  OBVIOUS
<1>1. ListInv' /\ HeldInv'
  BY ListStep, HeldStep DEF CoherenceInv
<1>2. \A c \in Blocks : Coherent(c)'
  <2>1. CASE UNCHANGED vars
    BY <2>1 DEF vars, CoherenceInv, Coherent
  <2>2. CASE Next
    BY <2>2, LoopCoherent, FaultHandlerCoherent, CoherenceOpsCoherent,
       BulkAccessCoherent, LifetimeCoherent, ProgramCoherent, LendCoherent DEF Next
  <2> QED BY <2>1, <2>2
<1> QED BY <1>1, <1>2 DEF CoherenceInv

(* The coherence properties follow from the invariant.                       *)
LEMMA CoherenceImplies ==
    CoherenceInv => /\ ReadOnlyBothCopies
                    /\ AcceleratorCurrent
                    /\ HostCurrent
                    /\ ReadablePagesCurrent
                    /\ ProtectionFollowsState
<1> SUFFICES ASSUME CoherenceInv
             PROVE  /\ ReadOnlyBothCopies
                    /\ AcceleratorCurrent
                    /\ HostCurrent
                    /\ ReadablePagesCurrent
                    /\ ProtectionFollowsState
  OBVIOUS
<1> USE DEF CoherenceInv, Coherent
<1>1. ReadOnlyBothCopies /\ AcceleratorCurrent /\ HostCurrent
  BY DEF ReadOnlyBothCopies, AcceleratorCurrent, HostCurrent
<1>2. ProtectionFollowsState
  BY DEF ProtectionFollowsState, live
<1>3. ReadablePagesCurrent
  BY DEF ReadablePagesCurrent, live, ListInv, TypeOK, States, Sides
<1> QED BY <1>1, <1>2, <1>3

(* Without failing transfers every copy that the state of its               *)
(* block calls valid holds the last value written, by the host or a kernel,  *)
(* and no page the program can read without a fault holds an older one.      *)
THEOREM CopiesCoherent ==
    ASSUME ~TransfersFail
    PROVE  Spec => [](/\ ReadOnlyBothCopies
                      /\ AcceleratorCurrent
                      /\ HostCurrent
                      /\ ReadablePagesCurrent
                      /\ ProtectionFollowsState)
<1>1. Init => CoherenceInv
  <2> SUFFICES ASSUME Init PROVE CoherenceInv
    OBVIOUS
  <2>1. \A b \in Blocks : Coherent(b)
    BY DEF Init, Coherent
  <2> QED BY <2>1, ListInit, HeldInit DEF CoherenceInv
<1>2. CoherenceInv /\ [Next]_vars => CoherenceInv'
  BY CoherenceStep
<1> QED BY <1>1, <1>2, CoherenceImplies, PTL DEF Spec
===============================================================================
