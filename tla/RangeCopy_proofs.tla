--------------------------- MODULE RangeCopy_proofs ---------------------------
(***************************************************************************)
(* Proofs about bulk copies, for any layout of memory and any calls, on the*)
(* way through buffers, and where source and destination are in step on the*)
(* fast path between the blocks of one accelerator.  A memcpy that goes on *)
(* past the end of an object comes to a stop there.                        *)
(***************************************************************************)
EXTENDS RangeCopy, Facts

-------------------------------------------------------------------------------
(* Numbers, objects and buffers.                                             *)

LEMMA LeastOfTwo ==
    ASSUME NEW a \in Int, NEW b \in Int
    PROVE  Least(a, b) \in {a, b} /\ Least(a, b) <= a /\ Least(a, b) <= b
BY DEF Least

LEMMA ObjectFacts ==
    ASSUME NEW o \in Objects
    PROVE  o.start \in Nat /\ o.size \in Nat \ {0} /\ End(o) \in Nat /\ o # NoObject
BY ObjectsAssumption DEF End, NoObject

(* What mapFind finds ends after the address, and begins in the range.       *)
LEMMA FindObjectFinds ==
    ASSUME NEW a \in Nat, NEW n \in Nat, FindObject(a, n) # NoObject
    PROVE  /\ FindObject(a, n) \in Objects
           /\ a < End(FindObject(a, n)) /\ FindObject(a, n).start <= a + n
<1> DEFINE hits == {o \in Objects : a < End(o) /\ o.start <= a + n}
           starts == {o.start : o \in hits}
           first == CHOOSE o \in hits : \A p \in hits : o.start <= p.start
<1>1. hits # {} /\ FindObject(a, n) = first
  BY DEF FindObject
<1>2. starts \subseteq Nat /\ starts # {}
  BY <1>1, ObjectFacts
<1>3. \E x \in starts : \A y \in starts : x <= y
  <2> HIDE DEF starts
  <2> QED BY <1>2, HasLeast
<1>4. \E o \in hits : \A p \in hits : o.start <= p.start
  BY <1>3
<1>5. first \in hits
  <2> HIDE DEF hits
  <2> QED BY <1>4
<1> QED BY <1>1, <1>5

LEMMA PassiveBuffer ==
    ASSUME active \in Buffers
    PROVE  passive \in Buffers /\ \A b \in Buffers : b = passive <=> b # active
BY DEF passive, Buffers

-------------------------------------------------------------------------------
(* The loops of memcpy and memset.                                           *)

\* Where an object copies.
CopyPlaces ==
    {"toObject", "fromObject", "objectToObject", "send", "refill", "fetch", "secondFetch",
     "store", "forward", "reload", "secondReload", "drain"}

Types ==
    /\ req \in Requests \cup {NoRequest}
    /\ pc \in CopyPlaces \cup {"idle", "memcpy", "memset", "fast"}
    /\ active \in Buffers
    /\ offset \in Nat
    /\ {dstObject, srcObject} \subseteq Objects \cup {NoObject}

\* The loop of memcpy is where an object begins or ends.
AtBorder ==
    \/ Dst = dstObject.start \/ (dstObject # NoObject /\ Dst = End(dstObject))
    \/ Src = srcObject.start \/ (srcObject # NoObject /\ Src = End(srcObject))

\* The call, and the objects its loop has looked up: it does not go past them.
RequestRight ==
    /\ req = NoRequest <=> pc = "idle"
    /\ pc = "memset" => req.call = "memset"
    /\ pc \notin {"idle", "memset"} =>
          /\ req.call = "memcpy"
          /\ dstObject # NoObject => Dst <= End(dstObject)
          /\ srcObject # NoObject => Src <= End(srcObject)
    /\ IF pc = "idle" THEN offset = 0 ELSE offset <= req.size
    /\ pc \notin {"idle", "memset"} => offset \in {0, req.size} \/ AtBorder
    /\ pc = "memset" /\ Left > 0 => dstObject = NoObject \/ Dst < End(dstObject)

LoopInv == Types /\ RequestRight

LEMMA RequestFacts ==
    ASSUME LoopInv, pc # "idle"
    PROVE  /\ req \in Requests /\ req.call \in {"memcpy", "memset"} /\ req.fast \in BOOLEAN
           /\ req.dst \in Nat /\ req.src \in Nat /\ req.size \in Nat
           /\ req.dst + req.size <= Top + 1
           /\ req.call = "memcpy" =>
                 /\ req.src + req.size <= Top + 1
                 /\ req.dst + req.size <= req.src \/ req.src + req.size <= req.dst
           /\ offset \in 0 .. req.size /\ Left = req.size - offset
           /\ Dst = req.dst + offset /\ Src = req.src + offset
<1>1. req \in Requests
  BY DEF LoopInv, Types, RequestRight
<1>2. offset \in 0 .. req.size
  BY <1>1, RequestsAssumption DEF LoopInv, Types, RequestRight
<1> QED BY <1>1, <1>2, RequestsAssumption DEF Left, Dst, Src

(* The loop of memcpy does not leave the objects it has looked up.           *)
LEMMA ObjectsHeld ==
    ASSUME LoopInv, pc \notin {"idle", "memset"}
    PROVE  /\ dstObject # NoObject => /\ dstObject \in Objects /\ dstObject.start \in Nat
                                      /\ End(dstObject) \in Nat /\ Dst <= End(dstObject)
           /\ srcObject # NoObject => /\ srcObject \in Objects /\ srcObject.start \in Nat
                                      /\ End(srcObject) \in Nat /\ Src <= End(srcObject)
           /\ Refreshed(dstObject, Dst) = dstObject /\ Refreshed(srcObject, Src) = srcObject
<1>1. Dst \in Nat /\ Src \in Nat
  BY RequestFacts
<1>2. dstObject # NoObject => /\ dstObject \in Objects /\ dstObject.start \in Nat
                              /\ End(dstObject) \in Nat /\ Dst <= End(dstObject)
  BY ObjectFacts DEF LoopInv, Types, RequestRight
<1>3. srcObject # NoObject => /\ srcObject \in Objects /\ srcObject.start \in Nat
                              /\ End(srcObject) \in Nat /\ Src <= End(srcObject)
  BY ObjectFacts DEF LoopInv, Types, RequestRight
<1> QED BY <1>1, <1>2, <1>3 DEF Refreshed

\* One iteration of memcpy deals with n bytes, all on one side of each border.
Copies(n) ==
    \/ HostToHost(n)
    \/ /\ HostToObject(n)
       /\ dstObject # NoObject /\ dstObject.start <= Dst /\ Dst + n <= End(dstObject)
    \/ /\ ObjectToHost(n)
       /\ srcObject # NoObject /\ srcObject.start <= Src /\ Src + n <= End(srcObject)
    \/ /\ ObjectToObject(n)
       /\ dstObject # NoObject /\ dstObject.start <= Dst /\ Dst + n <= End(dstObject)
       /\ srcObject # NoObject /\ srcObject.start <= Src /\ Src + n <= End(srcObject)

\* It goes past the end of no object, and ends with the call or at a border.
ToBorder(n) ==
    /\ dstObject # NoObject => Dst + n <= End(dstObject)
    /\ srcObject # NoObject => Src + n <= End(srcObject)
    /\ \/ n = Left
       \/ Dst + n = dstObject.start \/ (dstObject # NoObject /\ Dst + n = End(dstObject))
       \/ Src + n = srcObject.start \/ (srcObject # NoObject /\ Src + n = End(srcObject))

LEMMA StretchRight ==
    ASSUME LoopInv, CopyStretch
    PROVE  /\ UNCHANGED <<req, bufferVars, dstObject, srcObject>>
           /\ pc = "memcpy" /\ Left > 0
           /\ \/ UNCHANGED vars
              \/ \E n \in 1 .. Left : offset' = offset + n /\ Copies(n) /\ ToBorder(n)
<1> DEFINE dstHost == HostMemory(Dst, Left, dstObject')
           srcHost == HostMemory(Src, Left, srcObject')
           stretch == Stretches(dstHost, srcHost)
           n == Least(stretch, Left)
<1>1. /\ pc = "memcpy" /\ Left > 0
      /\ UNCHANGED <<req, bufferVars>>
      /\ dstObject' = Refreshed(dstObject, Dst) /\ srcObject' = Refreshed(srcObject, Src)
  BY DEF CopyStretch
<1>2. dstObject' = dstObject /\ srcObject' = srcObject
  BY <1>1, ObjectsHeld
<1>3. /\ Left \in Nat \ {0} /\ Dst \in Nat /\ Src \in Nat /\ offset \in Nat
  BY <1>1, RequestFacts
<1>4. /\ dstObject # NoObject => dstObject.start \in Nat /\ End(dstObject) \in Nat
                                 /\ dstObject.start < End(dstObject) /\ Dst <= End(dstObject)
      /\ srcObject # NoObject => srcObject.start \in Nat /\ End(srcObject) \in Nat
                                 /\ srcObject.start < End(srcObject) /\ Src <= End(srcObject)
  <2>1. \A o \in Objects : o.start < End(o)
    BY ObjectFacts DEF End
  <2> QED BY <1>1, <2>1, ObjectsHeld
<1>5. /\ dstHost \in Nat
      /\ dstHost = 0 => dstObject # NoObject /\ dstObject.start <= Dst
      /\ dstHost # 0 => \/ dstObject = NoObject /\ dstHost = Left
                        \/ dstObject # NoObject /\ Dst + dstHost = dstObject.start
  BY <1>2, <1>3, <1>4 DEF HostMemory
<1>6. /\ srcHost \in Nat
      /\ srcHost = 0 => srcObject # NoObject /\ srcObject.start <= Src
      /\ srcHost # 0 => \/ srcObject = NoObject /\ srcHost = Left
                        \/ srcObject # NoObject /\ Src + srcHost = srcObject.start
  BY <1>2, <1>3, <1>4 DEF HostMemory
<1>7. /\ stretch \in Nat
      /\ dstObject # NoObject => Dst + stretch <= End(dstObject)
      /\ srcObject # NoObject => Src + stretch <= End(srcObject)
      /\ \/ stretch = Left
         \/ Dst + stretch = dstObject.start \/ (dstObject # NoObject /\ Dst + stretch = End(dstObject))
         \/ Src + stretch = srcObject.start \/ (srcObject # NoObject /\ Src + stretch = End(srcObject))
  <2> HIDE DEF dstHost, srcHost
  <2> DEFINE dstPart == IF dstHost # 0 THEN dstHost ELSE End(dstObject') - Dst
             srcPart == IF srcHost # 0 THEN srcHost ELSE End(srcObject') - Src
  <2>1. /\ dstPart \in Nat
        /\ dstObject # NoObject => Dst + dstPart <= End(dstObject)
        /\ \/ dstPart = Left
           \/ Dst + dstPart = dstObject.start
           \/ dstObject # NoObject /\ Dst + dstPart = End(dstObject)
    BY <1>2, <1>3, <1>4, <1>5
  <2>2. /\ srcPart \in Nat
        /\ srcObject # NoObject => Src + srcPart <= End(srcObject)
        /\ \/ srcPart = Left
           \/ Src + srcPart = srcObject.start
           \/ srcObject # NoObject /\ Src + srcPart = End(srcObject)
    BY <1>2, <1>3, <1>4, <1>6
  <2>3. stretch = Least(dstPart, srcPart)
    BY DEF Stretches
  <2> HIDE DEF dstPart, srcPart
  <2>4. stretch \in {dstPart, srcPart} /\ stretch <= dstPart /\ stretch <= srcPart
    BY <2>1, <2>2, <2>3, LeastOfTwo
  <2> HIDE DEF stretch
  <2>5. stretch \in Nat
    BY <2>1, <2>2, <2>4
  <2>6. /\ dstObject # NoObject => Dst + stretch <= End(dstObject)
        /\ srcObject # NoObject => Src + stretch <= End(srcObject)
    BY <1>3, <1>4, <2>1, <2>2, <2>4, <2>5
  <2> QED BY <2>1, <2>2, <2>4, <2>5, <2>6
<1>8. n \in 0 .. Left /\ n <= stretch /\ n \in {stretch, Left}
  <2> HIDE DEF stretch
  <2> QED BY <1>3, <1>7, LeastOfTwo
<1>9. /\ offset' = offset + n
      /\ n = 0 => UNCHANGED <<mem, pc, job>>
      /\ n # 0 => \/ dstHost # 0 /\ srcHost # 0 /\ HostToHost(n)
                  \/ dstHost # 0 /\ srcHost = 0 /\ ObjectToHost(n)
                  \/ dstHost = 0 /\ srcHost # 0 /\ HostToObject(n)
                  \/ dstHost = 0 /\ srcHost = 0 /\ ObjectToObject(n)
  BY DEF CopyStretch
<1>10. CASE n = 0
  <2>1. offset' = offset
    BY <1>3, <1>9, <1>10
  <2> QED BY <1>1, <1>2, <1>9, <1>10, <2>1 DEF vars, bufferVars
<1>11. CASE n # 0
  <2> HIDE DEF dstHost, srcHost, stretch, n
  <2>1. n \in 1 .. Left
    BY <1>3, <1>8, <1>11
  <2>2. ToBorder(n)
    BY <1>3, <1>4, <1>7, <1>8 DEF ToBorder
  <2>3. Copies(n)
    BY <1>5, <1>6, <1>9, <1>11, <2>2 DEF Copies, ToBorder
  <2> QED BY <1>1, <1>2, <1>9, <2>1, <2>2, <2>3
<1> QED BY <1>10, <1>11

(* A step inside a call that leaves the loop of Manager alone.               *)
LEMMA WithinCall ==
    ASSUME LoopInv, UNCHANGED <<req, managerVars>>, active' \in Buffers,
           pc \in CopyPlaces \cup {"memcpy", "fast"}, pc' \in CopyPlaces \cup {"memcpy", "fast"}
    PROVE  LoopInv'
BY DEF LoopInv, Types, RequestRight, AtBorder, Dst, Src, managerVars, CopyPlaces

LEMMA LoopInvInit == Init => LoopInv
BY DEF Init, LoopInv, Types, RequestRight, Buffers, NoRequest, Contract!NoRequest

LEMMA FindObjectType ==
    ASSUME NEW a \in Nat, NEW n \in Nat
    PROVE  FindObject(a, n) \in Objects \cup {NoObject}
BY FindObjectFinds

LEMMA BeginKeepsLoop ==
    ASSUME LoopInv, NEW r \in Requests, Memcpy(r) \/ Memset(r)
    PROVE  LoopInv'
<1>1. /\ r # NoRequest /\ r.dst \in Nat /\ r.src \in Nat /\ r.size \in Nat
  BY RequestsAssumption DEF NoRequest, Contract!NoRequest
<1>2. active' = active /\ req' = r /\ offset' = 0
  BY DEF Memcpy, Memset, bufferVars
<1>3. CASE Memcpy(r)
  <2>1. /\ pc' = "memcpy" /\ r.call = "memcpy"
        /\ dstObject' = FindObject(r.dst, r.size) /\ srcObject' = FindObject(r.src, r.size)
    BY <1>3 DEF Memcpy
  <2>2. {dstObject', srcObject'} \subseteq Objects \cup {NoObject}
    BY <1>1, <2>1, FindObjectType
  <2>3. Types'
    BY <1>2, <2>1, <2>2 DEF LoopInv, Types
  <2>4. Dst' = r.dst /\ Src' = r.src
    BY <1>1, <1>2 DEF Dst, Src
  <2>5. /\ dstObject' # NoObject => Dst' <= End(dstObject')
        /\ srcObject' # NoObject => Src' <= End(srcObject')
    <3>1. \A o \in Objects : End(o) \in Nat
      BY ObjectFacts
    <3> QED BY <1>1, <2>1, <2>4, <3>1, FindObjectFinds
  <2>6. RequestRight'
    BY <1>1, <1>2, <2>1, <2>5 DEF RequestRight
  <2> QED BY <2>3, <2>6 DEF LoopInv
<1>4. CASE Memset(r)
  <2>1. /\ pc' = "memset" /\ r.call = "memset"
        /\ dstObject' = FindObject(r.dst, 0) /\ srcObject' = NoObject
    BY <1>4 DEF Memset
  <2>2. /\ dstObject' \in Objects \cup {NoObject}
        /\ dstObject' = NoObject \/ r.dst < End(dstObject')
    BY <1>1, <2>1, FindObjectFinds
  <2>3. Types'
    BY <1>2, <2>1, <2>2 DEF LoopInv, Types
  <2>4. Dst' = r.dst
    BY <1>1, <1>2 DEF Dst
  <2>5. RequestRight'
    BY <1>1, <1>2, <2>1, <2>2, <2>4 DEF RequestRight
  <2> QED BY <2>3, <2>5 DEF LoopInv
<1> QED BY <1>3, <1>4

LEMMA UnchangedKeepsLoop ==
    ASSUME LoopInv, UNCHANGED <<req, pc, managerVars, active>>
    PROVE  LoopInv'
BY DEF LoopInv, Types, RequestRight, AtBorder, managerVars, Left, Dst, Src

LEMMA CopyStretchKeepsLoop ==
    ASSUME LoopInv, CopyStretch
    PROVE  LoopInv'
<1>1. CASE UNCHANGED vars
  BY <1>1, UnchangedKeepsLoop DEF vars, managerVars
<1>2. ASSUME NEW n \in 1 .. Left, offset' = offset + n, Copies(n), ToBorder(n)
      PROVE  LoopInv'
  <2>1. /\ UNCHANGED <<req, bufferVars, dstObject, srcObject>> /\ pc = "memcpy"
    BY StretchRight
  <2>2. pc' \in {"memcpy", "toObject", "fromObject", "objectToObject", "fast"}
    BY <1>2, <2>1 DEF Copies, HostToHost, HostToObject, ObjectToHost, ObjectToObject
  <2>3. /\ req.size \in Nat /\ offset \in Nat /\ Left = req.size - offset
        /\ req.dst \in Nat /\ req.src \in Nat /\ Dst = req.dst + offset /\ Src = req.src + offset
    BY <2>1, RequestFacts
  <2>4. n \in Nat /\ n <= Left
    BY <2>3
  <2>5. offset' \in Nat /\ offset' <= req.size
    BY <1>2, <2>3, <2>4
  <2>6. Dst' = Dst + n /\ Src' = Src + n
    BY <1>2, <2>1, <2>3, <2>4 DEF Dst, Src
  <2>7. /\ dstObject # NoObject => Dst' <= End(dstObject)
        /\ srcObject # NoObject => Src' <= End(srcObject)
    BY <1>2, <2>6 DEF ToBorder
  <2>8. offset' = req.size \/ AtBorder'
    <3>1. CASE n = Left
      BY <1>2, <2>3, <3>1
    <3>2. CASE n # Left
      BY <1>2, <2>1, <2>6, <3>2 DEF ToBorder, AtBorder
    <3> QED BY <3>1, <3>2
  <2>9. Types'
    BY <2>1, <2>2, <2>5 DEF LoopInv, Types, CopyPlaces, bufferVars
  <2>10. RequestRight'
    <3>1. req' = req /\ dstObject' = dstObject /\ srcObject' = srcObject
      BY <2>1
    <3>2. req # NoRequest /\ req.call = "memcpy"
      BY <2>1 DEF LoopInv, RequestRight
    <3> QED BY <2>2, <2>5, <2>7, <2>8, <3>1, <3>2 DEF RequestRight
  <2> QED BY <2>9, <2>10 DEF LoopInv
<1> QED BY <1>1, <1>2, StretchRight

\* One iteration of memset deals with n bytes.
SetRight(n) ==
    /\ offset' = offset + n
    /\ mem' = [a \in Cells |-> IF a \in Contract!Bytes(Dst, n) THEN Contract!Fresh ELSE mem[a]]
    /\ dstObject' = IF n < Left THEN FindObject(Dst + n, 0) ELSE dstObject

LEMMA SetStretchRight ==
    ASSUME LoopInv, SetStretch
    PROVE  \E n \in 1 .. Left : SetRight(n)
<1> DEFINE n == IF dstObject = NoObject THEN Left ELSE Least(Left, End(dstObject) - Dst)
<1>1. pc = "memset" /\ Left > 0
  BY DEF SetStretch
<1>2. Left \in Nat \ {0} /\ Dst \in Nat
  BY <1>1, RequestFacts
<1>3. n \in 1 .. Left
  <2>1. CASE dstObject = NoObject
    BY <1>2, <2>1
  <2>2. CASE dstObject # NoObject
    <3>1. End(dstObject) - Dst \in Nat \ {0}
      BY <1>1, <1>2, <2>2, ObjectFacts DEF LoopInv, Types, RequestRight
    <3> QED BY <1>2, <2>2, <3>1, LeastOfTwo
  <2> QED BY <2>1, <2>2
<1>4. SetRight(n)
  BY DEF SetStretch, SetRight
<1> HIDE DEF n
<1> QED BY <1>3, <1>4

LEMMA SetStretchKeepsLoop ==
    ASSUME LoopInv, SetStretch
    PROVE  LoopInv'
<1>1. /\ pc = "memset" /\ UNCHANGED <<req, pc, srcObject, active>>
  BY DEF SetStretch, bufferVars
<1>2. PICK n \in 1 .. Left : SetRight(n)
  BY SetStretchRight
<1>3. /\ req.size \in Nat /\ offset \in 0 .. req.size /\ Left = req.size - offset /\ Dst \in Nat
      /\ Dst = req.dst + offset /\ req.dst \in Nat
  BY <1>1, RequestFacts
<1>4. /\ offset' \in Nat /\ offset' <= req.size
      /\ Left' = Left - n /\ Dst' = Dst + n
  BY <1>1, <1>2, <1>3 DEF SetRight, Left, Dst
<1>5. /\ dstObject' \in Objects \cup {NoObject}
      /\ Left' > 0 => dstObject' = NoObject \/ Dst' < End(dstObject')
  <2>1. CASE n < Left
    <3>1. dstObject' = FindObject(Dst + n, 0)
      BY <1>2, <2>1 DEF SetRight
    <3> QED BY <1>3, <1>4, <3>1, FindObjectFinds
  <2>2. CASE ~(n < Left)
    <3>1. dstObject' = dstObject
      BY <1>2, <2>2 DEF SetRight
    <3> QED BY <1>3, <1>4, <2>2, <3>1 DEF LoopInv, Types
  <2> QED BY <2>1, <2>2
<1> QED BY <1>1, <1>4, <1>5 DEF LoopInv, Types, RequestRight

LEMMA ReturnKeepsLoop ==
    ASSUME LoopInv, Return
    PROVE  LoopInv'
BY DEF LoopInv, Types, RequestRight, Return, bufferVars

LEMMA JobKeepsLoop ==
    ASSUME LoopInv, ToObject \/ FromObject \/ BetweenObjects
    PROVE  LoopInv'
<1>1. passive \in Buffers /\ "x" \in Buffers /\ active \in Buffers
  BY PassiveBuffer DEF LoopInv, Types, Buffers
<1>2. CASE ToObject
  <2>1. /\ UNCHANGED <<req, managerVars>> /\ active' \in Buffers
        /\ pc \in CopyPlaces \cup {"memcpy", "fast"} /\ pc' \in CopyPlaces \cup {"memcpy", "fast"}
    BY <1>1, <1>2 DEF ToObject, FillFirst, Send, Refill, Drain, EndJob, Goto, Swap, CopyPlaces
  <2> QED BY <2>1, WithinCall
<1>3. CASE FromObject
  <2>1. /\ UNCHANGED <<req, managerVars>> /\ active' \in Buffers
        /\ pc \in CopyPlaces \cup {"memcpy", "fast"} /\ pc' \in CopyPlaces \cup {"memcpy", "fast"}
    BY <1>1, <1>3 DEF FromObject, FetchFirst, Fetch, Store, EndJob, Goto, Swap, CopyPlaces
  <2> QED BY <2>1, WithinCall
<1>4. CASE BetweenObjects
  <2>1. /\ UNCHANGED <<req, managerVars>> /\ active' \in Buffers
        /\ pc \in CopyPlaces \cup {"memcpy", "fast"} /\ pc' \in CopyPlaces \cup {"memcpy", "fast"}
    <3>1. CASE Load \/ LoadRest
      BY <1>1, <3>1 DEF Load, LoadRest, LoadFirst, LoadSecond, Goto, CopyPlaces
    <3>2. CASE Reload \/ ReloadRest
      BY <1>1, <3>2 DEF Reload, ReloadRest, LoadFirst, LoadSecond, Goto, Swap, CopyPlaces
    <3>3. CASE Forward
      BY <1>1, <3>3 DEF Forward, Goto, CopyPlaces
    <3>4. CASE FastCopy \/ FastReturns
      BY <1>1, <3>4 DEF FastCopy, FastReturns, Goto, bufferVars
    <3> QED BY <1>4, <3>1, <3>2, <3>3, <3>4 DEF BetweenObjects
  <2> QED BY <2>1, WithinCall
<1> QED BY <1>2, <1>3, <1>4

LEMMA LoopInvStep == LoopInv /\ [Next]_vars => LoopInv'
<1> SUFFICES ASSUME LoopInv, [Next]_vars
             PROVE  LoopInv'
  OBVIOUS
<1>1. CASE Begins
  BY <1>1, BeginKeepsLoop DEF Begins
<1>2. CASE Manages
  BY <1>2, CopyStretchKeepsLoop, SetStretchKeepsLoop, ReturnKeepsLoop DEF Manages
<1>3. CASE ToObject \/ FromObject \/ BetweenObjects
  BY <1>3, JobKeepsLoop
<1>4. ASSUME NEW b \in Buffers, Transfer(b)
      PROVE  LoopInv'
  BY <1>4, UnchangedKeepsLoop DEF Transfer
<1>5. CASE UNCHANGED vars
  BY <1>5, UnchangedKeepsLoop DEF vars, managerVars
<1> QED BY <1>1, <1>2, <1>3, <1>4, <1>5 DEF Next, Works

-------------------------------------------------------------------------------
(* The bytes that are copied.                                                *)

\* The fast path between blocks of one accelerator is taken only where its walk
\* over the blocks of source and destination stays in step.
AlignedRequests == \A r \in Requests : r.call = "memcpy" /\ r.fast => StartsInStep(r)

\* Where it takes bytes from the source object, a block at a time.
LoadPlaces == {"objectToObject", "secondFetch", "forward", "reload", "secondReload"}

\* Where no transfer has been asked for yet, or all have ended.
QuietPlaces ==
    {"idle", "memcpy", "memset", "toObject", "fromObject", "objectToObject", "fast"}

\* Where buffers may be on their way to the destination.
SendPlaces == {"send", "refill", "forward", "reload", "secondReload", "drain"}

DataTypes ==
    /\ mem \in [Cells -> Cells \cup {Contract!Fresh}]
    /\ job \in [dst : Nat, src : Nat, left : Nat, chunk : Nat, bufSize : 0 .. BlockSize,
                i : 0 .. Top + 1, j : 0 .. Top + 1]
    /\ buffer \in [Buffers -> [0 .. BlockSize - 1 -> Cells]]
    /\ flight \in [Buffers -> [way : {"none", "fromObject", "toObject"}, cell : 0 .. Top,
                               slot : 0 .. BlockSize - 1, size : 0 .. BlockSize]]

\* Where address a lies in its block.
InBlockOffset(o, a) == (a - o.start) % BlockSize

\* The fast path: the blocks it has walked to are those of its addresses.
InStep ==
    /\ req.fast
    /\ req.dst <= job.dst /\ job.src + req.dst = job.dst + req.src
    /\ job.dst + job.left = req.dst + offset
    /\ job.chunk = 0
    /\ dstObject # NoObject /\ dstObject.start <= job.dst
    /\ srcObject # NoObject /\ srcObject.start <= job.src
    /\ job.left > 0 =>
          /\ job.j = BlockOf(dstObject, job.dst) /\ job.i = BlockOf(srcObject, job.src)
          /\ InBlockOffset(dstObject, job.dst) <= InBlockOffset(srcObject, job.src)

\* A copy goes through destination and source alike, up to where the loop of
\* Manager goes on.
JobRight ==
    IF pc \in CopyPlaces
    THEN /\ req.dst <= job.dst /\ job.src + req.dst = job.dst + req.src
         /\ job.dst + job.left = req.dst + offset
         /\ job.chunk <= job.left /\ job.chunk <= job.bufSize
         /\ IF pc = "drain" THEN job.left = 0 ELSE job.chunk > 0
         /\ pc \in LoadPlaces => srcObject # NoObject /\ srcObject.start <= job.src
         /\ pc \in {"secondFetch", "secondReload"} => FirstPart < job.chunk
    ELSE IF pc = "fast" THEN InStep ELSE job = NoJob

\* The end of what has been handed to transfers, or stored.
Issued ==
    IF pc = "refill" THEN job.dst + job.chunk
    ELSE IF pc \in CopyPlaces \cup {"fast"} THEN job.dst ELSE req.dst + offset

\* What is on its way to an object is what belongs there.
Outgoing(b) ==
    LET f == flight[b]
    IN  /\ f.way = "toObject" /\ f.slot = 0 /\ f.size > 0
        /\ req.dst <= f.cell /\ f.cell + f.size <= Issued
        /\ \A k \in 0 .. f.size - 1 : buffer[b][k] + req.dst = f.cell + k + req.src

\* What is on its way from an object comes from the source.
Incoming(b) ==
    LET f == flight[b]
    IN  /\ f.way = "fromObject" /\ f.size > 0 /\ f.slot + f.size <= BlockSize
        /\ req.src <= f.cell /\ f.cell + f.size <= req.src + req.size

\* A transfer is to fill slot k of buffer b.
Arrives(b, k) ==
    flight[b].way = "fromObject" /\ k \in flight[b].slot .. flight[b].slot + flight[b].size - 1

\* The first n bytes of buffer b are those at address s, or on their way.
Loading(b, s, n) ==
    /\ Waited(b) \/ (Incoming(b) /\ flight[b].cell = s + flight[b].slot)
    /\ \A k \in 0 .. n - 1 : buffer[b][k] = s + k \/ Arrives(b, k)

\* The buffers that get bytes of the source, and which.
Loads(b) ==
    IF b = active THEN pc \in {"send", "fetch", "store", "secondFetch", "forward"}
    ELSE pc = "secondReload" \/ (pc = "store" /\ job.left > job.chunk)

LoadFrom(b) == IF b = active \/ pc = "secondReload" THEN job.src ELSE job.src + job.chunk

LoadSize(b) ==
    IF pc \in {"secondFetch", "secondReload"} THEN FirstPart
    ELSE IF b = active THEN job.chunk ELSE NextChunk

BufferRight(b) ==
    IF Loads(b)
    THEN \E s, n \in Nat : s = LoadFrom(b) /\ n = LoadSize(b) /\ Loading(b, s, n)
    ELSE Waited(b) \/ (pc \in SendPlaces /\ Outgoing(b))

BuffersRight == \A b \in Buffers : BufferRight(b)

\* Transfers to objects write apart from one another.
FlightsApart ==
    \A b, c \in Buffers :
        b # c /\ flight[b].way = "toObject" /\ flight[c].way = "toObject" =>
          \/ flight[b].cell + flight[b].size <= flight[c].cell
          \/ flight[c].cell + flight[c].size <= flight[b].cell

\* A transfer is to write the byte at a.
Carried(a) ==
    \E b \in Buffers : /\ flight[b].way = "toObject"
                       /\ a \in Contract!Bytes(flight[b].cell, flight[b].size)

\* A byte of the destination that has been issued has its value, or gets it from
\* a transfer under way; no other byte has changed.
MemoryRight ==
    IF pc = "idle" THEN mem = Contract!Named
    ELSE \A a \in Cells :
           /\ mem[a] = a \/ mem[a] = Contract!Result(req)[a]
           /\ a \in req.dst .. Issued - 1 => mem[a] = Contract!Result(req)[a] \/ Carried(a)

DataInv == DataTypes /\ JobRight /\ BuffersRight /\ FlightsApart /\ MemoryRight

CopyInv == LoopInv /\ DataInv

LEMMA BlockSizeFacts == BlockSize \in Nat \ {0} /\ Top \in Nat /\ Cells = 0 .. Top
BY BlockSizeAssumption, TopAssumption DEF Cells, Contract!Cells

(* A part of a block has at least a byte and no more than the object has.    *)
LEMMA BlockEndFacts ==
    ASSUME NEW o \in Objects, NEW a \in Nat, o.start <= a, a < End(o)
    PROVE  BlockEnd(o, a) \in 1 .. BlockSize /\ a + BlockEnd(o, a) <= End(o)
<1> DEFINE m == (a - o.start) % BlockSize
<1>1. a - o.start \in Nat /\ o.size - (a - o.start) \in Nat \ {0} /\ o.start \in Nat /\ o.size \in Nat
  BY ObjectFacts DEF End
<1>2. m \in 0 .. BlockSize - 1
  BY <1>1, BlockSizeFacts
<1>3. BlockEnd(o, a) = Least(o.size - (a - o.start), BlockSize - m)
  BY DEF BlockEnd
<1> HIDE DEF m
<1>4. BlockSize \in Nat \ {0} /\ BlockSize - m \in 1 .. BlockSize
  BY <1>2, BlockSizeFacts
<1>5. /\ BlockEnd(o, a) \in {o.size - (a - o.start), BlockSize - m}
      /\ BlockEnd(o, a) <= o.size - (a - o.start) /\ BlockEnd(o, a) <= BlockSize - m
  BY <1>1, <1>3, <1>4, LeastOfTwo
<1> QED BY <1>1, <1>4, <1>5 DEF End

(* The numbers of a copy.                                                    *)
LEMMA JobFacts ==
    ASSUME LoopInv, DataTypes, JobRight, pc \in CopyPlaces
    PROVE  /\ job.dst \in Nat /\ job.src \in Nat /\ job.left \in Nat /\ job.chunk \in Nat
           /\ job.bufSize \in Nat /\ job.bufSize <= BlockSize /\ job.chunk <= BlockSize
           /\ req.dst <= job.dst /\ req.src <= job.src /\ job.src = req.src + (job.dst - req.dst)
           /\ job.dst + job.left = req.dst + offset
           /\ job.dst + job.left <= req.dst + req.size
           /\ job.src + job.left <= req.src + req.size
           /\ job.chunk <= job.left /\ job.chunk <= job.bufSize
           /\ pc # "drain" => job.chunk > 0
           /\ pc = "drain" => job.left = 0
           /\ req.dst \in Nat /\ req.src \in Nat /\ req.size \in Nat /\ offset \in 0 .. req.size
           /\ req.dst + req.size <= Top + 1 /\ req.src + req.size <= Top + 1
           /\ req.dst + req.size <= req.src \/ req.src + req.size <= req.dst
           /\ req.call = "memcpy" /\ req \in Requests
           /\ pc \notin {"idle", "memset", "memcpy", "fast"}
<1>1. /\ pc \notin {"idle", "memset", "memcpy", "fast"} /\ req.call = "memcpy"
  BY DEF CopyPlaces, LoopInv, RequestRight
<1>2. /\ job.dst \in Nat /\ job.src \in Nat /\ job.left \in Nat /\ job.chunk \in Nat
      /\ job.bufSize \in 0 .. BlockSize
  BY DEF DataTypes
<1>3. /\ req.dst <= job.dst /\ job.src + req.dst = job.dst + req.src
      /\ job.dst + job.left = req.dst + offset
      /\ job.chunk <= job.left /\ job.chunk <= job.bufSize
      /\ pc # "drain" => job.chunk > 0
      /\ pc = "drain" => job.left = 0
  BY DEF JobRight
<1>4. /\ req.dst \in Nat /\ req.src \in Nat /\ req.size \in Nat /\ offset \in 0 .. req.size
      /\ req.dst + req.size <= Top + 1 /\ req.src + req.size <= Top + 1
      /\ req.dst + req.size <= req.src \/ req.src + req.size <= req.dst
      /\ req \in Requests
  BY <1>1, RequestFacts
<1>5. BlockSize \in Nat /\ Top \in Nat
  BY BlockSizeFacts
<1> QED BY <1>1, <1>2, <1>3, <1>4, <1>5

LEMMA NextChunkFacts ==
    ASSUME LoopInv, DataTypes, JobRight, pc \in CopyPlaces
    PROVE  /\ NextChunk \in 0 .. BlockSize
           /\ NextChunk <= job.left - job.chunk /\ NextChunk <= job.bufSize
           /\ job.left = job.chunk => NextChunk = 0
           /\ job.chunk > 0 /\ job.left > job.chunk => NextChunk > 0
<1>1. /\ job.left - job.chunk \in Nat /\ job.left \in Nat /\ job.chunk \in Nat
      /\ job.bufSize \in Nat /\ job.bufSize <= BlockSize /\ job.chunk <= job.bufSize
      /\ BlockSize \in Nat
  <2>1. /\ job.left \in Nat /\ job.chunk \in Nat /\ job.chunk <= job.left
        /\ job.bufSize \in Nat /\ job.bufSize <= BlockSize /\ job.chunk <= job.bufSize
    BY JobFacts
  <2>2. job.left - job.chunk \in Nat
    BY <2>1
  <2> QED BY <2>1, <2>2, BlockSizeFacts
<1>2. /\ NextChunk \in {job.left - job.chunk, job.bufSize}
      /\ NextChunk <= job.left - job.chunk /\ NextChunk <= job.bufSize
  BY <1>1, LeastOfTwo DEF NextChunk
<1> QED BY <1>1, <1>2

(* The copy goes on with the next chunk.                                     *)
LEMMA AdvancedFields ==
    ASSUME LoopInv, DataTypes, JobRight, pc \in CopyPlaces, job' = Advanced
    PROVE  /\ job' \in [dst : Nat, src : Nat, left : Nat, chunk : Nat,
                        bufSize : 0 .. BlockSize, i : 0 .. Top + 1, j : 0 .. Top + 1]
           /\ job'.dst = job.dst + job.chunk /\ job'.src = job.src + job.chunk
           /\ job'.left = job.left - job.chunk /\ job'.chunk = NextChunk
           /\ job'.bufSize = job.bufSize
<1>1. job \in [dst : Nat, src : Nat, left : Nat, chunk : Nat, bufSize : 0 .. BlockSize,
               i : 0 .. Top + 1, j : 0 .. Top + 1]
  BY DEF DataTypes
<1>2. job.left - job.chunk \in Nat /\ NextChunk \in Nat
  BY JobFacts, NextChunkFacts
<1>3. job' = [job EXCEPT !.dst = job.dst + job.chunk, !.src = job.src + job.chunk,
                         !.left = job.left - job.chunk, !.chunk = NextChunk]
  BY DEF Advanced
<1>4. job.dst + job.chunk \in Nat /\ job.src + job.chunk \in Nat
  BY JobFacts
<1> QED BY <1>1, <1>2, <1>3, <1>4

(* The first part of a chunk between objects.                                *)
LEMMA FirstPartFacts ==
    ASSUME LoopInv, DataTypes, JobRight, pc \in LoadPlaces
    PROVE  FirstPart \in 1 .. job.chunk /\ pc \in CopyPlaces
<1>1. pc \in CopyPlaces /\ pc # "drain" /\ pc \notin {"idle", "memset"}
  BY DEF LoadPlaces, CopyPlaces
<1>2. srcObject # NoObject /\ srcObject.start <= job.src
  BY <1>1 DEF JobRight
<1>3. srcObject \in Objects /\ job.src < End(srcObject)
  <2>1. srcObject \in Objects /\ End(srcObject) \in Nat /\ Src <= End(srcObject)
    BY <1>1, <1>2, ObjectsHeld
  <2>2. job.src \in Nat /\ job.left \in Nat \ {0} /\ job.src + job.left = Src
    BY <1>1, JobFacts DEF Src
  <2> QED BY <2>1, <2>2
<1>4. BlockEnd(srcObject, job.src) \in 1 .. BlockSize
  BY <1>1, <1>2, <1>3, BlockEndFacts, JobFacts
<1>5. job.chunk \in Nat \ {0} /\ BlockSize \in Nat
  BY <1>1, JobFacts, BlockSizeFacts
<1>6. /\ FirstPart \in {job.chunk, BlockEnd(srcObject, job.src)} /\ FirstPart <= job.chunk
  BY <1>4, <1>5, LeastOfTwo DEF FirstPart
<1> QED BY <1>1, <1>4, <1>5, <1>6

LEMMA IssuedFacts ==
    ASSUME LoopInv, DataTypes, JobRight, pc # "idle"
    PROVE  /\ Issued \in Nat /\ req.dst <= Issued /\ Issued <= req.dst + offset
           /\ pc \in CopyPlaces /\ pc # "refill" => Issued = job.dst
           /\ pc = "refill" => Issued = job.dst + job.chunk
           /\ pc = "fast" => Issued = job.dst
           /\ pc \notin CopyPlaces \cup {"fast"} => Issued = req.dst + offset
<1>1. CASE pc \in CopyPlaces
  BY <1>1, JobFacts DEF Issued, CopyPlaces
<1>2. CASE pc = "fast"
  BY <1>2, RequestFacts DEF Issued, DataTypes, JobRight, InStep, CopyPlaces
<1>3. CASE pc \notin CopyPlaces \cup {"fast"}
  <2>1. pc # "refill"
    BY <1>3 DEF CopyPlaces
  <2> QED BY <1>3, <2>1, RequestFacts DEF Issued
<1> QED BY <1>1, <1>2, <1>3

-------------------------------------------------------------------------------
(* What a step keeps.                                                        *)

LEMMA LoadingKept ==
    ASSUME NEW b \in Buffers, NEW s \in Nat, NEW n \in Nat, Loading(b, s, n),
           buffer'[b] = buffer[b], flight'[b] = flight[b], req' = req
    PROVE  Loading(b, s, n)'
BY DEF Loading, Waited, Incoming, Arrives

LEMMA OutgoingKept ==
    ASSUME NEW b \in Buffers, Outgoing(b), DataTypes, req.dst \in Nat,
           buffer'[b] = buffer[b], flight'[b] = flight[b], req' = req,
           Issued \in Nat, Issued' \in Nat, Issued <= Issued'
    PROVE  Outgoing(b)'
<1>1. flight[b].cell \in Nat /\ flight[b].size \in Nat
  BY DEF DataTypes
<1> QED BY <1>1 DEF Outgoing

(* A buffer that loads what it loaded, from where it did.                    *)
LEMMA LoadsStill ==
    ASSUME NEW b \in Buffers, Loads(b), BufferRight(b), Loads(b)',
           buffer'[b] = buffer[b], flight'[b] = flight[b], req' = req,
           LoadFrom(b)' = LoadFrom(b), LoadSize(b)' = LoadSize(b)
    PROVE  BufferRight(b)'
<1>1. PICK s \in Nat : \E n \in Nat : s = LoadFrom(b) /\ n = LoadSize(b) /\ Loading(b, s, n)
  BY DEF BufferRight
<1>2. PICK n \in Nat : s = LoadFrom(b) /\ n = LoadSize(b) /\ Loading(b, s, n)
  BY <1>1
<1>3. Loading(b, s, n)'
  BY <1>2, LoadingKept
<1> QED BY <1>2, <1>3 DEF BufferRight

(* A buffer that loads nothing.                                              *)
LEMMA IdleStill ==
    ASSUME NEW b \in Buffers, ~Loads(b), BufferRight(b), DataTypes, req.dst \in Nat, ~Loads(b)',
           buffer'[b] = buffer[b], flight'[b] = flight[b], req' = req,
           Issued \in Nat, Issued' \in Nat, Issued <= Issued',
           Waited(b) \/ pc' \in SendPlaces
    PROVE  BufferRight(b)'
<1>1. CASE Waited(b)
  BY <1>1 DEF BufferRight, Waited
<1>2. CASE ~Waited(b)
  <2>1. Outgoing(b)
    BY <1>2 DEF BufferRight
  <2>2. Outgoing(b)'
    BY <2>1, OutgoingKept
  <2> QED BY <1>2, <2>2 DEF BufferRight
<1> QED BY <1>1, <1>2

(* A buffer nothing is asked of.                                             *)
LEMMA QuietBuffer ==
    ASSUME NEW b \in Buffers, flight'[b] = NoTransfer, ~Loads(b)'
    PROVE  BufferRight(b)'
BY DEF BufferRight, Waited

(* A transfer begins.                                                        *)
LEMMA StartFacts ==
    ASSUME DataTypes, NEW b \in Buffers, NEW way \in {"fromObject", "toObject"},
           NEW cell \in 0 .. Top, NEW slot \in 0 .. BlockSize - 1, NEW n \in 0 .. BlockSize,
           StartTransfer(b, way, cell, slot, n)
    PROVE  /\ flight' \in [Buffers -> [way : {"none", "fromObject", "toObject"}, cell : 0 .. Top,
                                       slot : 0 .. BlockSize - 1, size : 0 .. BlockSize]]
           /\ flight'[b].way = way /\ flight'[b].cell = cell
           /\ flight'[b].slot = slot /\ flight'[b].size = n
           /\ flight[b] = NoTransfer /\ flight[b].way = "none"
           /\ \A c \in Buffers : c # b => flight'[c] = flight[c]
           /\ \A a : Carried(a) => Carried(a)'
           /\ way = "fromObject" /\ FlightsApart => FlightsApart'
<1>1. /\ flight \in [Buffers -> [way : {"none", "fromObject", "toObject"}, cell : 0 .. Top,
                                 slot : 0 .. BlockSize - 1, size : 0 .. BlockSize]]
      /\ flight' = [flight EXCEPT ![b] = [way |-> way, cell |-> cell, slot |-> slot, size |-> n]]
      /\ flight[b] = NoTransfer
  BY DEF DataTypes, StartTransfer, Waited
<1>2. [way |-> way, cell |-> cell, slot |-> slot, size |-> n]
        \in [way : {"none", "fromObject", "toObject"}, cell : 0 .. Top,
             slot : 0 .. BlockSize - 1, size : 0 .. BlockSize]
  OBVIOUS
<1>3. /\ flight' \in [Buffers -> [way : {"none", "fromObject", "toObject"}, cell : 0 .. Top,
                                  slot : 0 .. BlockSize - 1, size : 0 .. BlockSize]]
      /\ flight'[b].way = way /\ flight'[b].cell = cell
      /\ flight'[b].slot = slot /\ flight'[b].size = n
      /\ flight[b].way = "none"
      /\ \A c \in Buffers : c # b => flight'[c] = flight[c]
  BY <1>1, <1>2 DEF NoTransfer
<1>4. \A a : Carried(a) => Carried(a)'
  BY <1>3 DEF Carried
<1>5. way = "fromObject" /\ FlightsApart => FlightsApart'
  BY <1>3 DEF FlightsApart
<1> QED BY <1>1, <1>3, <1>4, <1>5

LEMMA SameFlights ==
    ASSUME flight' = flight
    PROVE  /\ \A a : Carried(a) => Carried(a)'
           /\ FlightsApart => FlightsApart'
BY DEF Carried, FlightsApart

(* Memory is right after a step that moves bytes to where they belong.       *)
LEMMA MemoryKept ==
    ASSUME MemoryRight, pc # "idle", pc' # "idle", req' = req, Issued \in Nat,
           \A a \in Cells : mem'[a] = mem[a] \/ mem'[a] = Contract!Result(req)[a],
           \A a \in Cells : Carried(a) => Carried(a)' \/ mem'[a] = Contract!Result(req)[a],
           \A a \in Cells : a \in req.dst .. Issued' - 1 /\ a \notin req.dst .. Issued - 1 =>
                                Carried(a)' \/ mem'[a] = Contract!Result(req)[a]
    PROVE  MemoryRight'
<1> SUFFICES ASSUME NEW a \in Cells
             PROVE  /\ mem'[a] = a \/ mem'[a] = Contract!Result(req)[a]
                    /\ a \in req.dst .. Issued' - 1 =>
                         mem'[a] = Contract!Result(req)[a] \/ Carried(a)'
  BY DEF MemoryRight, Contract!Result, Cells, Contract!Fresh
<1>1. /\ mem[a] = a \/ mem[a] = Contract!Result(req)[a]
      /\ a \in req.dst .. Issued - 1 => mem[a] = Contract!Result(req)[a] \/ Carried(a)
  BY DEF MemoryRight
<1> QED BY <1>1

(* A step that leaves memory alone.                                          *)
LEMMA MemoryStill ==
    ASSUME MemoryRight, pc # "idle", pc' # "idle", req' = req, mem' = mem, Issued \in Nat,
           \A a : Carried(a) => Carried(a)',
           \A a \in Cells : a \in req.dst .. Issued' - 1 /\ a \notin req.dst .. Issued - 1 => Carried(a)'
    PROVE  MemoryRight'
BY MemoryKept

(* Before a call has moved a byte, and outside its destination, memory is as *)
(* it was.                                                                   *)
LEMMA SourceUntouched ==
    ASSUME CopyInv, pc \in CopyPlaces \cup {"memcpy", "fast"}, NEW a \in Nat,
           req.src <= a, a < req.src + req.size
    PROVE  a \in Cells /\ mem[a] = a
<1>1. /\ req.src \in Nat /\ req.size \in Nat /\ req.dst \in Nat
      /\ req.src + req.size <= Top + 1
      /\ req.dst + req.size <= req.src \/ req.src + req.size <= req.dst
      /\ pc # "idle"
  BY RequestFacts DEF CopyInv, LoopInv, RequestRight, CopyPlaces
<1>2. a \in Cells
  BY <1>1, BlockSizeFacts
<1>3. a \notin req.dst .. req.dst + req.size - 1
  BY <1>1
<1>4. Contract!Result(req)[a] = a
  BY <1>2, <1>3 DEF Contract!Result, Contract!Bytes, Cells
<1> QED BY <1>1, <1>2, <1>4 DEF CopyInv, DataInv, MemoryRight

\* Sequence g holds, from index from on, the n bytes that belong at address at.
Belongs(g, from, at, n) ==
    \A k \in 0 .. n - 1 : g[from + k] + req.dst = at + k + req.src /\ g[from + k] \in Nat

\* The n bytes at address at get their value.
Writes(at, n) ==
    /\ mem' \in [Cells -> Cells \cup {Contract!Fresh}]
    /\ \A a \in Cells : mem'[a] = mem[a] \/ mem'[a] = Contract!Result(req)[a]
    /\ \A a \in at .. at + n - 1 : mem'[a] = Contract!Result(req)[a]
    /\ \A a \in Cells : a \notin at .. at + n - 1 => mem'[a] = mem[a]

(* Bytes of the source that are written where they belong.                   *)
LEMMA WrittenRight ==
    ASSUME CopyInv, req.call = "memcpy", pc # "idle",
           NEW g, NEW from \in Nat, NEW at \in Nat, NEW n \in Nat,
           req.dst <= at, at + n <= req.dst + req.size, Belongs(g, from, at, n),
           mem' = Moved(mem, at, g, from, n)
    PROVE  Writes(at, n)
<1>1. /\ req.src \in Nat /\ req.size \in Nat /\ req.dst \in Nat
      /\ req.src + req.size <= Top + 1 /\ req.dst + req.size <= Top + 1
  BY RequestFacts DEF CopyInv
<1>2. Top \in Nat /\ Cells = 0 .. Top
  BY BlockSizeFacts
<1>3. mem \in [0 .. Top -> Cells \cup {Contract!Fresh}]
  BY <1>2 DEF CopyInv, DataInv, DataTypes
<1>4. ASSUME NEW k \in 0 .. n - 1
      PROVE  g[from + k] \in Cells \cup {Contract!Fresh}
  <2>1. g[from + k] + req.dst = at + k + req.src /\ g[from + k] \in Nat
    BY DEF Belongs
  <2>2. at + k < req.dst + req.size
    BY <1>1
  <2>3. PICK byte \in Nat : byte = g[from + k]
    BY <2>1
  <2>4. byte < req.src + req.size
    BY <1>1, <2>1, <2>2, <2>3
  <2>5. byte \in 0 .. Top
    BY <1>1, <1>2, <2>4
  <2> QED BY <1>2, <2>3, <2>5
<1> DEFINE V == Cells \cup {Contract!Fresh}
<1>5. \A k \in 0 .. n - 1 : g[from + k] \in V
  BY <1>4
<1>6. mem \in [0 .. Top -> V]
  BY <1>3
<1>7. /\ mem' \in [Cells -> Cells \cup {Contract!Fresh}]
      /\ \A a \in Cells : mem'[a] = IF a \in at .. at + n - 1 THEN g[from + (a - at)] ELSE mem[a]
  <2>1. mem' = [x \in 0 .. Top |-> IF x \in at .. at + n - 1 THEN g[from + (x - at)] ELSE mem[x]]
    BY <1>3 DEF Moved, Contract!Bytes
  <2>2. \A x \in 0 .. Top : x \in at .. at + n - 1 => x - at \in 0 .. n - 1
    OBVIOUS
  <2> HIDE DEF V
  <2>3. \A x \in 0 .. Top : (IF x \in at .. at + n - 1 THEN g[from + (x - at)] ELSE mem[x]) \in V
    BY <1>5, <1>6, <2>2
  <2>4. mem' \in [0 .. Top -> V]
    BY <2>1, <2>3
  <2> USE DEF V
  <2> QED BY <1>2, <2>1, <2>4
<1>8. ASSUME NEW a \in at .. at + n - 1
      PROVE  a \in Cells /\ mem'[a] = Contract!Result(req)[a]
  <2>1. a \in Cells /\ a - at \in 0 .. n - 1 /\ a \in req.dst .. req.dst + req.size - 1
    <3>1. PICK end \in Nat : end = req.dst + req.size
      BY <1>1
    <3>2. a \in Nat /\ at <= a /\ a <= at + n - 1
      OBVIOUS
    <3>3. a < end /\ req.dst <= a /\ end <= Top + 1
      BY <1>1, <3>1, <3>2
    <3>4. a - at \in 0 .. n - 1
      BY <3>2
    <3>5. a \in 0 .. Top
      BY <1>2, <3>2, <3>3
    <3>6. a \in req.dst .. req.dst + req.size - 1
      BY <1>1, <3>1, <3>2, <3>3
    <3>7. a \in Cells
      BY <1>2, <3>5
    <3> QED BY <3>4, <3>6, <3>7
  <2>2. mem'[a] = g[from + (a - at)]
    BY <1>7, <2>1
  <2>3. mem'[a] + req.dst = at + (a - at) + req.src /\ mem'[a] \in Nat
    BY <2>1, <2>2 DEF Belongs
  <2>4. Contract!Result(req)[a] = req.src + (a - req.dst)
    BY <2>1 DEF Contract!Result, Contract!Bytes, Cells
  <2>5. PICK byte \in Nat : byte = mem'[a]
    BY <2>3
  <2>6. PICK place \in Nat : place = a
    BY <1>2, <2>1
  <2>7. byte = req.src + (place - req.dst)
    BY <1>1, <2>3, <2>5, <2>6
  <2> QED BY <2>1, <2>4, <2>5, <2>6, <2>7
<1> QED BY <1>7, <1>8 DEF Writes

\* The n bytes at address from are still those before the call.
Untouched(from, n) == \A k \in 0 .. n - 1 : from + k \in Cells /\ mem[from + k] = from + k

\* They are copied to slot of buffer b and behind it.
Fills(b, slot, from, n) ==
    /\ buffer' \in [Buffers -> [0 .. BlockSize - 1 -> Cells]]
    /\ \A c \in Buffers : c # b => buffer'[c] = buffer[c]
    /\ \A k \in 0 .. BlockSize - 1 :
         buffer'[b][k] = IF k \in slot .. slot + n - 1 THEN from + (k - slot) ELSE buffer[b][k]

(* A buffer is filled with bytes of the source.                              *)
LEMMA FilledRight ==
    ASSUME DataTypes, NEW b \in Buffers, NEW slot \in Nat, NEW from \in Nat, NEW n \in Nat,
           Untouched(from, n),
           buffer' = [buffer EXCEPT ![b] = Moved(@, slot, mem, from, n)]
    PROVE  Fills(b, slot, from, n)
<1>1. buffer \in [Buffers -> [0 .. BlockSize - 1 -> Cells]]
  BY DEF DataTypes
<1> DEFINE filled == [k \in 0 .. BlockSize - 1 |->
                        IF k \in slot .. slot + n - 1 THEN from + (k - slot) ELSE buffer[b][k]]
<1>2. \A k \in 0 .. BlockSize - 1 :
        k \in slot .. slot + n - 1 => /\ from + (k - slot) \in Cells
                                      /\ mem[from + (k - slot)] = from + (k - slot)
  <2>1. \A k \in 0 .. BlockSize - 1 : k \in slot .. slot + n - 1 => k - slot \in 0 .. n - 1
    BY BlockSizeFacts
  <2> QED BY <2>1 DEF Untouched
<1>3. filled \in [0 .. BlockSize - 1 -> Cells]
  BY <1>1, <1>2
<1>4. Moved(buffer[b], slot, mem, from, n) = filled
  BY <1>1, <1>2 DEF Moved, Contract!Bytes
<1>5. buffer' = [buffer EXCEPT ![b] = filled]
  BY <1>4
<1>6. /\ buffer' \in [Buffers -> [0 .. BlockSize - 1 -> Cells]]
      /\ \A c \in Buffers : c # b => buffer'[c] = buffer[c]
      /\ buffer'[b] = filled
  <2> HIDE DEF filled
  <2> QED BY <1>1, <1>3, <1>5
<1> QED BY <1>6 DEF Fills

(* In quiet places no transfer is under way.                                 *)
LEMMA QuietFlights ==
    ASSUME CopyInv, pc \in QuietPlaces, NEW b \in Buffers
    PROVE  flight[b] = NoTransfer
BY DEF CopyInv, DataInv, BuffersRight, BufferRight, Loads, QuietPlaces, SendPlaces, Waited

(* Between copies nothing is loaded.                                         *)
LEMMA QuietAfter ==
    ASSUME pc' \in {"idle", "memcpy", "memset", "toObject", "fromObject", "objectToObject", "fast"},
           \A b \in Buffers : flight'[b] = NoTransfer
    PROVE  BuffersRight'
BY QuietBuffer DEF BuffersRight, Loads

-------------------------------------------------------------------------------
(* The loops of Manager move bytes to where they belong.                     *)

LEMMA BeginKeepsData ==
    ASSUME CopyInv, NEW r \in Requests, Memcpy(r) \/ Memset(r)
    PROVE  DataInv'
<1>1. /\ pc = "idle" /\ pc' \in {"memcpy", "memset"} /\ req' = r /\ offset' = 0
      /\ UNCHANGED <<mem, job, buffer, flight, active>>
  BY DEF Memcpy, Memset, bufferVars
<1>2. /\ DataTypes /\ job = NoJob /\ FlightsApart /\ mem = Contract!Named
      /\ \A b \in Buffers : flight[b] = NoTransfer
  BY <1>1, QuietFlights DEF CopyInv, DataInv, JobRight, MemoryRight, CopyPlaces, QuietPlaces
<1>3. DataTypes'
  BY <1>1, <1>2 DEF DataTypes
<1>4. JobRight'
  BY <1>1, <1>2 DEF JobRight, CopyPlaces
<1>5. BuffersRight'
  BY <1>1, <1>2, QuietAfter
<1>6. FlightsApart'
  BY <1>1, <1>2, SameFlights
<1>7. MemoryRight'
  <2>1. r.dst \in Nat
    BY RequestsAssumption
  <2>2. Issued' = r.dst
    BY <1>1, <2>1 DEF Issued, CopyPlaces
  <2>3. \A a \in Cells : mem'[a] = a
    BY <1>1, <1>2 DEF Contract!Named, Cells
  <2> QED BY <1>1, <2>1, <2>2, <2>3 DEF MemoryRight
<1> QED BY <1>3, <1>4, <1>5, <1>6, <1>7 DEF DataInv

LEMMA StartJobFields ==
    ASSUME NEW n \in 1 .. Top + 1, NEW chunk \in 1 .. n, chunk <= BlockSize,
           StartJob(n, chunk), Dst \in Nat, Src \in Nat
    PROVE  /\ job' \in [dst : Nat, src : Nat, left : Nat, chunk : Nat,
                        bufSize : 0 .. BlockSize, i : 0 .. Top + 1, j : 0 .. Top + 1]
           /\ job'.dst = Dst /\ job'.src = Src /\ job'.left = n
           /\ job'.chunk = chunk /\ chunk <= job'.bufSize
<1>1. /\ Least(n, BlockSize) \in 0 .. BlockSize /\ chunk <= Least(n, BlockSize)
      /\ n \in Nat /\ chunk \in Nat /\ 0 \in 0 .. Top + 1
  BY BlockSizeFacts, LeastOfTwo
<1> DEFINE size == Least(n, BlockSize)
<1>2. job' = [dst |-> Dst, src |-> Src, left |-> n, chunk |-> chunk, bufSize |-> size,
              i |-> 0, j |-> 0]
  BY DEF StartJob, NoJob
<1>3. size \in 0 .. BlockSize /\ chunk <= size
  BY <1>1
<1> HIDE DEF size
<1> QED BY <1>1, <1>2, <1>3

(* An object starts to copy.                                                 *)
LEMMA StartKeepsData ==
    ASSUME CopyInv, NEW n \in 1 .. Left, NEW o \in Objects, NEW a \in Nat,
           pc = "memcpy", offset' = offset + n, UNCHANGED <<req, mem, srcObject, bufferVars>>,
           pc' \in {"toObject", "fromObject", "objectToObject"},
           pc' = "objectToObject" => srcObject # NoObject /\ srcObject.start <= Src,
           o.start <= a, a + n <= End(o), StartJob(n, Least(n, BlockEnd(o, a)))
    PROVE  DataInv'
<1> DEFINE chunk == Least(n, BlockEnd(o, a))
<1>1. /\ LoopInv /\ DataTypes /\ JobRight /\ FlightsApart /\ MemoryRight
      /\ \A b \in Buffers : flight[b] = NoTransfer
  BY QuietFlights DEF CopyInv, DataInv, QuietPlaces
<1>2. /\ req.dst \in Nat /\ req.src \in Nat /\ req.size \in Nat /\ offset \in 0 .. req.size
      /\ Left = req.size - offset /\ Dst = req.dst + offset /\ Src = req.src + offset
      /\ req.dst + req.size <= Top + 1 /\ n \in Nat /\ n > 0
  BY <1>1, RequestFacts
<1>3. BlockSize \in Nat \ {0} /\ Top \in Nat
  BY BlockSizeFacts
<1>4. BlockEnd(o, a) \in 1 .. BlockSize
  BY <1>2, ObjectFacts, BlockEndFacts
<1>5. chunk \in 1 .. n /\ chunk <= BlockSize
  BY <1>2, <1>3, <1>4, LeastOfTwo
<1>6. n \in 1 .. Top + 1 /\ Dst \in Nat /\ Src \in Nat
  BY <1>2, <1>3
<1>7. /\ job' \in [dst : Nat, src : Nat, left : Nat, chunk : Nat,
                   bufSize : 0 .. BlockSize, i : 0 .. Top + 1, j : 0 .. Top + 1]
      /\ job'.dst = Dst /\ job'.src = Src /\ job'.left = n
      /\ job'.chunk = chunk /\ chunk <= job'.bufSize
  <2>1. StartJob(n, chunk)
    OBVIOUS
  <2> HIDE DEF chunk
  <2> QED BY <1>5, <1>6, <2>1, StartJobFields
<1> HIDE DEF chunk
<1>8. DataTypes'
  BY <1>1, <1>7 DEF DataTypes, bufferVars
<1>9. JobRight'
  BY <1>2, <1>5, <1>7 DEF JobRight, CopyPlaces, LoadPlaces
<1>10. BuffersRight'
  BY <1>1, QuietAfter DEF bufferVars
<1>11. FlightsApart' /\ \A c : Carried(c) => Carried(c)'
  BY <1>1, SameFlights DEF bufferVars
<1>12. MemoryRight'
  <2>1. Issued' = Dst
    BY <1>7 DEF Issued, CopyPlaces
  <2>2. Issued = Dst /\ Issued \in Nat
    BY <1>1, <1>2, IssuedFacts DEF CopyPlaces
  <2> QED BY <1>1, <1>11, <2>1, <2>2, MemoryStill
<1> QED BY <1>8, <1>9, <1>10, <1>11, <1>12 DEF DataInv

(* Where the fast path starts, the source is not closer to the begin of its  *)
(* block than the destination.                                               *)
LEMMA StartInStep ==
    ASSUME AlignedRequests, LoopInv, pc = "memcpy", Left > 0, req.fast,
           dstObject # NoObject, dstObject.start <= Dst, Dst < End(dstObject),
           srcObject # NoObject, srcObject.start <= Src, Src < End(srcObject)
    PROVE  InBlockOffset(dstObject, Dst) <= InBlockOffset(srcObject, Src)
<1>1. /\ req \in Requests /\ req.call = "memcpy" /\ Left = req.size - offset
      /\ offset \in 0 .. req.size /\ req.size \in Nat
      /\ Dst = req.dst + offset /\ Src = req.src + offset /\ req.dst \in Nat /\ req.src \in Nat
  BY RequestFacts DEF LoopInv, RequestRight
<1>2. dstObject \in Objects /\ srcObject \in Objects
  BY DEF LoopInv, Types
<1>3. offset \in 0 .. req.size - 1
  BY <1>1
<1>4. offset = 0 \/ req.dst + offset = dstObject.start \/ req.src + offset = srcObject.start
  <2>1. End(dstObject) \in Nat /\ End(srcObject) \in Nat
    BY <1>2, ObjectFacts
  <2>2. Dst # End(dstObject) /\ Src # End(srcObject)
    BY <1>1, <2>1
  <2> QED BY <1>1, <1>3, <2>2 DEF LoopInv, RequestRight, AtBorder
<1>5. InObject(dstObject, req.dst + offset) /\ InObject(srcObject, req.src + offset)
  BY <1>1 DEF InObject
<1>6. StartsInStep(req)
  BY <1>1 DEF AlignedRequests
<1>7. (req.dst + offset - dstObject.start) % BlockSize <= (req.src + offset - srcObject.start) % BlockSize
  BY <1>2, <1>3, <1>4, <1>5, <1>6 DEF StartsInStep
<1>8. PICK a \in Int, b \in Int :
        /\ a = req.dst + offset - dstObject.start /\ a = Dst - dstObject.start
        /\ b = req.src + offset - srcObject.start /\ b = Src - srcObject.start
  <2>1. dstObject.start \in Nat /\ srcObject.start \in Nat
    BY <1>2, ObjectFacts
  <2> QED BY <1>1, <2>1
<1>9. a % BlockSize <= b % BlockSize
  BY <1>7, <1>8
<1> QED BY <1>8, <1>9 DEF InBlockOffset

(* The number of a block is that of an address.                              *)
LEMMA BlockOfFacts ==
    ASSUME NEW o \in Objects, NEW a \in Nat, o.start <= a, a < End(o)
    PROVE  /\ BlockOf(o, a) \in 0 .. Top /\ InBlockOffset(o, a) \in 0 .. BlockSize - 1
           /\ a = o.start + BlockOf(o, a) * BlockSize + InBlockOffset(o, a)
<1>1. /\ o.start \in Nat /\ o.size \in Nat /\ End(o) = o.start + o.size /\ End(o) - 1 <= Top
      /\ Top \in Nat /\ BlockSize \in Nat \ {0}
  BY ObjectsAssumption, BlockSizeFacts DEF End
<1>2. PICK x \in Nat : x = a - o.start
  BY <1>1
<1>3. x <= Top
  BY <1>1, <1>2
<1>4. /\ x \div BlockSize \in Nat /\ x % BlockSize \in 0 .. BlockSize - 1
      /\ x = BlockSize * (x \div BlockSize) + (x % BlockSize)
  BY <1>1, DivisionFacts
<1>5. x \div BlockSize <= x
  BY <1>1, <1>4, DivisionFacts
<1>6. PICK q \in Nat, m \in 0 .. BlockSize - 1 : q = x \div BlockSize /\ m = x % BlockSize
  BY <1>4
<1>7. x = q * BlockSize + m
  BY <1>1, <1>4, <1>6
<1>8. BlockOf(o, a) = q /\ InBlockOffset(o, a) = m
  BY <1>2, <1>6 DEF BlockOf, InBlockOffset
<1>9. q \in 0 .. Top
  BY <1>1, <1>3, <1>5, <1>6
<1>10. a = o.start + q * BlockSize + m
  BY <1>1, <1>2, <1>7
<1> QED BY <1>8, <1>9, <1>10

(* The fast path starts.                                                     *)
LEMMA FastStartKeepsData ==
    ASSUME AlignedRequests, CopyInv, NEW n \in 1 .. Left, pc = "memcpy",
           offset' = offset + n, UNCHANGED <<req, bufferVars, dstObject, srcObject>>,
           req.fast, ObjectToObject(n),
           dstObject # NoObject, dstObject.start <= Dst, Dst + n <= End(dstObject),
           srcObject # NoObject, srcObject.start <= Src, Src + n <= End(srcObject)
    PROVE  /\ DataInv'
           /\ \A a \in Cells : mem'[a] = mem[a] \/ mem'[a] = Contract!Result(req)[a]
<1>1. /\ LoopInv /\ DataTypes /\ JobRight /\ FlightsApart /\ MemoryRight
      /\ \A b \in Buffers : flight[b] = NoTransfer
  BY QuietFlights DEF CopyInv, DataInv, QuietPlaces
<1>2. /\ req.dst \in Nat /\ req.src \in Nat /\ req.size \in Nat /\ offset \in 0 .. req.size
      /\ Left = req.size - offset /\ Dst = req.dst + offset /\ Src = req.src + offset
      /\ Dst \in Nat /\ Src \in Nat /\ n \in Nat /\ n > 0
  BY <1>1, RequestFacts
<1>3. dstObject \in Objects /\ srcObject \in Objects
  BY <1>1 DEF LoopInv, Types
<1>4. End(dstObject) \in Nat /\ End(srcObject) \in Nat
  BY <1>3, ObjectFacts
<1>5. Dst < End(dstObject) /\ Src < End(srcObject) /\ Left > 0
  BY <1>2, <1>4
<1>6. BlockOf(dstObject, Dst) \in 0 .. Top /\ BlockOf(srcObject, Src) \in 0 .. Top
  BY <1>2, <1>3, <1>5, BlockOfFacts
<1>7. InBlockOffset(dstObject, Dst) <= InBlockOffset(srcObject, Src)
  BY <1>1, <1>5, StartInStep
<1>8. /\ job' = [dst |-> Dst, src |-> Src, left |-> n, chunk |-> 0, bufSize |-> 0,
                 i |-> BlockOf(srcObject, Src), j |-> BlockOf(dstObject, Dst)]
      /\ pc' = "fast" /\ mem' = mem
  BY DEF ObjectToObject, NoJob
<1>9. DataTypes'
  <2>1. job' \in [dst : Nat, src : Nat, left : Nat, chunk : Nat, bufSize : 0 .. BlockSize,
                  i : 0 .. Top + 1, j : 0 .. Top + 1]
    <3>1. PICK i \in 0 .. Top + 1, j \in 0 .. Top + 1, size \in 0 .. BlockSize :
            i = BlockOf(srcObject, Src) /\ j = BlockOf(dstObject, Dst) /\ size = 0
      BY <1>6, BlockSizeFacts
    <3>2. job' = [dst |-> Dst, src |-> Src, left |-> n, chunk |-> 0, bufSize |-> size,
                  i |-> i, j |-> j]
      BY <1>8, <3>1
    <3> QED BY <1>2, <3>1, <3>2
  <2> QED BY <1>1, <1>8, <2>1 DEF DataTypes, bufferVars
<1>10. JobRight'
  BY <1>2, <1>7, <1>8 DEF JobRight, InStep, CopyPlaces, InBlockOffset, BlockOf
<1>11. BuffersRight'
  BY <1>1, <1>8, QuietAfter DEF bufferVars
<1>12. FlightsApart' /\ \A c : Carried(c) => Carried(c)'
  BY <1>1, SameFlights DEF bufferVars
<1>13. MemoryRight'
  <2>1. Issued' = Dst
    BY <1>8 DEF Issued, CopyPlaces
  <2>2. Issued = Dst /\ Issued \in Nat
    BY <1>1, <1>2, IssuedFacts DEF CopyPlaces
  <2> QED BY <1>1, <1>8, <1>12, <2>1, <2>2, MemoryStill
<1> QED BY <1>8, <1>9, <1>10, <1>11, <1>12, <1>13 DEF DataInv


LEMMA StretchKeepsData ==
    ASSUME AlignedRequests, CopyInv, pc = "memcpy", NEW n \in 1 .. Left,
           UNCHANGED <<req, bufferVars, dstObject, srcObject>>, offset' = offset + n, Copies(n)
    PROVE  /\ DataInv'
           /\ \A a \in Cells : mem'[a] = mem[a] \/ mem'[a] = Contract!Result(req)[a]
<1>1. /\ UNCHANGED <<req, bufferVars, dstObject, srcObject>> /\ pc = "memcpy"
  OBVIOUS
<1>2. n \in 1 .. Left /\ offset' = offset + n /\ Copies(n)
  OBVIOUS
<1>3. /\ LoopInv /\ DataTypes /\ JobRight /\ FlightsApart /\ MemoryRight
      /\ \A b \in Buffers : flight[b] = NoTransfer
  BY <1>1, QuietFlights DEF CopyInv, DataInv, QuietPlaces
<1>4. /\ req.dst \in Nat /\ req.src \in Nat /\ req.size \in Nat /\ offset \in 0 .. req.size
      /\ Left = req.size - offset /\ Dst = req.dst + offset /\ Src = req.src + offset
      /\ req.dst + req.size <= Top + 1 /\ n \in Nat /\ n > 0 /\ Dst \in Nat /\ Src \in Nat
      /\ req \in Requests /\ req.call = "memcpy"
  BY <1>1, <1>3, RequestFacts DEF LoopInv, RequestRight
<1>5. /\ dstObject # NoObject => dstObject \in Objects
      /\ srcObject # NoObject => srcObject \in Objects
  BY <1>3 DEF LoopInv, Types
<1>6. CASE HostToHost(n)
  <2>1. mem' = Moved(mem, Dst, mem, Src, n) /\ pc' = pc /\ job' = job
    BY <1>6 DEF HostToHost
  <2>2. PICK at \in Nat : at = Dst
    BY <1>4
  <2>3. PICK from \in Nat : from = Src
    BY <1>4
  <2>4. Writes(at, n)
    <3>1. ASSUME NEW k \in 0 .. n - 1
          PROVE  mem[from + k] + req.dst = at + k + req.src /\ mem[from + k] \in Nat
      <4>1. from + k \in Nat /\ req.src <= from + k /\ from + k < req.src + req.size
        BY <1>4, <2>3
      <4>2. mem[from + k] = from + k
        BY <1>1, <4>1, SourceUntouched
      <4> QED BY <1>4, <2>2, <2>3, <4>1, <4>2
    <3>2. Belongs(mem, from, at, n)
      BY <3>1 DEF Belongs
    <3>3. pc # "idle" /\ req.call = "memcpy" /\ req.dst <= at /\ at + n <= req.dst + req.size
      BY <1>1, <1>4, <2>2
    <3>4. mem' = Moved(mem, at, mem, from, n)
      BY <2>1, <2>2, <2>3
    <3>5. n \in Nat
      BY <1>4
    <3> QED BY <3>2, <3>3, <3>4, <3>5, WrittenRight
  <2>5. DataTypes'
    BY <1>1, <1>3, <2>1, <2>4 DEF DataTypes, bufferVars, Writes
  <2>6. JobRight'
    BY <1>1, <1>3, <2>1 DEF JobRight, CopyPlaces
  <2>7. BuffersRight'
    BY <1>1, <1>3, <2>1, QuietAfter DEF bufferVars
  <2>8. FlightsApart' /\ \A c : Carried(c) => Carried(c)'
    BY <1>1, <1>3, SameFlights DEF bufferVars
  <2>9. MemoryRight'
    <3>1. Issued = Dst /\ Issued \in Nat
      BY <1>1, <1>3, <1>4, IssuedFacts DEF CopyPlaces
    <3>2. Issued' = Dst + n
      BY <1>1, <1>2, <1>4, <2>1 DEF Issued, CopyPlaces
    <3>3. pc # "idle" /\ pc' # "idle" /\ req' = req
      BY <1>1, <2>1
    <3>4. /\ \A a \in Cells : mem'[a] = mem[a] \/ mem'[a] = Contract!Result(req)[a]
          /\ \A a \in Cells : a \in req.dst .. Issued' - 1 /\ a \notin req.dst .. Issued - 1 =>
               mem'[a] = Contract!Result(req)[a]
      BY <1>4, <2>2, <2>4, <3>1, <3>2 DEF Writes
    <3> QED BY <1>3, <2>8, <3>1, <3>3, <3>4, MemoryKept
  <2> QED BY <2>4, <2>5, <2>6, <2>7, <2>8, <2>9 DEF DataInv, Writes
<1>7. CASE /\ HostToObject(n)
           /\ dstObject # NoObject /\ dstObject.start <= Dst /\ Dst + n <= End(dstObject)
  <2>1. /\ StartJob(n, Least(n, BlockEnd(dstObject, Dst))) /\ pc' = "toObject" /\ mem' = mem
    BY <1>1, <1>7 DEF HostToObject
  <2> QED BY <1>1, <1>2, <1>4, <1>5, <1>7, <2>1, StartKeepsData
<1>8. CASE /\ ObjectToHost(n)
           /\ srcObject # NoObject /\ srcObject.start <= Src /\ Src + n <= End(srcObject)
  <2>1. /\ StartJob(n, Least(n, BlockEnd(srcObject, Src))) /\ pc' = "fromObject" /\ mem' = mem
    BY <1>1, <1>8 DEF ObjectToHost
  <2> QED BY <1>1, <1>2, <1>4, <1>5, <1>8, <2>1, StartKeepsData
<1>9. CASE /\ ObjectToObject(n)
           /\ dstObject # NoObject /\ dstObject.start <= Dst /\ Dst + n <= End(dstObject)
           /\ srcObject # NoObject /\ srcObject.start <= Src /\ Src + n <= End(srcObject)
  <2>1. CASE req.fast
    BY <1>1, <1>2, <1>9, <2>1, FastStartKeepsData
  <2>2. CASE ~req.fast
    <3>1. /\ StartJob(n, Least(n, BlockEnd(dstObject, Dst))) /\ pc' = "objectToObject"
          /\ mem' = mem
      BY <1>1, <1>9, <2>2 DEF ObjectToObject
    <3> QED BY <1>1, <1>2, <1>4, <1>5, <1>9, <3>1, StartKeepsData
  <2> QED BY <2>1, <2>2
<1> QED BY <1>2, <1>6, <1>7, <1>8, <1>9 DEF Copies

LEMMA SetStretchKeepsData ==
    ASSUME CopyInv, SetStretch
    PROVE  /\ DataInv'
           /\ \A a \in Cells : mem'[a] = mem[a] \/ mem'[a] = Contract!Result(req)[a]
<1>1. pc = "memset" /\ UNCHANGED <<req, pc, job, buffer, flight, active>>
  BY DEF SetStretch, bufferVars
<1>2. PICK n \in 1 .. Left : SetRight(n)
  BY SetStretchRight DEF CopyInv
<1>3. /\ LoopInv /\ DataTypes /\ JobRight /\ FlightsApart /\ MemoryRight
      /\ \A b \in Buffers : flight[b] = NoTransfer
  BY <1>1, QuietFlights DEF CopyInv, DataInv, QuietPlaces
<1>4. /\ req.dst \in Nat /\ req.size \in Nat /\ offset \in 0 .. req.size
      /\ Left = req.size - offset /\ Dst = req.dst + offset
      /\ n \in Nat /\ n > 0 /\ Dst \in Nat /\ req.call = "memset"
  BY <1>1, <1>3, RequestFacts DEF LoopInv, RequestRight
<1>5. /\ offset' = offset + n
      /\ mem' = [a \in Cells |-> IF a \in Dst .. Dst + n - 1 THEN Contract!Fresh ELSE mem[a]]
  BY <1>2 DEF SetRight, Contract!Bytes
<1>6. /\ mem' \in [Cells -> Cells \cup {Contract!Fresh}]
      /\ \A a \in Cells : a \notin Dst .. Dst + n - 1 => mem'[a] = mem[a]
      /\ \A a \in Cells : a \in Dst .. Dst + n - 1 => mem'[a] = Contract!Fresh
  BY <1>3, <1>5 DEF DataTypes
<1>7. \A a \in Cells : a \in Dst .. Dst + n - 1 => Contract!Result(req)[a] = Contract!Fresh
  BY <1>4 DEF Contract!Result, Contract!Bytes, Cells
<1>8. \A a \in Cells : mem'[a] = mem[a] \/ mem'[a] = Contract!Result(req)[a]
  BY <1>6, <1>7
<1>9. DataTypes'
  BY <1>1, <1>3, <1>6 DEF DataTypes
<1>10. JobRight'
  BY <1>1, <1>3 DEF JobRight, CopyPlaces
<1>11. BuffersRight'
  BY <1>1, <1>3, QuietAfter
<1>12. FlightsApart' /\ \A c : Carried(c) => Carried(c)'
  BY <1>1, <1>3, SameFlights
<1>13. MemoryRight'
  <2>1. Issued = Dst /\ Issued \in Nat
    BY <1>1, <1>3, <1>4, IssuedFacts DEF CopyPlaces
  <2>2. Issued' = Dst + n
    BY <1>1, <1>4, <1>5 DEF Issued, CopyPlaces
  <2>3. \A a \in Cells : a \in req.dst .. Issued' - 1 /\ a \notin req.dst .. Issued - 1 =>
          mem'[a] = Contract!Result(req)[a]
    BY <1>4, <1>6, <1>7, <2>1, <2>2
  <2>4. pc # "idle" /\ pc' # "idle" /\ req' = req
    BY <1>1
  <2> QED BY <1>3, <1>8, <1>12, <2>1, <2>3, <2>4, MemoryKept
<1> QED BY <1>8, <1>9, <1>10, <1>11, <1>12, <1>13 DEF DataInv

(* A call returns when memory is as it should be.                            *)
LEMMA ReturnRight ==
    ASSUME CopyInv, Return
    PROVE  mem = Contract!Result(req)
<1>1. pc \in {"memcpy", "memset"} /\ Left = 0
  BY DEF Return
<1>2. /\ LoopInv /\ DataTypes /\ JobRight /\ MemoryRight
      /\ \A b \in Buffers : flight[b] = NoTransfer
  BY <1>1, QuietFlights DEF CopyInv, DataInv, QuietPlaces
<1>3. /\ req.dst \in Nat /\ req.size \in Nat /\ Issued = req.dst + req.size
  BY <1>1, <1>2, RequestFacts, IssuedFacts DEF CopyPlaces
<1>4. \A a \in Cells : ~Carried(a)
  BY <1>2 DEF Carried, NoTransfer
<1>5. ASSUME NEW a \in Cells
      PROVE  mem[a] = Contract!Result(req)[a]
  <2>1. /\ mem[a] = a \/ mem[a] = Contract!Result(req)[a]
        /\ a \in req.dst .. req.dst + req.size - 1 => mem[a] = Contract!Result(req)[a]
    BY <1>1, <1>2, <1>3, <1>4 DEF MemoryRight
  <2>2. a \notin req.dst .. req.dst + req.size - 1 => Contract!Result(req)[a] = a
    BY DEF Contract!Result, Contract!Bytes, Cells
  <2> QED BY <2>1, <2>2
<1>6. mem = [a \in Cells |-> mem[a]]
  BY <1>2 DEF DataTypes
<1>7. Contract!Result(req) = [a \in Cells |-> Contract!Result(req)[a]]
  BY DEF Contract!Result, Cells
<1> QED BY <1>5, <1>6, <1>7

LEMMA ReturnKeepsData ==
    ASSUME CopyInv, Return
    PROVE  DataInv'
<1>1. /\ pc \in {"memcpy", "memset"} /\ pc' = "idle" /\ mem' = Contract!Named
      /\ UNCHANGED <<job, buffer, flight, active>>
  BY DEF Return, bufferVars
<1>2. /\ DataTypes /\ job = NoJob /\ FlightsApart /\ \A b \in Buffers : flight[b] = NoTransfer
  BY <1>1, QuietFlights DEF CopyInv, DataInv, JobRight, QuietPlaces, CopyPlaces
<1>3. DataTypes'
  BY <1>1, <1>2 DEF DataTypes, Contract!Named, Cells
<1>4. JobRight'
  BY <1>1, <1>2 DEF JobRight, CopyPlaces
<1>5. BuffersRight'
  BY <1>1, <1>2, QuietAfter
<1>6. FlightsApart'
  BY <1>1, <1>2, SameFlights
<1>7. MemoryRight'
  BY <1>1 DEF MemoryRight
<1> QED BY <1>3, <1>4, <1>5, <1>6, <1>7 DEF DataInv

-------------------------------------------------------------------------------
(* Objects copy through their buffers.                                       *)

LEMMA SourceBytes ==
    ASSUME CopyInv, pc \in CopyPlaces, NEW s \in Nat, NEW n \in Nat,
           req.src <= s, s + n <= req.src + req.size
    PROVE  Untouched(s, n)
<1> SUFFICES ASSUME NEW k \in 0 .. n - 1
             PROVE  s + k \in Cells /\ mem[s + k] = s + k
  BY DEF Untouched
<1>1. req.src \in Nat /\ req.size \in Nat
  BY JobFacts DEF CopyInv, DataInv
<1>2. s + k \in Nat /\ req.src <= s + k /\ s + k < req.src + req.size
  BY <1>1
<1> QED BY <1>2, SourceUntouched

(* A buffer that is filled from host memory loads what it was filled with.   *)
LEMMA FillLoads ==
    ASSUME CopyInv, pc \in CopyPlaces, NEW b \in Buffers, NEW s \in Nat, NEW n \in 0 .. BlockSize,
           req.src <= s, s + n <= req.src + req.size,
           FillBuffer(b, n, s), flight'[b] = NoTransfer
    PROVE  /\ buffer' \in [Buffers -> [0 .. BlockSize - 1 -> Cells]]
           /\ \A c \in Buffers : c # b => buffer'[c] = buffer[c]
           /\ Loading(b, s, n)'
<1>1. n \in Nat /\ BlockSize \in Nat
  BY BlockSizeFacts
<1>2. Untouched(s, n)
  BY <1>1, SourceBytes
<1>3. buffer' = [buffer EXCEPT ![b] = Moved(@, 0, mem, s, n)]
  BY DEF FillBuffer
<1>4. PICK slot \in Nat : slot = 0
  OBVIOUS
<1>5. Fills(b, slot, s, n)
  BY <1>1, <1>2, <1>3, <1>4, FilledRight DEF CopyInv, DataInv
<1>6. \A k \in 0 .. n - 1 : buffer'[b][k] = s + k
  BY <1>1, <1>4, <1>5 DEF Fills
<1>7. Loading(b, s, n)'
  BY <1>6 DEF Loading, Waited
<1> QED BY <1>7, <1>5 DEF Fills

(* A transfer from an object into the slots behind those that are loaded.    *)
LEMMA StartLoads ==
    ASSUME CopyInv, pc \in CopyPlaces, NEW b \in Buffers, NEW s \in Nat, NEW slot \in Nat,
           NEW cell \in Nat, cell = s + slot, NEW n \in Nat \ {0}, NEW m \in Nat, m = slot + n,
           req.src <= s, s + m <= req.src + req.size, m <= BlockSize,
           \A k \in 0 .. slot - 1 : buffer[b][k] = s + k,
           StartTransfer(b, "fromObject", cell, slot, n), buffer' = buffer, req' = req
    PROVE  /\ flight' \in [Buffers -> [way : {"none", "fromObject", "toObject"}, cell : 0 .. Top,
                                       slot : 0 .. BlockSize - 1, size : 0 .. BlockSize]]
           /\ flight[b] = NoTransfer /\ \A c \in Buffers : c # b => flight'[c] = flight[c]
           /\ \A a : Carried(a) => Carried(a)'
           /\ FlightsApart'
           /\ Loading(b, s, m)'
<1>1. /\ DataTypes /\ FlightsApart /\ req.src \in Nat /\ req.size \in Nat
      /\ req.src + req.size <= Top + 1
  BY JobFacts DEF CopyInv, DataInv
<1>2. BlockSize \in Nat \ {0} /\ Top \in Nat
  BY BlockSizeFacts
<1>3. cell \in 0 .. Top /\ slot \in 0 .. BlockSize - 1 /\ n \in 0 .. BlockSize
  BY <1>1, <1>2
<1>4. /\ flight' \in [Buffers -> [way : {"none", "fromObject", "toObject"}, cell : 0 .. Top,
                                  slot : 0 .. BlockSize - 1, size : 0 .. BlockSize]]
      /\ flight'[b].way = "fromObject" /\ flight'[b].cell = cell
      /\ flight'[b].slot = slot /\ flight'[b].size = n
      /\ flight[b] = NoTransfer
      /\ \A c \in Buffers : c # b => flight'[c] = flight[c]
      /\ \A a : Carried(a) => Carried(a)'
      /\ FlightsApart'
  BY <1>1, <1>3, StartFacts
<1>5. Incoming(b)' /\ flight'[b].cell = s + flight'[b].slot
  BY <1>1, <1>2, <1>4 DEF Incoming
<1>6. \A k \in 0 .. m - 1 : buffer'[b][k] = s + k \/ Arrives(b, k)'
  BY <1>4 DEF Arrives
<1>7. Loading(b, s, m)'
  BY <1>5, <1>6 DEF Loading
<1> QED BY <1>4, <1>7

(* A buffer that has been loaded.                                            *)
LEMMA Loaded ==
    ASSUME NEW b \in Buffers, BufferRight(b), Loads(b), flight[b] = NoTransfer
    PROVE  /\ LoadFrom(b) \in Nat /\ LoadSize(b) \in Nat
           /\ \A k \in 0 .. LoadSize(b) - 1 : buffer[b][k] = LoadFrom(b) + k
<1>1. PICK s \in Nat : \E n \in Nat : s = LoadFrom(b) /\ n = LoadSize(b) /\ Loading(b, s, n)
  BY DEF BufferRight
<1>2. PICK n \in Nat : s = LoadFrom(b) /\ n = LoadSize(b) /\ Loading(b, s, n)
  BY <1>1
<1>3. \A k \in 0 .. n - 1 : buffer[b][k] = s + k
  BY <1>2 DEF Loading, Arrives, NoTransfer
<1> QED BY <1>2, <1>3

LEMMA LoadsNow ==
    ASSUME NEW b \in Buffers, NEW s \in Nat, NEW n \in Nat, Loads(b)',
           s = LoadFrom(b)', n = LoadSize(b)', Loading(b, s, n)'
    PROVE  BufferRight(b)'
BY DEF BufferRight

(* The full buffer is sent to the destination.                               *)
LEMMA SendKeeps ==
    ASSUME CopyInv, pc \in {"send", "forward"}, pc' \in {"refill", "reload", "drain"},
           StartTransfer(active, "toObject", job.dst, 0, job.chunk),
           UNCHANGED <<mem, req, buffer, active>>, Issued' = job.dst + job.chunk
    PROVE  /\ flight' \in [Buffers -> [way : {"none", "fromObject", "toObject"}, cell : 0 .. Top,
                                       slot : 0 .. BlockSize - 1, size : 0 .. BlockSize]]
           /\ BuffersRight' /\ FlightsApart' /\ MemoryRight'
<1>1. /\ LoopInv /\ DataTypes /\ JobRight /\ FlightsApart /\ MemoryRight
      /\ pc \in CopyPlaces /\ pc # "drain" /\ pc # "refill" /\ active \in Buffers
      /\ \A b \in Buffers : BufferRight(b)
  BY DEF CopyInv, DataInv, BuffersRight, LoopInv, Types, CopyPlaces
<1>2. BlockSize \in Nat \ {0} /\ Top \in Nat /\ Cells = 0 .. Top
  BY BlockSizeFacts
<1>3. PICK cell \in Nat : cell = job.dst
  BY <1>1, JobFacts
<1>4. PICK n \in Nat : n = job.chunk
  BY <1>1, JobFacts
<1>5. /\ req.dst \in Nat /\ req.src \in Nat /\ req.dst <= cell /\ cell + n <= Top + 1
      /\ n > 0 /\ n <= BlockSize /\ job.src = req.src + (cell - req.dst)
      /\ cell \in 0 .. Top /\ 0 \in 0 .. BlockSize - 1 /\ n \in 0 .. BlockSize
  <2>1. /\ req.dst \in Nat /\ req.src \in Nat /\ req.dst <= job.dst /\ job.left \in Nat
        /\ job.chunk > 0 /\ job.chunk <= BlockSize /\ job.chunk <= job.left
        /\ job.dst + job.left <= req.dst + req.size /\ req.size \in Nat
        /\ req.dst + req.size <= Top + 1 /\ job.src = req.src + (job.dst - req.dst)
    BY <1>1, JobFacts
  <2>2. cell + n <= Top + 1 /\ n > 0 /\ n <= BlockSize /\ req.dst <= cell
    <3>1. PICK left \in Nat : left = job.left
      BY <2>1
    <3>2. PICK end \in Nat : end = req.dst + req.size
      BY <2>1
    <3>3. n <= left /\ cell + left <= end /\ end <= Top + 1
      BY <1>3, <1>4, <2>1, <3>1, <3>2
    <3>4. cell + n <= Top + 1
      BY <1>2, <3>3
    <3> QED BY <1>3, <1>4, <2>1, <3>4
  <2>3. job.src = req.src + (cell - req.dst)
    BY <1>3, <2>1
  <2> QED BY <1>2, <2>1, <2>2, <2>3
<1>6. /\ flight' \in [Buffers -> [way : {"none", "fromObject", "toObject"}, cell : 0 .. Top,
                                  slot : 0 .. BlockSize - 1, size : 0 .. BlockSize]]
      /\ flight'[active].way = "toObject" /\ flight'[active].cell = cell
      /\ flight'[active].slot = 0 /\ flight'[active].size = n
      /\ flight[active] = NoTransfer
      /\ \A c \in Buffers : c # active => flight'[c] = flight[c]
      /\ \A a : Carried(a) => Carried(a)'
  <2>1. PICK b \in Buffers : b = active
    BY <1>1
  <2>2. StartTransfer(b, "toObject", cell, 0, n)
    BY <1>3, <1>4, <2>1
  <2>3. "toObject" \in {"fromObject", "toObject"}
    OBVIOUS
  <2> QED BY <1>1, <1>5, <2>1, <2>2, <2>3, StartFacts
<1>7. Issued = cell /\ Issued' = cell + n
  BY <1>1, <1>3, <1>4, IssuedFacts
<1>8. \A k \in 0 .. n - 1 : buffer[active][k] = job.src + k
  <2>1. Loads(active) /\ LoadFrom(active) = job.src /\ LoadSize(active) = n
    BY <1>4 DEF Loads, LoadFrom, LoadSize
  <2> QED BY <1>1, <1>6, <2>1, Loaded
<1>9. Outgoing(active)'
  <2>1. \A k \in 0 .. n - 1 : buffer'[active][k] + req.dst = cell + k + req.src
    BY <1>5, <1>8
  <2> QED BY <1>5, <1>6, <1>7, <2>1 DEF Outgoing
<1>10. ASSUME NEW b \in Buffers, b # active
       PROVE  /\ BufferRight(b)'
              /\ flight[b].way = "toObject" => flight[b].cell + flight[b].size <= cell
  <2>1. ~Loads(b) /\ ~Loads(b)' /\ pc' \in SendPlaces
    BY <1>10 DEF Loads, SendPlaces
  <2>2. BufferRight(b)'
    BY <1>1, <1>5, <1>6, <1>7, <1>10, <2>1, IdleStill
  <2>3. Waited(b) \/ Outgoing(b)
    BY <1>1, <2>1 DEF BufferRight
  <2> QED BY <1>7, <2>2, <2>3 DEF Waited, Outgoing, NoTransfer
<1>11. BufferRight(active)'
  BY <1>9 DEF BufferRight, Loads, SendPlaces
<1>12. BuffersRight'
  BY <1>10, <1>11 DEF BuffersRight
<1>13. FlightsApart'
  BY <1>1, <1>6, <1>10 DEF FlightsApart
<1>14. MemoryRight'
  <2>1. \A a \in Cells : a \in cell .. cell + n - 1 => Carried(a)'
    BY <1>1, <1>6 DEF Carried, Contract!Bytes
  <2>2. \A a \in Cells : a \in req.dst .. Issued' - 1 /\ a \notin req.dst .. Issued - 1 => Carried(a)'
    BY <1>2, <1>5, <1>7, <2>1
  <2>3. pc # "idle" /\ pc' # "idle" /\ req' = req /\ mem' = mem /\ Issued \in Nat
    BY <1>7
  <2> QED BY <1>1, <1>6, <2>2, <2>3, MemoryStill
<1> QED BY <1>6, <1>12, <1>13, <1>14

LEMMA FillFirstKeepsData ==
    ASSUME CopyInv, FillFirst
    PROVE  DataInv'
<1>1. /\ pc = "toObject" /\ pc' = "send" /\ FillBuffer(active, job.chunk, job.src)
      /\ UNCHANGED <<mem, req, managerVars, job, flight, active>>
  BY DEF FillFirst, Goto
<1>2. /\ LoopInv /\ DataTypes /\ JobRight /\ FlightsApart /\ MemoryRight
      /\ pc \in CopyPlaces /\ active \in Buffers
      /\ \A b \in Buffers : flight[b] = NoTransfer
  BY <1>1, QuietFlights DEF CopyInv, DataInv, LoopInv, Types, CopyPlaces, QuietPlaces
<1>3. PICK s \in Nat : s = job.src
  BY <1>2, JobFacts
<1>4. PICK n \in 0 .. BlockSize : n = job.chunk
  <2>1. job.chunk \in Nat /\ job.chunk <= BlockSize /\ BlockSize \in Nat
    BY <1>2, JobFacts, BlockSizeFacts
  <2> QED BY <2>1
<1>5. req.src <= s /\ s + n <= req.src + req.size /\ n \in Nat
  <2>1. /\ job.left \in Nat /\ job.chunk \in Nat /\ req.src <= job.src /\ job.chunk <= job.left
        /\ job.src + job.left <= req.src + req.size /\ req.src \in Nat /\ req.size \in Nat
    BY <1>2, JobFacts
  <2> QED BY <1>3, <1>4, <2>1
<1>6. PICK b \in Buffers : b = active
  BY <1>2
<1>7. /\ buffer' \in [Buffers -> [0 .. BlockSize - 1 -> Cells]]
      /\ Loading(b, s, n)'
  <2>1. FillBuffer(b, n, s) /\ flight'[b] = NoTransfer
    BY <1>1, <1>2, <1>3, <1>4, <1>6
  <2> QED BY <1>2, <1>5, <2>1, FillLoads
<1>8. DataTypes'
  BY <1>1, <1>2, <1>7 DEF DataTypes
<1>9. JobRight'
  BY <1>1, <1>2 DEF JobRight, CopyPlaces, LoadPlaces, managerVars
<1>10. BuffersRight'
  <2>1. BufferRight(b)'
    BY <1>1, <1>3, <1>4, <1>5, <1>6, <1>7, LoadsNow DEF Loads, LoadFrom, LoadSize
  <2>2. ASSUME NEW c \in Buffers, c # b
        PROVE  BufferRight(c)'
    BY <1>1, <1>2, <1>6, <2>2, QuietBuffer DEF Loads
  <2> QED BY <2>1, <2>2 DEF BuffersRight
<1>11. FlightsApart' /\ \A a : Carried(a) => Carried(a)'
  BY <1>1, <1>2, SameFlights
<1>12. MemoryRight'
  <2>1. Issued' = Issued /\ Issued \in Nat
    BY <1>1, <1>2, IssuedFacts DEF Issued, CopyPlaces
  <2> QED BY <1>1, <1>2, <1>11, <2>1, MemoryStill
<1> QED BY <1>8, <1>9, <1>10, <1>11, <1>12 DEF DataInv

LEMMA SendKeepsData ==
    ASSUME CopyInv, Send
    PROVE  DataInv'
<1>1. /\ pc = "send" /\ pc' = "refill" /\ StartTransfer(active, "toObject", job.dst, 0, job.chunk)
      /\ UNCHANGED <<mem, req, managerVars, job, buffer, active>>
  BY DEF Send, Goto
<1>2. DataTypes /\ JobRight
  BY DEF CopyInv, DataInv
<1>3. Issued' = job.dst + job.chunk
  BY <1>1 DEF Issued
<1>4. /\ flight' \in [Buffers -> [way : {"none", "fromObject", "toObject"}, cell : 0 .. Top,
                                  slot : 0 .. BlockSize - 1, size : 0 .. BlockSize]]
      /\ BuffersRight' /\ FlightsApart' /\ MemoryRight'
  BY <1>1, <1>3, SendKeeps
<1>5. DataTypes'
  BY <1>1, <1>2, <1>4 DEF DataTypes
<1>6. JobRight'
  BY <1>1, <1>2 DEF JobRight, CopyPlaces, LoadPlaces, managerVars
<1> QED BY <1>4, <1>5, <1>6 DEF DataInv

(* The other buffer is filled and the two are swapped, or the last chunk has *)
(* been sent.                                                                *)
LEMMA RefillKeepsData ==
    ASSUME CopyInv, Refill
    PROVE  DataInv'
<1>1. /\ pc = "refill" /\ pc' = IF job'.left > 0 THEN "send" ELSE "drain"
      /\ job' = Advanced
      /\ UNCHANGED <<mem, req, managerVars, flight>>
  BY DEF Refill, Goto, Swap
<1>2. /\ LoopInv /\ DataTypes /\ JobRight /\ FlightsApart /\ MemoryRight
      /\ pc \in CopyPlaces /\ pc # "drain" /\ active \in Buffers
      /\ \A b \in Buffers : BufferRight(b)
  BY <1>1 DEF CopyInv, DataInv, BuffersRight, LoopInv, Types, CopyPlaces
<1>3. PICK p \in Buffers : p = passive
  BY <1>2, PassiveBuffer
<1>4. p # active /\ active' = p /\ \A b \in Buffers : b # p => b = active
  BY <1>2, <1>3, PassiveBuffer DEF Refill, Swap
<1>5. /\ job' \in [dst : Nat, src : Nat, left : Nat, chunk : Nat,
                   bufSize : 0 .. BlockSize, i : 0 .. Top + 1, j : 0 .. Top + 1]
      /\ job'.dst = job.dst + job.chunk /\ job'.src = job.src + job.chunk
      /\ job'.left = job.left - job.chunk /\ job'.chunk = NextChunk
      /\ job'.bufSize = job.bufSize
  BY <1>1, <1>2, AdvancedFields
<1>6. /\ req.dst \in Nat /\ req.src \in Nat /\ req.size \in Nat /\ offset \in Nat
      /\ job.dst \in Nat /\ job.src \in Nat /\ job.left \in Nat /\ job.chunk \in Nat
      /\ job.chunk > 0 /\ job.chunk <= job.left
      /\ req.dst <= job.dst /\ req.src <= job.src
      /\ job.src = req.src + (job.dst - req.dst)
      /\ job.dst + job.left = req.dst + offset
      /\ job.src + job.left <= req.src + req.size
  BY <1>2, JobFacts
<1>7. /\ NextChunk \in Nat /\ NextChunk <= BlockSize
      /\ NextChunk <= job.left - job.chunk /\ NextChunk <= job.bufSize
      /\ job.left = job.chunk => NextChunk = 0
      /\ job.left > job.chunk => NextChunk > 0
  BY <1>2, <1>6, NextChunkFacts, BlockSizeFacts
<1>8. JobRight'
  BY <1>1, <1>5, <1>6, <1>7 DEF JobRight, CopyPlaces, LoadPlaces, managerVars
<1>9. Issued = job.dst + job.chunk /\ Issued' = job.dst + job.chunk /\ Issued \in Nat
  BY <1>1, <1>2, <1>5, <1>6, IssuedFacts DEF Issued, CopyPlaces
<1>10. FlightsApart' /\ \A a : Carried(a) => Carried(a)'
  BY <1>1, <1>2, SameFlights
<1>11. MemoryRight'
  <2>1. pc # "idle" /\ pc' # "idle" /\ req' = req /\ mem' = mem
    BY <1>1
  <2> QED BY <1>2, <1>9, <1>10, <2>1, MemoryStill
<1>12. /\ buffer' \in [Buffers -> [0 .. BlockSize - 1 -> Cells]] /\ buffer'[active] = buffer[active]
       /\ BufferRight(p)'
  <2>1. CASE job.left > job.chunk
    <3>1. PICK s \in Nat : s = job.src + job.chunk
      BY <1>6
    <3>2. PICK n \in 0 .. BlockSize : n = NextChunk
      BY <1>7, BlockSizeFacts
    <3>3. FillBuffer(p, n, s) /\ flight'[p] = NoTransfer
      BY <1>1, <1>3, <2>1, <3>1, <3>2 DEF Refill, Waited
    <3>4. req.src <= s /\ s + n <= req.src + req.size /\ n \in Nat
      BY <1>6, <1>7, <3>1, <3>2
    <3>5. /\ buffer' \in [Buffers -> [0 .. BlockSize - 1 -> Cells]]
          /\ \A c \in Buffers : c # p => buffer'[c] = buffer[c]
          /\ Loading(p, s, n)'
      BY <1>2, <3>3, <3>4, FillLoads
    <3>6. Loads(p)' /\ s = LoadFrom(p)' /\ n = LoadSize(p)'
      BY <1>1, <1>5, <1>6, <1>4, <2>1, <3>1, <3>2 DEF Loads, LoadFrom, LoadSize
    <3>7. BufferRight(p)'
      BY <3>4, <3>5, <3>6, LoadsNow
    <3> QED BY <1>2, <1>4, <3>5, <3>7
  <2>2. CASE ~(job.left > job.chunk)
    <3>1. buffer' = buffer /\ pc' = "drain"
      BY <1>1, <1>5, <1>6, <2>2 DEF Refill
    <3>2. ~Loads(p) /\ ~Loads(p)' /\ pc' \in SendPlaces
      BY <1>1, <1>4, <3>1 DEF Loads, SendPlaces
    <3>3. BufferRight(p)'
      BY <1>1, <1>2, <1>6, <1>9, <3>1, <3>2, IdleStill
    <3> QED BY <1>2, <3>1, <3>3 DEF DataTypes
  <2> QED BY <2>1, <2>2
<1>13. DataTypes'
  BY <1>1, <1>2, <1>5, <1>12 DEF DataTypes
<1>14. BuffersRight'
  <2>1. ASSUME NEW b \in Buffers, b = active
        PROVE  BufferRight(b)'
    <3>1. ~Loads(b) /\ ~Loads(b)' /\ pc' \in SendPlaces
      BY <1>1, <1>4, <2>1 DEF Loads, SendPlaces
    <3> QED BY <1>1, <1>2, <1>6, <1>9, <1>12, <2>1, <3>1, IdleStill
  <2> QED BY <1>12, <1>4, <2>1 DEF BuffersRight
<1> QED BY <1>8, <1>10, <1>11, <1>13, <1>14 DEF DataInv

(* An object's copy returns, and all has arrived.                            *)
LEMMA DrainKeepsData ==
    ASSUME CopyInv, Drain
    PROVE  DataInv'
<1>1. /\ pc = "drain" /\ pc' = "memcpy" /\ job' = NoJob
      /\ buffer' = [b \in Buffers |-> Empty]
      /\ \A b \in Buffers : flight[b] = NoTransfer
      /\ UNCHANGED <<mem, req, managerVars, flight>>
  BY DEF Drain, EndJob, Waited
<1>2. /\ LoopInv /\ DataTypes /\ JobRight /\ FlightsApart /\ MemoryRight /\ pc \in CopyPlaces
  BY <1>1 DEF CopyInv, DataInv, CopyPlaces
<1>3. BlockSize \in Nat \ {0} /\ Top \in Nat /\ Cells = 0 .. Top
  BY BlockSizeFacts
<1>4. DataTypes'
  BY <1>1, <1>2, <1>3 DEF DataTypes, NoJob, Empty
<1>5. JobRight'
  BY <1>1 DEF JobRight, CopyPlaces
<1>6. BuffersRight'
  BY <1>1, QuietAfter
<1>7. FlightsApart' /\ \A a : Carried(a) => Carried(a)'
  BY <1>1, <1>2, SameFlights
<1>8. MemoryRight'
  <2>1. Issued = job.dst /\ Issued \in Nat /\ job.dst = req.dst + offset
    <3>1. /\ job.left = 0 /\ job.dst + job.left = req.dst + offset /\ job.dst \in Nat
          /\ req.dst \in Nat /\ offset \in Nat
      BY <1>1, <1>2, JobFacts
    <3> QED BY <1>1, <1>2, <3>1, IssuedFacts
  <2>2. Issued' = req.dst + offset
    BY <1>1 DEF Issued, CopyPlaces, managerVars
  <2>3. pc # "idle" /\ pc' # "idle" /\ req' = req /\ mem' = mem
    BY <1>1
  <2> QED BY <1>2, <1>7, <2>1, <2>2, <2>3, MemoryStill
<1> QED BY <1>4, <1>5, <1>6, <1>7, <1>8 DEF DataInv

LEMMA FetchFirstKeepsData ==
    ASSUME CopyInv, FetchFirst
    PROVE  DataInv'
<1>1. /\ pc = "fromObject" /\ pc' = "fetch"
      /\ StartTransfer(active, "fromObject", job.src, 0, job.chunk)
      /\ UNCHANGED <<mem, req, managerVars, job, buffer, active>>
  BY DEF FetchFirst, Goto
<1>2. /\ LoopInv /\ DataTypes /\ JobRight /\ FlightsApart /\ MemoryRight
      /\ pc \in CopyPlaces /\ pc # "drain" /\ active \in Buffers
      /\ \A b \in Buffers : flight[b] = NoTransfer
  BY <1>1, QuietFlights DEF CopyInv, DataInv, LoopInv, Types, CopyPlaces, QuietPlaces
<1>3. PICK s \in Nat : s = job.src
  BY <1>2, JobFacts
<1>4. PICK n \in Nat \ {0} : n = job.chunk
  BY <1>2, JobFacts
<1>5. PICK b \in Buffers : b = active
  BY <1>2
<1>6. req.src <= s /\ s + n <= req.src + req.size /\ n <= BlockSize
  <2>1. /\ req.src <= job.src /\ job.src + job.left <= req.src + req.size /\ job.left \in Nat
        /\ job.chunk <= job.left /\ job.chunk <= BlockSize /\ req.src \in Nat /\ req.size \in Nat
    BY <1>2, JobFacts
  <2> QED BY <1>3, <1>4, <2>1
<1>7. /\ flight' \in [Buffers -> [way : {"none", "fromObject", "toObject"}, cell : 0 .. Top,
                                  slot : 0 .. BlockSize - 1, size : 0 .. BlockSize]]
      /\ \A c \in Buffers : c # b => flight'[c] = flight[c]
      /\ \A a : Carried(a) => Carried(a)'
      /\ FlightsApart'
      /\ Loading(b, s, n)'
  <2>1. PICK slot \in Nat : slot = 0
    OBVIOUS
  <2>2. s = s + slot /\ n = slot + n /\ \A k \in 0 .. slot - 1 : buffer[b][k] = s + k
    BY <2>1
  <2>3. StartTransfer(b, "fromObject", s, slot, n)
    BY <1>1, <1>3, <1>4, <1>5, <2>1
  <2>4. n \in Nat /\ buffer' = buffer /\ req' = req
    BY <1>1
  <2> QED BY <1>2, <1>6, <2>2, <2>3, <2>4, StartLoads
<1>8. DataTypes'
  BY <1>1, <1>2, <1>7 DEF DataTypes
<1>9. JobRight'
  BY <1>1, <1>2 DEF JobRight, CopyPlaces, LoadPlaces, managerVars
<1>10. BuffersRight'
  <2>1. BufferRight(b)'
    BY <1>1, <1>3, <1>4, <1>5, <1>7, LoadsNow DEF Loads, LoadFrom, LoadSize
  <2>2. ASSUME NEW c \in Buffers, c # b
        PROVE  BufferRight(c)'
    BY <1>1, <1>2, <1>5, <1>7, <2>2, QuietBuffer DEF Loads
  <2> QED BY <2>1, <2>2 DEF BuffersRight
<1>11. MemoryRight'
  <2>1. Issued' = Issued /\ Issued \in Nat
    BY <1>1, <1>2, IssuedFacts DEF Issued, CopyPlaces
  <2> QED BY <1>1, <1>2, <1>7, <2>1, MemoryStill
<1> QED BY <1>7, <1>8, <1>9, <1>10, <1>11 DEF DataInv

(* The next chunk is asked for while the current one is on its way.          *)
LEMMA FetchKeepsData ==
    ASSUME CopyInv, Fetch
    PROVE  DataInv'
<1>1. /\ pc = "fetch" /\ pc' = "store"
      /\ UNCHANGED <<mem, req, managerVars, job, buffer, active>>
  BY DEF Fetch, Goto
<1>2. /\ LoopInv /\ DataTypes /\ JobRight /\ FlightsApart /\ MemoryRight
      /\ pc \in CopyPlaces /\ pc # "drain" /\ active \in Buffers
      /\ \A b \in Buffers : BufferRight(b)
  BY <1>1 DEF CopyInv, DataInv, BuffersRight, LoopInv, Types, CopyPlaces
<1>3. PICK p \in Buffers : p = passive
  BY <1>2, PassiveBuffer
<1>4. p # active /\ \A b \in Buffers : b # p => b = active
  BY <1>2, <1>3, PassiveBuffer
<1>5. flight[p] = NoTransfer
  BY <1>1, <1>2, <1>4 DEF BufferRight, Loads, SendPlaces, Waited
<1>6. /\ flight' \in [Buffers -> [way : {"none", "fromObject", "toObject"}, cell : 0 .. Top,
                                  slot : 0 .. BlockSize - 1, size : 0 .. BlockSize]]
      /\ \A c \in Buffers : c # p => flight'[c] = flight[c]
      /\ \A a : Carried(a) => Carried(a)'
      /\ FlightsApart'
      /\ BufferRight(p)'
  <2>1. CASE job.left > job.chunk
    <3>1. /\ job.src \in Nat /\ job.chunk \in Nat /\ job.left \in Nat /\ job.chunk > 0
          /\ req.src <= job.src /\ job.src + job.left <= req.src + req.size
          /\ req.src \in Nat /\ req.size \in Nat
      BY <1>2, JobFacts
    <3>2. /\ NextChunk \in Nat \ {0} /\ NextChunk <= BlockSize
          /\ NextChunk <= job.left - job.chunk
      BY <1>2, <2>1, <3>1, NextChunkFacts, BlockSizeFacts
    <3>3. PICK s \in Nat : s = job.src + job.chunk
      BY <3>1
    <3>4. PICK n \in Nat \ {0} : n = NextChunk
      BY <3>2
    <3>5. req.src <= s /\ s + n <= req.src + req.size /\ n <= BlockSize
      BY <3>1, <3>2, <3>3, <3>4
    <3>6. PICK slot \in Nat : slot = 0
      OBVIOUS
    <3>7. s = s + slot /\ n = slot + n /\ \A k \in 0 .. slot - 1 : buffer[p][k] = s + k
      BY <3>6
    <3>8. StartTransfer(p, "fromObject", s, slot, n)
      BY <1>3, <2>1, <3>3, <3>4, <3>6 DEF Fetch
    <3>9. n \in Nat /\ buffer' = buffer /\ req' = req
      BY <1>1
    <3>10. /\ flight' \in [Buffers -> [way : {"none", "fromObject", "toObject"}, cell : 0 .. Top,
                                       slot : 0 .. BlockSize - 1, size : 0 .. BlockSize]]
           /\ \A c \in Buffers : c # p => flight'[c] = flight[c]
           /\ \A a : Carried(a) => Carried(a)'
           /\ FlightsApart'
           /\ Loading(p, s, n)'
      BY <1>2, <3>5, <3>7, <3>8, <3>9, StartLoads
    <3>11. NextChunk' = NextChunk
      BY <1>1 DEF NextChunk
    <3>12. Loads(p)' /\ s = LoadFrom(p)' /\ n = LoadSize(p)'
      BY <1>1, <1>4, <2>1, <3>3, <3>4, <3>11 DEF Loads, LoadFrom, LoadSize
    <3> QED BY <3>9, <3>10, <3>12, LoadsNow
  <2>2. CASE ~(job.left > job.chunk)
    <3>1. flight' = flight
      BY <2>2 DEF Fetch
    <3>2. ~Loads(p)'
      BY <1>1, <1>4, <2>2 DEF Loads
    <3> QED BY <1>2, <1>5, <3>1, <3>2, SameFlights, QuietBuffer DEF DataTypes
  <2> QED BY <2>1, <2>2
<1>7. DataTypes'
  BY <1>1, <1>2, <1>6 DEF DataTypes
<1>8. JobRight'
  BY <1>1, <1>2 DEF JobRight, CopyPlaces, LoadPlaces, managerVars
<1>9. BuffersRight'
  <2>1. ASSUME NEW b \in Buffers, b = active
        PROVE  BufferRight(b)'
    BY <1>1, <1>2, <1>4, <1>6, <2>1, LoadsStill DEF Loads, LoadFrom, LoadSize
  <2> QED BY <1>4, <1>6, <2>1 DEF BuffersRight
<1>10. MemoryRight'
  <2>1. Issued' = Issued /\ Issued \in Nat
    BY <1>1, <1>2, IssuedFacts DEF Issued, CopyPlaces
  <2> QED BY <1>1, <1>2, <1>6, <2>1, MemoryStill
<1> QED BY <1>6, <1>7, <1>8, <1>9, <1>10 DEF DataInv

(* A chunk is stored in host memory.                                         *)
LEMMA StoreWrites ==
    ASSUME CopyInv, Store
    PROVE  \E at, n \in Nat : at = job.dst /\ n = job.chunk /\ Writes(at, n)
<1>1. /\ pc = "store" /\ flight[active] = NoTransfer
      /\ mem' = Moved(mem, job.dst, buffer[active], 0, job.chunk)
  BY DEF Store, Waited
<1>2. /\ LoopInv /\ DataTypes /\ JobRight /\ pc \in CopyPlaces /\ pc # "drain" /\ pc # "idle"
      /\ active \in Buffers /\ BufferRight(active)
  BY <1>1 DEF CopyInv, DataInv, BuffersRight, LoopInv, Types, CopyPlaces
<1>3. /\ job.dst \in Nat /\ job.chunk \in Nat /\ job.left \in Nat /\ job.chunk <= job.left
      /\ job.src \in Nat /\ req.dst <= job.dst /\ job.dst + job.left <= req.dst + req.size
      /\ req.dst \in Nat /\ req.src \in Nat /\ req.size \in Nat
      /\ job.src = req.src + (job.dst - req.dst) /\ req.call = "memcpy"
  BY <1>2, JobFacts
<1>4. PICK at \in Nat : at = job.dst
  BY <1>3
<1>5. PICK n \in Nat : n = job.chunk
  BY <1>3
<1>6. PICK from \in Nat : from = 0
  OBVIOUS
<1>7. PICK g : g = buffer[active]
  OBVIOUS
<1>8. \A k \in 0 .. n - 1 : g[k] = job.src + k
  <2>1. Loads(active) /\ LoadFrom(active) = job.src /\ LoadSize(active) = n
    BY <1>1, <1>5 DEF Loads, LoadFrom, LoadSize
  <2> QED BY <1>1, <1>2, <1>7, <2>1, Loaded
<1>9. Belongs(g, from, at, n)
  BY <1>3, <1>4, <1>6, <1>8 DEF Belongs
<1>10. mem' = Moved(mem, at, g, from, n)
  BY <1>1, <1>4, <1>5, <1>6, <1>7
<1>11. req.dst <= at /\ at + n <= req.dst + req.size
  BY <1>3, <1>4, <1>5
<1>12. Writes(at, n)
  BY <1>2, <1>3, <1>9, <1>10, <1>11, WrittenRight
<1> QED BY <1>4, <1>5, <1>12

LEMMA StoreKeepsData ==
    ASSUME CopyInv, Store
    PROVE  DataInv'
<1>1. /\ pc = "store" /\ flight[active] = NoTransfer
      /\ UNCHANGED <<req, managerVars, flight>>
  BY DEF Store, Waited
<1>2. /\ LoopInv /\ DataTypes /\ JobRight /\ FlightsApart /\ MemoryRight
      /\ pc \in CopyPlaces /\ pc # "drain" /\ pc # "refill" /\ active \in Buffers
      /\ \A b \in Buffers : BufferRight(b)
  BY <1>1 DEF CopyInv, DataInv, BuffersRight, LoopInv, Types, CopyPlaces
<1>3. PICK at \in Nat : \E n \in Nat : at = job.dst /\ n = job.chunk /\ Writes(at, n)
  BY StoreWrites
<1>4. PICK n \in Nat : at = job.dst /\ n = job.chunk /\ Writes(at, n)
  BY <1>3
<1>5. PICK p \in Buffers : p = passive
  BY <1>2, PassiveBuffer
<1>6. p # active /\ \A b \in Buffers : b # p => b = active
  BY <1>2, <1>5, PassiveBuffer
<1>7. /\ req.dst \in Nat /\ req.src \in Nat /\ req.size \in Nat /\ offset \in Nat
      /\ job.dst \in Nat /\ job.src \in Nat /\ job.left \in Nat /\ job.chunk \in Nat
      /\ job.chunk > 0 /\ job.chunk <= job.left
      /\ req.dst <= job.dst /\ req.src <= job.src
      /\ job.src = req.src + (job.dst - req.dst)
      /\ job.dst + job.left = req.dst + offset
      /\ job.src + job.left <= req.src + req.size
  BY <1>2, JobFacts
<1>8. Issued = at /\ Issued \in Nat
  BY <1>1, <1>2, <1>4, IssuedFacts
<1>9. FlightsApart' /\ \A a : Carried(a) => Carried(a)'
  BY <1>1, <1>2, SameFlights
<1>10. ASSUME pc' # "idle", Issued' = job.dst + job.chunk
       PROVE  MemoryRight'
  <2>1. /\ \A a \in Cells : mem'[a] = mem[a] \/ mem'[a] = Contract!Result(req)[a]
        /\ \A a \in Cells : a \in req.dst .. Issued' - 1 /\ a \notin req.dst .. Issued - 1 =>
             mem'[a] = Contract!Result(req)[a]
    <3>1. Issued' = at + n /\ req.dst \in Nat /\ Cells = 0 .. Top
      BY <1>4, <1>7, <1>10, BlockSizeFacts
    <3>2. \A a \in at .. at + n - 1 : mem'[a] = Contract!Result(req)[a]
      BY <1>4 DEF Writes
    <3>3. \A a \in Nat : a \in req.dst .. Issued' - 1 /\ a \notin req.dst .. Issued - 1 =>
            a \in at .. at + n - 1
      BY <1>8, <3>1
    <3> QED BY <1>4, <3>1, <3>2, <3>3 DEF Writes
  <2>2. pc # "idle" /\ req' = req
    BY <1>1
  <2> QED BY <1>2, <1>8, <1>9, <1>10, <2>1, <2>2, MemoryKept
<1>11. mem' \in [Cells -> Cells \cup {Contract!Fresh}]
  BY <1>4 DEF Writes
<1>12. CASE job.left > job.chunk
  <2>1. job' = Advanced /\ active' = p /\ pc' = "fetch" /\ buffer' = buffer
    BY <1>5, <1>12 DEF Store, Swap, Goto
  <2>2. /\ job' \in [dst : Nat, src : Nat, left : Nat, chunk : Nat,
                     bufSize : 0 .. BlockSize, i : 0 .. Top + 1, j : 0 .. Top + 1]
        /\ job'.dst = job.dst + job.chunk /\ job'.src = job.src + job.chunk
        /\ job'.left = job.left - job.chunk /\ job'.chunk = NextChunk
        /\ job'.bufSize = job.bufSize
    BY <1>2, <2>1, AdvancedFields
  <2>3. /\ NextChunk \in Nat /\ NextChunk <= BlockSize
        /\ NextChunk <= job.left - job.chunk /\ NextChunk <= job.bufSize /\ NextChunk > 0
    BY <1>2, <1>7, <1>12, NextChunkFacts, BlockSizeFacts
  <2>4. DataTypes'
    BY <1>1, <1>2, <1>11, <2>1, <2>2 DEF DataTypes
  <2>5. JobRight'
    BY <1>1, <1>7, <2>1, <2>2, <2>3 DEF JobRight, CopyPlaces, LoadPlaces, managerVars
  <2>6. BuffersRight'
    <3>1. BufferRight(p)'
      <4>1. Loads(p) /\ Loads(p)'
        BY <1>1, <1>6, <1>12, <2>1 DEF Loads
      <4>2. LoadFrom(p)' = LoadFrom(p) /\ LoadSize(p)' = LoadSize(p)
        BY <1>1, <1>6, <2>1, <2>2 DEF LoadFrom, LoadSize
      <4> QED BY <1>1, <1>2, <2>1, <4>1, <4>2, LoadsStill
    <3>2. ASSUME NEW b \in Buffers, b = active
          PROVE  BufferRight(b)'
      BY <1>1, <1>6, <2>1, <3>2, QuietBuffer DEF Loads
    <3> QED BY <1>6, <3>1, <3>2 DEF BuffersRight
  <2>7. MemoryRight'
    BY <1>10, <2>1, <2>2 DEF Issued, CopyPlaces
  <2> QED BY <1>9, <2>4, <2>5, <2>6, <2>7 DEF DataInv
<1>13. CASE ~(job.left > job.chunk)
  <2>1. job' = NoJob /\ buffer' = [b \in Buffers |-> Empty] /\ active' = "x" /\ pc' = "memcpy"
    BY <1>13 DEF Store, EndJob
  <2>2. \A b \in Buffers : flight'[b] = NoTransfer
    <3>1. flight[p] = NoTransfer
      BY <1>1, <1>2, <1>6, <1>13 DEF BufferRight, Loads, SendPlaces, Waited
    <3> QED BY <1>1, <1>6, <3>1
  <2>3. BlockSize \in Nat \ {0} /\ Top \in Nat /\ Cells = 0 .. Top
    BY BlockSizeFacts
  <2>4. DataTypes'
    BY <1>1, <1>2, <1>11, <2>1, <2>3 DEF DataTypes, NoJob, Empty, Buffers
  <2>5. JobRight'
    BY <2>1 DEF JobRight, CopyPlaces
  <2>6. BuffersRight'
    BY <2>1, <2>2, QuietAfter
  <2>7. MemoryRight'
    <3>1. Issued' = req.dst + offset
      BY <1>1, <2>1 DEF Issued, CopyPlaces, managerVars
    <3>2. job.dst + job.chunk = req.dst + offset
      <4>1. job.left \in Nat /\ job.chunk \in Nat /\ job.chunk <= job.left
        BY <1>7
      <4>2. job.chunk = job.left
        BY <1>13, <4>1
      <4> QED BY <1>7, <4>2
    <3> QED BY <1>10, <2>1, <3>1, <3>2
  <2> QED BY <1>9, <2>4, <2>5, <2>6, <2>7 DEF DataInv
<1> QED BY <1>12, <1>13

\* The first n bytes of the chunk are in buffer b, or on their way to it; other
\* transfers go on.
TakesBytes(b, n) ==
    /\ flight' \in [Buffers -> [way : {"none", "fromObject", "toObject"}, cell : 0 .. Top,
                                slot : 0 .. BlockSize - 1, size : 0 .. BlockSize]]
    /\ \A c \in Buffers : c # b => flight'[c] = flight[c]
    /\ \A a : Carried(a) => Carried(a)'
    /\ FlightsApart'
    /\ \E s \in Nat : s = job.src /\ Loading(b, s, n)'

(* The first part of a chunk is taken from its block.                        *)
LEMMA FirstTaken ==
    ASSUME CopyInv, pc \in {"objectToObject", "reload"}, NEW b \in Buffers,
           StartTransfer(b, "fromObject", job.src, 0, FirstPart), buffer' = buffer, req' = req
    PROVE  \E n \in Nat : n = FirstPart /\ n <= job.chunk /\ TakesBytes(b, n)
<1>1. /\ LoopInv /\ DataTypes /\ JobRight /\ pc \in LoadPlaces /\ pc \in CopyPlaces
      /\ pc # "drain"
  BY DEF CopyInv, DataInv, LoadPlaces, CopyPlaces
<1>2. /\ job.src \in Nat /\ job.chunk \in Nat /\ job.chunk <= BlockSize
      /\ job.left \in Nat /\ job.chunk <= job.left
      /\ req.src <= job.src /\ job.src + job.left <= req.src + req.size
      /\ req.src \in Nat /\ req.size \in Nat /\ BlockSize \in Nat
  BY <1>1, JobFacts, BlockSizeFacts
<1>3. FirstPart \in 1 .. job.chunk
  BY <1>1, FirstPartFacts
<1>4. PICK s \in Nat : s = job.src
  BY <1>2
<1>5. PICK n \in Nat \ {0} : n = FirstPart
  BY <1>2, <1>3
<1>6. PICK slot \in Nat : slot = 0
  OBVIOUS
<1>7. n \in Nat /\ n <= job.chunk /\ req.src <= s /\ s + n <= req.src + req.size /\ n <= BlockSize
  BY <1>2, <1>3, <1>4, <1>5
<1>8. s = s + slot /\ n = slot + n /\ \A k \in 0 .. slot - 1 : buffer[b][k] = s + k
  BY <1>6
<1>9. StartTransfer(b, "fromObject", s, slot, n)
  BY <1>4, <1>5, <1>6
<1>10. TakesBytes(b, n)
  BY <1>1, <1>4, <1>7, <1>8, <1>9, StartLoads DEF TakesBytes
<1> QED BY <1>5, <1>7, <1>10

(* The rest is taken from the next block.                                    *)
LEMMA RestTaken ==
    ASSUME CopyInv, pc \in {"secondFetch", "secondReload"},
           NEW b \in Buffers, Loads(b),
           StartTransfer(b, "fromObject", job.src + FirstPart, FirstPart, job.chunk - FirstPart),
           buffer' = buffer, req' = req
    PROVE  \E n \in Nat : n = job.chunk /\ TakesBytes(b, n)
<1>1. /\ LoopInv /\ DataTypes /\ JobRight /\ pc \in LoadPlaces /\ pc \in CopyPlaces
      /\ pc # "drain" /\ BufferRight(b)
  BY DEF CopyInv, DataInv, BuffersRight, LoadPlaces, CopyPlaces
<1>2. /\ job.src \in Nat /\ job.chunk \in Nat /\ job.chunk <= BlockSize
      /\ job.left \in Nat /\ job.chunk <= job.left
      /\ req.src <= job.src /\ job.src + job.left <= req.src + req.size
      /\ req.src \in Nat /\ req.size \in Nat /\ BlockSize \in Nat
  BY <1>1, JobFacts, BlockSizeFacts
<1>3. FirstPart \in 1 .. job.chunk /\ FirstPart < job.chunk
  BY <1>1, FirstPartFacts DEF JobRight
<1>4. PICK s \in Nat : s = job.src
  BY <1>2
<1>5. PICK slot \in Nat : slot = FirstPart
  BY <1>2, <1>3
<1>6. PICK n \in Nat \ {0} : n = job.chunk - FirstPart
  BY <1>2, <1>3
<1>7. PICK m \in Nat : m = job.chunk
  BY <1>2
<1>8. PICK cell \in Nat : cell = s + slot
  OBVIOUS
<1>9. m = slot + n /\ req.src <= s /\ s + m <= req.src + req.size /\ m <= BlockSize
  BY <1>2, <1>3, <1>4, <1>5, <1>6, <1>7
<1>10. flight[b] = NoTransfer
  BY DEF StartTransfer, Waited
<1>11. \A k \in 0 .. slot - 1 : buffer[b][k] = s + k
  <2>1. LoadSize(b) = slot
    BY <1>5 DEF LoadSize
  <2>2. LoadFrom(b) = s
    BY <1>4 DEF LoadFrom, Loads
  <2> QED BY <1>1, <1>10, <2>1, <2>2, Loaded
<1>12. StartTransfer(b, "fromObject", cell, slot, n)
  BY <1>4, <1>5, <1>6, <1>8
<1>13. TakesBytes(b, m)
  BY <1>1, <1>4, <1>8, <1>9, <1>11, <1>12, StartLoads DEF TakesBytes
<1> QED BY <1>7, <1>13

(* A step that takes bytes of the source into buffer b, and perhaps makes it *)
(* the active one.                                                           *)
LEMMA TakingKeepsData ==
    ASSUME CopyInv, NEW b \in Buffers, NEW n \in Nat, TakesBytes(b, n),
           pc \in {"objectToObject", "secondFetch", "reload", "secondReload"},
           pc' \in {"secondFetch", "secondReload", "forward"},
           UNCHANGED <<mem, req, managerVars, job, buffer>>,
           pc' # "forward" => FirstPart < job.chunk,
           Loads(b)', LoadFrom(b)' = job.src, LoadSize(b)' = n,
           \A c \in Buffers : c # b => ~Loads(c) /\ ~Loads(c)',
           pc' = "secondFetch" => pc = "objectToObject"
    PROVE  DataInv'
<1>1. /\ LoopInv /\ DataTypes /\ JobRight /\ MemoryRight
      /\ pc \in CopyPlaces /\ pc \notin {"drain", "refill"}
      /\ \A c \in Buffers : BufferRight(c)
  BY DEF CopyInv, DataInv, BuffersRight, CopyPlaces
<1>2. DataTypes'
  BY <1>1 DEF DataTypes, TakesBytes
<1>3. FirstPart' = FirstPart
  BY DEF FirstPart, managerVars
<1>4. JobRight'
  BY <1>1, <1>3 DEF JobRight, CopyPlaces, LoadPlaces, managerVars
<1>5. Issued = job.dst /\ Issued' = job.dst /\ Issued \in Nat /\ req.dst \in Nat
  <2>1. Issued = job.dst /\ Issued \in Nat /\ req.dst \in Nat
    BY <1>1, IssuedFacts, JobFacts
  <2>2. Issued' = job.dst
    BY DEF Issued, CopyPlaces
  <2> QED BY <2>1, <2>2
<1>6. BuffersRight'
  <2>1. BufferRight(b)'
    BY LoadsNow DEF TakesBytes
  <2>2. ASSUME NEW c \in Buffers, c # b
        PROVE  BufferRight(c)'
    <3>1. flight'[c] = flight[c] /\ buffer'[c] = buffer[c]
      BY <2>2 DEF TakesBytes
    <3>2. CASE pc' \in SendPlaces
      BY <1>1, <1>5, <2>2, <3>1, <3>2, IdleStill
    <3>3. CASE pc' \notin SendPlaces
      <4>1. pc = "objectToObject"
        BY <3>3 DEF SendPlaces
      <4>2. flight[c] = NoTransfer
        BY <4>1, QuietFlights DEF QuietPlaces
      <4> QED BY <2>2, <3>1, <4>2, QuietBuffer
    <3> QED BY <3>2, <3>3
  <2> QED BY <2>1, <2>2 DEF BuffersRight
<1>7. FlightsApart' /\ \A a : Carried(a) => Carried(a)'
  BY DEF TakesBytes
<1>8. MemoryRight'
  <2>1. pc # "idle" /\ pc' # "idle" /\ req' = req /\ mem' = mem
    OBVIOUS
  <2> QED BY <1>1, <1>5, <1>7, <2>1, MemoryStill
<1> QED BY <1>2, <1>4, <1>6, <1>7, <1>8 DEF DataInv

LEMMA LoadKeepsData ==
    ASSUME CopyInv, Load \/ LoadRest
    PROVE  DataInv'
<1>1. active \in Buffers
  BY DEF CopyInv, LoopInv, Types
<1>2. PICK b \in Buffers : b = active
  BY <1>1
<1>3. UNCHANGED <<mem, req, managerVars, job, buffer, active>>
  BY DEF Load, LoadRest, LoadFirst, LoadSecond
<1>4. FirstPart' = FirstPart
  BY <1>3 DEF FirstPart, managerVars
<1>5. CASE Load
  <2>1. /\ pc = "objectToObject" /\ StartTransfer(b, "fromObject", job.src, 0, FirstPart)
        /\ pc' = IF FirstPart < job.chunk THEN "secondFetch" ELSE "forward"
    BY <1>2, <1>5 DEF Load, LoadFirst, Goto
  <2>2. PICK n \in Nat : n = FirstPart /\ n <= job.chunk /\ TakesBytes(b, n)
    BY <1>3, <2>1, FirstTaken
  <2>3. job.chunk \in Nat
    BY DEF CopyInv, DataInv, DataTypes
  <2>4. Loads(b)' /\ LoadFrom(b)' = job.src /\ LoadSize(b)' = n
    BY <1>2, <1>3, <1>4, <2>1, <2>2, <2>3 DEF Loads, LoadFrom, LoadSize
  <2>5. \A c \in Buffers : c # b => ~Loads(c) /\ ~Loads(c)'
    BY <1>2, <1>3, <2>1 DEF Loads
  <2> QED BY <1>3, <2>1, <2>2, <2>4, <2>5, TakingKeepsData
<1>6. CASE LoadRest
  <2>1. /\ pc = "secondFetch" /\ pc' = "forward"
        /\ StartTransfer(b, "fromObject", job.src + FirstPart, FirstPart, job.chunk - FirstPart)
    BY <1>2, <1>6 DEF LoadRest, LoadSecond, Goto
  <2>2. Loads(b)
    BY <1>2, <2>1 DEF Loads
  <2>3. PICK n \in Nat : n = job.chunk /\ TakesBytes(b, n)
    BY <1>3, <2>1, <2>2, RestTaken
  <2>4. Loads(b)' /\ LoadFrom(b)' = job.src /\ LoadSize(b)' = n
    BY <1>2, <1>3, <2>1, <2>3 DEF Loads, LoadFrom, LoadSize
  <2>5. \A c \in Buffers : c # b => ~Loads(c) /\ ~Loads(c)'
    BY <1>2, <1>3, <2>1 DEF Loads
  <2> QED BY <1>3, <2>1, <2>3, <2>4, <2>5, TakingKeepsData
<1> QED BY <1>5, <1>6

LEMMA ReloadKeepsData ==
    ASSUME CopyInv, Reload \/ ReloadRest
    PROVE  DataInv'
<1>1. active \in Buffers
  BY DEF CopyInv, LoopInv, Types
<1>2. PICK b \in Buffers : b = passive
  BY <1>1, PassiveBuffer
<1>3. b # active /\ \A c \in Buffers : c # b => c = active
  BY <1>1, <1>2, PassiveBuffer
<1>4. UNCHANGED <<mem, req, managerVars, job, buffer>>
  BY DEF Reload, ReloadRest, LoadFirst, LoadSecond
<1>5. FirstPart' = FirstPart
  BY <1>4 DEF FirstPart, managerVars
<1>6. CASE Reload
  <2>1. /\ pc = "reload" /\ StartTransfer(b, "fromObject", job.src, 0, FirstPart)
        /\ pc' = IF FirstPart < job.chunk THEN "secondReload" ELSE "forward"
        /\ active' = IF FirstPart < job.chunk THEN active ELSE b
    BY <1>2, <1>6 DEF Reload, LoadFirst, Goto, Swap
  <2>2. PICK n \in Nat : n = FirstPart /\ n <= job.chunk /\ TakesBytes(b, n)
    BY <1>4, <2>1, FirstTaken
  <2>3. job.chunk \in Nat
    BY DEF CopyInv, DataInv, DataTypes
  <2>4. Loads(b)' /\ LoadFrom(b)' = job.src /\ LoadSize(b)' = n
    BY <1>3, <1>4, <1>5, <2>1, <2>2, <2>3 DEF Loads, LoadFrom, LoadSize
  <2>5. \A c \in Buffers : c # b => ~Loads(c) /\ ~Loads(c)'
    BY <1>3, <2>1 DEF Loads
  <2>6. pc' # "forward" => FirstPart < job.chunk
    BY <2>1
  <2> QED BY <1>4, <2>1, <2>2, <2>4, <2>5, <2>6, TakingKeepsData
<1>7. CASE ReloadRest
  <2>1. /\ pc = "secondReload" /\ pc' = "forward" /\ active' = b
        /\ StartTransfer(b, "fromObject", job.src + FirstPart, FirstPart, job.chunk - FirstPart)
    BY <1>2, <1>7 DEF ReloadRest, LoadSecond, Goto, Swap
  <2>2. Loads(b)
    BY <1>3, <2>1 DEF Loads
  <2>3. PICK n \in Nat : n = job.chunk /\ TakesBytes(b, n)
    BY <1>4, <2>1, <2>2, RestTaken
  <2>4. Loads(b)' /\ LoadFrom(b)' = job.src /\ LoadSize(b)' = n
    BY <1>4, <2>1, <2>3 DEF Loads, LoadFrom, LoadSize
  <2>5. \A c \in Buffers : c # b => ~Loads(c) /\ ~Loads(c)'
    BY <1>3, <2>1 DEF Loads
  <2> QED BY <1>4, <2>1, <2>3, <2>4, <2>5, TakingKeepsData
<1> QED BY <1>6, <1>7

LEMMA ForwardKeepsData ==
    ASSUME CopyInv, Forward
    PROVE  DataInv'
<1>1. /\ pc = "forward" /\ pc' = IF job'.left > 0 THEN "reload" ELSE "drain"
      /\ StartTransfer(active, "toObject", job.dst, 0, job.chunk) /\ job' = Advanced
      /\ UNCHANGED <<mem, req, managerVars, buffer, active>>
  BY DEF Forward, Goto
<1>2. /\ LoopInv /\ DataTypes /\ JobRight /\ pc \in CopyPlaces /\ pc # "drain"
  BY <1>1 DEF CopyInv, DataInv, CopyPlaces
<1>3. /\ job' \in [dst : Nat, src : Nat, left : Nat, chunk : Nat,
                   bufSize : 0 .. BlockSize, i : 0 .. Top + 1, j : 0 .. Top + 1]
      /\ job'.dst = job.dst + job.chunk /\ job'.src = job.src + job.chunk
      /\ job'.left = job.left - job.chunk /\ job'.chunk = NextChunk
      /\ job'.bufSize = job.bufSize
  BY <1>1, <1>2, AdvancedFields
<1>4. /\ req.dst \in Nat /\ req.src \in Nat /\ offset \in Nat
      /\ job.dst \in Nat /\ job.src \in Nat /\ job.left \in Nat /\ job.chunk \in Nat
      /\ job.chunk > 0 /\ job.chunk <= job.left
      /\ req.dst <= job.dst /\ job.src = req.src + (job.dst - req.dst)
      /\ job.dst + job.left = req.dst + offset
  BY <1>2, JobFacts
<1>5. /\ NextChunk \in Nat /\ NextChunk <= job.left - job.chunk /\ NextChunk <= job.bufSize
      /\ job.left > job.chunk => NextChunk > 0
  BY <1>2, <1>4, NextChunkFacts, BlockSizeFacts
<1>6. srcObject # NoObject /\ srcObject.start <= job'.src
  <2>1. srcObject # NoObject /\ srcObject.start <= job.src
    BY <1>1, <1>2 DEF JobRight, LoadPlaces
  <2>2. srcObject.start \in Nat
    BY <1>2, <2>1, ObjectFacts DEF LoopInv, Types
  <2> QED BY <1>3, <1>4, <2>1, <2>2
<1>7. JobRight'
  BY <1>1, <1>3, <1>4, <1>5, <1>6 DEF JobRight, CopyPlaces, LoadPlaces, managerVars
<1>8. Issued' = job.dst + job.chunk
  BY <1>1, <1>3 DEF Issued, CopyPlaces
<1>9. /\ flight' \in [Buffers -> [way : {"none", "fromObject", "toObject"}, cell : 0 .. Top,
                                  slot : 0 .. BlockSize - 1, size : 0 .. BlockSize]]
      /\ BuffersRight' /\ FlightsApart' /\ MemoryRight'
  BY <1>1, <1>8, SendKeeps
<1>10. DataTypes'
  BY <1>1, <1>2, <1>3, <1>9 DEF DataTypes
<1> QED BY <1>7, <1>9, <1>10 DEF DataInv

(* A transfer takes effect.                                                  *)
LEMMA TransferFacts ==
    ASSUME CopyInv, NEW b \in Buffers, Transfer(b)
    PROVE  /\ pc \in CopyPlaces /\ req.call = "memcpy"
           /\ flight' = [flight EXCEPT ![b] = NoTransfer]
           /\ UNCHANGED <<req, pc, managerVars, job, active>>
           /\ \/ /\ Outgoing(b) /\ ~Loads(b) /\ buffer' = buffer
                 /\ mem' = Moved(mem, flight[b].cell, buffer[b], flight[b].slot, flight[b].size)
              \/ /\ Incoming(b) /\ Loads(b) /\ mem' = mem
                 /\ buffer' = [buffer EXCEPT ![b] =
                                 Moved(@, flight[b].slot, mem, flight[b].cell, flight[b].size)]
<1>1. /\ flight[b] # NoTransfer /\ flight' = [flight EXCEPT ![b] = NoTransfer]
      /\ UNCHANGED <<req, pc, managerVars, job, active>>
      /\ IF flight[b].way = "toObject"
         THEN /\ mem' = Moved(mem, flight[b].cell, buffer[b], flight[b].slot, flight[b].size)
              /\ UNCHANGED buffer
         ELSE /\ buffer' = [buffer EXCEPT ![b] =
                              Moved(@, flight[b].slot, mem, flight[b].cell, flight[b].size)]
              /\ UNCHANGED mem
  BY DEF Transfer, Waited
<1>2. /\ LoopInv /\ DataTypes /\ JobRight /\ BufferRight(b)
  BY DEF CopyInv, DataInv, BuffersRight
<1>3. CASE Loads(b)
  <2>1. Incoming(b) /\ flight[b].way = "fromObject"
    BY <1>1, <1>2, <1>3 DEF BufferRight, Loading, Waited, Incoming
  <2>2. pc \in CopyPlaces
    BY <1>3 DEF Loads, CopyPlaces
  <2> QED BY <1>1, <1>2, <1>3, <2>1, <2>2, JobFacts
<1>4. CASE ~Loads(b)
  <2>1. Outgoing(b) /\ flight[b].way = "toObject" /\ pc \in SendPlaces
    BY <1>1, <1>2, <1>4 DEF BufferRight, Waited, Outgoing
  <2>2. pc \in CopyPlaces
    BY <2>1 DEF SendPlaces, CopyPlaces
  <2> QED BY <1>1, <1>2, <1>4, <2>1, <2>2, JobFacts
<1> QED BY <1>3, <1>4

\* A transfer of buffer b to an object takes effect.
SendsBytes(b) ==
    /\ Outgoing(b)
    /\ mem' = Moved(mem, flight[b].cell, buffer[b], flight[b].slot, flight[b].size)

(* A transfer to an object writes what belongs there.                        *)
LEMMA SentWrites ==
    ASSUME CopyInv, pc \in CopyPlaces, NEW b \in Buffers, SendsBytes(b)
    PROVE  \E at, n \in Nat : at = flight[b].cell /\ n = flight[b].size /\ Writes(at, n)
<1>1. LoopInv /\ DataTypes /\ JobRight /\ pc # "idle"
  BY DEF CopyInv, DataInv, CopyPlaces
<1>2. /\ req.dst \in Nat /\ req.src \in Nat /\ req.size \in Nat /\ req.call = "memcpy"
      /\ offset \in 0 .. req.size /\ Issued \in Nat /\ Issued <= req.dst + offset
  BY <1>1, JobFacts, IssuedFacts
<1>3. /\ flight[b].cell \in Nat /\ flight[b].size \in 0 .. BlockSize
      /\ buffer[b] \in [0 .. BlockSize - 1 -> Cells] /\ BlockSize \in Nat /\ Cells = 0 .. Top
      /\ Top \in Nat
  <2>1. /\ flight \in [Buffers -> [way : {"none", "fromObject", "toObject"}, cell : 0 .. Top,
                                   slot : 0 .. BlockSize - 1, size : 0 .. BlockSize]]
        /\ buffer \in [Buffers -> [0 .. BlockSize - 1 -> Cells]]
    BY <1>1 DEF DataTypes
  <2>2. flight[b].cell \in 0 .. Top /\ flight[b].size \in 0 .. BlockSize
    BY <2>1
  <2> QED BY <2>1, <2>2, BlockSizeFacts
<1>4. PICK at \in Nat : at = flight[b].cell
  BY <1>3
<1>5. PICK n \in Nat : n = flight[b].size
  BY <1>3
<1>6. PICK from \in Nat : from = 0
  OBVIOUS
<1>7. PICK g : g = buffer[b]
  OBVIOUS
<1>8. /\ req.dst <= at /\ at + n <= Issued /\ flight[b].slot = 0
      /\ \A k \in 0 .. n - 1 : g[k] + req.dst = at + k + req.src
  BY <1>4, <1>5, <1>7 DEF SendsBytes, Outgoing
<1>9. \A k \in 0 .. n - 1 : g[k] \in Nat
  BY <1>3, <1>5, <1>7
<1>10. Belongs(g, from, at, n)
  BY <1>6, <1>8, <1>9 DEF Belongs
<1>11. mem' = Moved(mem, at, g, from, n)
  BY <1>4, <1>5, <1>6, <1>7, <1>8 DEF SendsBytes
<1>12. at + n <= req.dst + req.size
  BY <1>2, <1>8
<1>13. Writes(at, n)
  BY <1>1, <1>2, <1>8, <1>10, <1>11, <1>12, WrittenRight
<1> QED BY <1>4, <1>5, <1>13

(* A transfer from an object leaves bytes of the source in the buffer.       *)
LEMMA TakenLoads ==
    ASSUME CopyInv, pc \in CopyPlaces, NEW b \in Buffers, Incoming(b), Loads(b),
           buffer' = [buffer EXCEPT ![b] =
                        Moved(@, flight[b].slot, mem, flight[b].cell, flight[b].size)],
           flight'[b] = NoTransfer, LoadFrom(b)' = LoadFrom(b), LoadSize(b)' = LoadSize(b), Loads(b)'
    PROVE  /\ buffer' \in [Buffers -> [0 .. BlockSize - 1 -> Cells]]
           /\ \A c \in Buffers : c # b => buffer'[c] = buffer[c]
           /\ BufferRight(b)'
<1>1. LoopInv /\ DataTypes /\ JobRight /\ BufferRight(b) /\ pc # "drain"
  BY DEF CopyInv, DataInv, BuffersRight, Loads
<1>2. /\ flight[b].cell \in Nat /\ flight[b].slot \in Nat /\ flight[b].size \in Nat
      /\ flight[b].slot + flight[b].size <= BlockSize /\ flight[b].way = "fromObject"
      /\ req.src <= flight[b].cell /\ flight[b].cell + flight[b].size <= req.src + req.size
      /\ BlockSize \in Nat
  BY <1>1, BlockSizeFacts DEF DataTypes, Incoming
<1>3. PICK slot \in Nat : slot = flight[b].slot
  BY <1>2
<1>4. PICK from \in Nat : from = flight[b].cell
  BY <1>2
<1>5. PICK size \in Nat : size = flight[b].size
  BY <1>2
<1>6. Untouched(from, size)
  BY <1>2, <1>4, <1>5, SourceBytes
<1>7. buffer' = [buffer EXCEPT ![b] = Moved(@, slot, mem, from, size)]
  BY <1>3, <1>4, <1>5
<1>8. Fills(b, slot, from, size)
  BY <1>1, <1>6, <1>7, FilledRight
<1>9. PICK s \in Nat : \E n \in Nat : s = LoadFrom(b) /\ n = LoadSize(b) /\ Loading(b, s, n)
  BY <1>1 DEF BufferRight
<1>10. PICK n \in Nat : s = LoadFrom(b) /\ n = LoadSize(b) /\ Loading(b, s, n)
  BY <1>9
<1>11. n <= BlockSize
  <2>1. pc \in {"secondFetch", "secondReload"} => n = FirstPart /\ FirstPart \in Nat /\ FirstPart < job.chunk
    BY <1>1, <1>10 DEF JobRight, LoadSize
  <2>2. pc \notin {"secondFetch", "secondReload"} => n = job.chunk \/ n = NextChunk
    BY <1>10 DEF LoadSize
  <2>3. job.chunk \in Nat /\ job.chunk <= BlockSize /\ NextChunk \in Nat /\ NextChunk <= BlockSize
    BY <1>1, JobFacts, NextChunkFacts, BlockSizeFacts
  <2> QED BY <1>2, <2>1, <2>2, <2>3
<1>12. from = s + slot
  BY <1>2, <1>3, <1>4, <1>10 DEF Loading, Waited, NoTransfer
<1>13. \A k \in 0 .. n - 1 : buffer'[b][k] = s + k
  <2> SUFFICES ASSUME NEW k \in 0 .. n - 1
               PROVE  buffer'[b][k] = s + k
    OBVIOUS
  <2>1. k \in 0 .. BlockSize - 1
    BY <1>2, <1>11
  <2>2. buffer[b][k] = s + k \/ k \in slot .. slot + size - 1
    BY <1>3, <1>5, <1>10 DEF Loading, Arrives
  <2> QED BY <1>8, <1>12, <2>1, <2>2 DEF Fills
<1>14. Loading(b, s, n)'
  BY <1>13 DEF Loading, Waited
<1>15. BufferRight(b)'
  BY <1>10, <1>14, LoadsNow
<1> QED BY <1>8, <1>15 DEF Fills

LEMMA TransferKeepsData ==
    ASSUME CopyInv, NEW b \in Buffers, Transfer(b)
    PROVE  DataInv'
<1>1. /\ pc \in CopyPlaces /\ flight' = [flight EXCEPT ![b] = NoTransfer]
      /\ UNCHANGED <<req, pc, managerVars, job, active>>
  BY TransferFacts
<1>2. /\ LoopInv /\ DataTypes /\ JobRight /\ FlightsApart /\ MemoryRight /\ pc # "idle"
      /\ \A c \in Buffers : BufferRight(c)
  BY <1>1 DEF CopyInv, DataInv, BuffersRight, CopyPlaces
<1>3. /\ flight'[b] = NoTransfer /\ \A c \in Buffers : c # b => flight'[c] = flight[c]
      /\ flight' \in [Buffers -> [way : {"none", "fromObject", "toObject"}, cell : 0 .. Top,
                                  slot : 0 .. BlockSize - 1, size : 0 .. BlockSize]]
  <2>1. flight \in [Buffers -> [way : {"none", "fromObject", "toObject"}, cell : 0 .. Top,
                                slot : 0 .. BlockSize - 1, size : 0 .. BlockSize]]
    BY <1>2 DEF DataTypes
  <2>2. NoTransfer \in [way : {"none", "fromObject", "toObject"}, cell : 0 .. Top,
                        slot : 0 .. BlockSize - 1, size : 0 .. BlockSize]
    BY BlockSizeFacts DEF NoTransfer
  <2> QED BY <1>1, <2>1, <2>2
<1>4. JobRight'
  BY <1>1, <1>2 DEF JobRight, FirstPart, managerVars
<1>5. Issued' = Issued /\ Issued \in Nat /\ req.dst \in Nat
  <2>1. Issued \in Nat /\ req.dst \in Nat
    BY <1>1, <1>2, IssuedFacts, JobFacts
  <2> QED BY <1>1, <2>1 DEF Issued, managerVars
<1>6. \A c \in Buffers : /\ Loads(c)' = Loads(c)
                         /\ LoadFrom(c)' = LoadFrom(c) /\ LoadSize(c)' = LoadSize(c)
  BY <1>1 DEF Loads, LoadFrom, LoadSize, FirstPart, NextChunk, managerVars
<1>7. ASSUME NEW c \in Buffers, c # b, buffer'[c] = buffer[c]
      PROVE  BufferRight(c)'
  <2>1. flight'[c] = flight[c] /\ req' = req
    BY <1>1, <1>3, <1>7
  <2>2. CASE Loads(c)
    <3>1. Loads(c)' /\ LoadFrom(c)' = LoadFrom(c) /\ LoadSize(c)' = LoadSize(c)
      BY <1>6, <2>2
    <3> QED BY <1>2, <1>7, <2>1, <2>2, <3>1, LoadsStill
  <2>3. CASE ~Loads(c)
    <3>1. ~Loads(c)'
      BY <1>6, <2>3
    <3>2. Waited(c) \/ pc' \in SendPlaces
      BY <1>1, <1>2, <2>3 DEF BufferRight
    <3>3. Issued' \in Nat /\ Issued <= Issued'
      BY <1>5
    <3> QED BY <1>2, <1>5, <1>7, <2>1, <2>3, <3>1, <3>2, <3>3, IdleStill
  <2> QED BY <2>2, <2>3
<1>8. FlightsApart'
  BY <1>2, <1>3 DEF FlightsApart, NoTransfer
<1>9. \A a : Carried(a) => \/ Carried(a)'
                           \/ /\ flight[b].way = "toObject"
                              /\ a \in flight[b].cell .. flight[b].cell + flight[b].size - 1
  BY <1>3 DEF Carried, Contract!Bytes
<1>10. CASE /\ Outgoing(b) /\ ~Loads(b) /\ buffer' = buffer
            /\ mem' = Moved(mem, flight[b].cell, buffer[b], flight[b].slot, flight[b].size)
  <2>1. SendsBytes(b)
    BY <1>10 DEF SendsBytes
  <2>2. PICK at \in Nat : \E n \in Nat : at = flight[b].cell /\ n = flight[b].size /\ Writes(at, n)
    BY <1>1, <2>1, SentWrites
  <2>3. PICK n \in Nat : at = flight[b].cell /\ n = flight[b].size /\ Writes(at, n)
    BY <2>2
  <2>4. DataTypes'
    BY <1>1, <1>2, <1>3, <1>10, <2>3 DEF DataTypes, Writes
  <2>5. BufferRight(b)'
    BY <1>3, <1>6, <1>10, QuietBuffer
  <2>6. BuffersRight'
    BY <1>7, <1>10, <2>5 DEF BuffersRight
  <2>7. MemoryRight'
    <3>1. /\ \A a \in Cells : mem'[a] = mem[a] \/ mem'[a] = Contract!Result(req)[a]
          /\ \A a \in Cells : Carried(a) => Carried(a)' \/ mem'[a] = Contract!Result(req)[a]
      BY <1>9, <2>3 DEF Writes
    <3>2. pc' # "idle" /\ req' = req
      BY <1>1, <1>2
    <3> QED BY <1>2, <1>5, <3>1, <3>2, MemoryKept
  <2> QED BY <1>4, <1>8, <2>4, <2>6, <2>7 DEF DataInv
<1>11. CASE /\ Incoming(b) /\ Loads(b) /\ mem' = mem
            /\ buffer' = [buffer EXCEPT ![b] =
                            Moved(@, flight[b].slot, mem, flight[b].cell, flight[b].size)]
  <2>1. Loads(b)' /\ LoadFrom(b)' = LoadFrom(b) /\ LoadSize(b)' = LoadSize(b)
    BY <1>6, <1>11
  <2>2. /\ buffer' \in [Buffers -> [0 .. BlockSize - 1 -> Cells]]
        /\ \A c \in Buffers : c # b => buffer'[c] = buffer[c]
        /\ BufferRight(b)'
    BY <1>1, <1>3, <1>11, <2>1, TakenLoads
  <2>3. DataTypes'
    BY <1>1, <1>2, <1>3, <1>11, <2>2 DEF DataTypes
  <2>4. BuffersRight'
    BY <1>7, <2>2 DEF BuffersRight
  <2>5. MemoryRight'
    <3>1. \A a : Carried(a) => Carried(a)'
      BY <1>9, <1>11 DEF Incoming
    <3>2. pc' # "idle" /\ req' = req
      BY <1>1, <1>2
    <3> QED BY <1>2, <1>5, <1>11, <3>1, <3>2, MemoryStill
  <2> QED BY <1>4, <1>8, <2>3, <2>4, <2>5 DEF DataInv
<1> QED BY <1>10, <1>11, TransferFacts

-------------------------------------------------------------------------------
(* The fast path copies block by block.                                      *)

(* The numbers of a copy on the fast path.                                   *)
LEMMA InStepFacts ==
    ASSUME LoopInv, DataTypes, JobRight, pc = "fast"
    PROVE  /\ InStep
           /\ job.dst \in Nat /\ job.src \in Nat /\ job.left \in Nat /\ job.chunk = 0
           /\ req.dst \in Nat /\ req.src \in Nat /\ req.size \in Nat /\ offset \in 0 .. req.size
           /\ job.dst + job.left <= req.dst + req.size /\ req.src <= job.src
           /\ job.src + job.left <= req.src + req.size
           /\ job.dst + job.left <= Top + 1 /\ job.src + job.left <= Top + 1
           /\ req.call = "memcpy"
<1>1. InStep /\ req.call = "memcpy"
  BY DEF JobRight, CopyPlaces, LoopInv, RequestRight
<1>2. /\ job.dst \in Nat /\ job.src \in Nat /\ job.left \in Nat
  BY DEF DataTypes
<1>3. /\ req.dst \in Nat /\ req.src \in Nat /\ req.size \in Nat /\ offset \in 0 .. req.size
      /\ req.dst + req.size <= Top + 1 /\ req.src + req.size <= Top + 1
  BY <1>1, RequestFacts
<1>4. /\ req.dst <= job.dst /\ job.src + req.dst = job.dst + req.src
      /\ job.dst + job.left = req.dst + offset /\ job.chunk = 0
  BY <1>1 DEF InStep
<1>5. Top \in Nat
  BY BlockSizeFacts
<1> QED BY <1>1, <1>2, <1>3, <1>4, <1>5

\* One iteration deals with n bytes, in one or two copies.
Walks(n) ==
    /\ pc = "fast" /\ n = Least(job.left, BlockEnd(dstObject, job.dst))
    /\ UNCHANGED <<req, pc, managerVars, bufferVars>>
    /\ job' = [job EXCEPT !.dst = @ + n, !.src = @ + n, !.left = @ - n, !.i = @ + 1, !.j = @ + 1]
    /\ Writes(job.dst, n)

(* A block of the object on the way of the walk, and the one behind it.      *)
LEMMA InBlockFacts ==
    ASSUME NEW o \in Objects, NEW a \in Nat, o.start <= a, a < End(o),
           NEW k \in Nat, a + k < End(o)
    PROVE  /\ InBlock(o, BlockOf(o, a), a) = a
           /\ BlockEnd(o, a) = k => InBlock(o, BlockOf(o, a) + 1, a + k) = a + k
<1>1. /\ o.start \in Nat /\ o.size \in Nat /\ End(o) = o.start + o.size
      /\ BlockSize \in Nat \ {0}
  BY ObjectsAssumption, BlockSizeFacts DEF End
<1>2. /\ BlockOf(o, a) \in Nat /\ InBlockOffset(o, a) \in 0 .. BlockSize - 1
      /\ a = o.start + BlockOf(o, a) * BlockSize + InBlockOffset(o, a)
  BY BlockOfFacts
<1>3. InBlock(o, BlockOf(o, a), a) = a
  BY <1>1, <1>2 DEF InBlock, InBlockOffset
<1>4. ASSUME BlockEnd(o, a) = k
      PROVE  InBlock(o, BlockOf(o, a) + 1, a + k) = a + k
  <2>1. k = BlockSize - InBlockOffset(o, a)
    <3>1. /\ o.size - (a - o.start) \in Int /\ BlockSize - InBlockOffset(o, a) \in Int
          /\ k = Least(o.size - (a - o.start), BlockSize - InBlockOffset(o, a))
      BY <1>1, <1>2, <1>4 DEF BlockEnd, InBlockOffset
    <3>2. k \in {o.size - (a - o.start), BlockSize - InBlockOffset(o, a)}
      BY <3>1, LeastOfTwo
    <3> QED BY <1>1, <3>2
  <2>2. PICK q \in Nat : q = BlockOf(o, a)
    BY <1>2
  <2>3. (a + k) - o.start = (q + 1) * BlockSize
    BY <1>1, <1>2, <2>1, <2>2
  <2>4. ((a + k) - o.start) % BlockSize = 0
    <3>1. q + 1 \in Nat
      BY <2>2
    <3> QED BY <1>1, <2>3, <3>1, MultipleFacts
  <2> QED BY <1>1, <2>2, <2>3, <2>4 DEF InBlock
<1> QED BY <1>3, <1>4

(* Two copies that follow one another are one.                               *)
LEMMA MovedTwice ==
    ASSUME DOMAIN mem = 0 .. Top, NEW at \in Nat, NEW from \in Nat,
           NEW first \in Nat, NEW n \in Nat, first <= n
    PROVE  Moved(Moved(mem, at, mem, from, first), at + first, mem, from + first, n - first)
             = Moved(mem, at, mem, from, n)
<1> DEFINE one == Moved(mem, at, mem, from, first)
           two == Moved(one, at + first, mem, from + first, n - first)
           all == Moved(mem, at, mem, from, n)
<1>1. one = [x \in 0 .. Top |-> IF x \in at .. at + first - 1 THEN mem[from + (x - at)] ELSE mem[x]]
  BY DEF Moved, Contract!Bytes
<1>2. two = [x \in 0 .. Top |-> IF x \in at + first .. (at + first) + (n - first) - 1
                                THEN mem[(from + first) + (x - (at + first))] ELSE one[x]]
  <2> HIDE DEF one
  <2> QED BY <1>1 DEF Moved, Contract!Bytes
<1>3. all = [x \in 0 .. Top |-> IF x \in at .. at + n - 1 THEN mem[from + (x - at)] ELSE mem[x]]
  BY DEF Moved, Contract!Bytes
<1> HIDE DEF one, two, all
<1>4. ASSUME NEW x \in 0 .. Top
      PROVE  two[x] = all[x]
  <2>1. (from + first) + (x - (at + first)) = from + (x - at)
    BY TopAssumption
  <2>2. CASE x \in at .. at + first - 1
    <3>1. x \notin at + first .. (at + first) + (n - first) - 1 /\ x \in at .. at + n - 1
      BY <2>2
    <3> QED BY <1>1, <1>2, <1>3, <2>2, <3>1
  <2>3. CASE x \in at + first .. at + n - 1
    <3>1. x \in at + first .. (at + first) + (n - first) - 1 /\ x \in at .. at + n - 1
      BY <2>3
    <3> QED BY <1>2, <1>3, <2>1, <3>1
  <2>4. CASE x \notin at .. at + n - 1
    <3>1. x \notin at + first .. (at + first) + (n - first) - 1 /\ x \notin at .. at + first - 1
      BY <2>4
    <3> QED BY <1>1, <1>2, <1>3, <2>4, <3>1
  <2> QED BY <2>2, <2>3, <2>4
<1>5. two = all
  BY <1>2, <1>3, <1>4
<1> QED BY <1>5 DEF one, two, all

(* They lie in the objects.                                                  *)
LEMMA InStepObjects ==
    ASSUME LoopInv, DataTypes, JobRight, pc = "fast"
    PROVE  /\ dstObject \in Objects /\ dstObject.start <= job.dst /\ dstObject.start \in Nat
           /\ job.dst + job.left <= End(dstObject) /\ End(dstObject) \in Nat
           /\ srcObject \in Objects /\ srcObject.start <= job.src /\ srcObject.start \in Nat
           /\ job.src + job.left <= End(srcObject) /\ End(srcObject) \in Nat
<1>1. InStep /\ pc \notin {"idle", "memset"}
  BY InStepFacts
<1>2. /\ dstObject # NoObject /\ dstObject.start <= job.dst
      /\ srcObject # NoObject /\ srcObject.start <= job.src
      /\ job.dst + job.left = req.dst + offset /\ job.src + req.dst = job.dst + req.src
  BY <1>1 DEF InStep
<1>3. /\ job.dst \in Nat /\ job.src \in Nat /\ job.left \in Nat
      /\ req.dst \in Nat /\ req.src \in Nat /\ offset \in Nat
      /\ Dst = req.dst + offset /\ Src = req.src + offset
  BY InStepFacts, RequestFacts
<1>4. job.dst + job.left = Dst /\ job.src + job.left = Src
  BY <1>2, <1>3
<1> QED BY <1>1, <1>2, <1>4, ObjectsHeld

(* The copies of one iteration write what belongs there.                     *)
LEMMA FastCopyWrites ==
    ASSUME CopyInv, FastCopy
    PROVE  \E n \in 1 .. job.left : Walks(n)
<1> DEFINE n == Least(job.left, BlockEnd(dstObject, job.dst))
           first == Least(n, BlockEnd(srcObject, job.src))
           to == InBlock(dstObject, job.j, job.dst)
           moved == Moved(mem, to, mem, InBlock(srcObject, job.i, job.src), first)
<1>1. /\ pc = "fast" /\ job.left > 0
      /\ mem' = IF first = n THEN moved
                ELSE Moved(moved, to + first, mem,
                           InBlock(srcObject, job.i + 1, job.src + first), n - first)
      /\ job' = [job EXCEPT !.dst = @ + n, !.src = @ + n, !.left = @ - n, !.i = @ + 1, !.j = @ + 1]
      /\ UNCHANGED <<req, pc, managerVars, bufferVars>>
  BY DEF FastCopy
<1>2. LoopInv /\ DataTypes /\ JobRight
  BY DEF CopyInv, DataInv
<1>3. /\ InStep
      /\ job.dst \in Nat /\ job.src \in Nat /\ job.left \in Nat
      /\ req.dst \in Nat /\ req.src \in Nat /\ req.size \in Nat
      /\ job.dst + job.left <= req.dst + req.size /\ req.src <= job.src
      /\ job.src + job.left <= req.src + req.size /\ req.call = "memcpy"
  BY <1>1, <1>2, InStepFacts
<1>4. /\ dstObject \in Objects /\ dstObject.start <= job.dst
      /\ job.dst + job.left <= End(dstObject) /\ End(dstObject) \in Nat
      /\ srcObject \in Objects /\ srcObject.start <= job.src
      /\ job.src + job.left <= End(srcObject) /\ End(srcObject) \in Nat
  BY <1>1, <1>2, <1>3, InStepObjects
<1>5. BlockEnd(dstObject, job.dst) \in Nat \ {0} /\ BlockEnd(srcObject, job.src) \in Nat \ {0}
  <2>1. job.dst < End(dstObject) /\ job.src < End(srcObject)
    BY <1>1, <1>3, <1>4
  <2>2. BlockEnd(dstObject, job.dst) \in 1 .. BlockSize /\ BlockEnd(srcObject, job.src) \in 1 .. BlockSize
    BY <1>3, <1>4, <2>1, BlockEndFacts
  <2> QED BY <2>2, BlockSizeFacts
<1>6. n \in 1 .. job.left
  BY <1>1, <1>3, <1>5, LeastOfTwo
<1>7. first \in 1 .. n /\ (first # n => first = BlockEnd(srcObject, job.src))
  <2> HIDE DEF n
  <2> QED BY <1>3, <1>5, <1>6, LeastOfTwo
<1> HIDE DEF n, first
<1>8. to = job.dst /\ InBlock(srcObject, job.i, job.src) = job.src
  <2>1. job.j = BlockOf(dstObject, job.dst) /\ job.i = BlockOf(srcObject, job.src)
    BY <1>1, <1>3 DEF InStep
  <2>2. /\ job.dst < End(dstObject) /\ job.dst + 0 < End(dstObject)
        /\ job.src < End(srcObject) /\ job.src + 0 < End(srcObject)
    BY <1>1, <1>3, <1>4
  <2>3. 0 \in Nat
    OBVIOUS
  <2>4. InBlock(dstObject, BlockOf(dstObject, job.dst), job.dst) = job.dst
    BY <1>3, <1>4, <2>2, <2>3, InBlockFacts
  <2>5. InBlock(srcObject, BlockOf(srcObject, job.src), job.src) = job.src
    BY <1>3, <1>4, <2>2, <2>3, InBlockFacts
  <2> QED BY <2>1, <2>4, <2>5
<1>9. first # n => InBlock(srcObject, job.i + 1, job.src + first) = job.src + first
  <2>1. first \in Nat /\ (first # n => job.src + first < End(srcObject))
    BY <1>3, <1>4, <1>6, <1>7
  <2>2. job.src < End(srcObject)
    BY <1>1, <1>3, <1>4
  <2> QED BY <1>1, <1>3, <1>4, <1>7, <2>1, <2>2, InBlockFacts DEF InStep
<1>10. mem' = Moved(mem, job.dst, mem, job.src, n)
  <2>1. DOMAIN mem = 0 .. Top
    BY <1>2, BlockSizeFacts DEF DataTypes
  <2>2. CASE first = n
    BY <1>1, <1>8, <2>2
  <2>3. CASE first # n
    <3>1. mem' = Moved(Moved(mem, job.dst, mem, job.src, first),
                       job.dst + first, mem, job.src + first, n - first)
      BY <1>1, <1>8, <1>9, <2>3
    <3>2. PICK at \in Nat, from \in Nat, m \in Nat, k \in Nat :
            at = job.dst /\ from = job.src /\ m = n /\ k = first
      BY <1>3, <1>6, <1>7
    <3>3. k <= m
      BY <1>3, <1>6, <1>7, <3>2
    <3>4. Moved(Moved(mem, at, mem, from, k), at + k, mem, from + k, m - k) = Moved(mem, at, mem, from, m)
      BY <2>1, <3>3, MovedTwice
    <3> QED BY <3>1, <3>2, <3>4
  <2> QED BY <2>2, <2>3
<1>11. Writes(job.dst, n)
  <2>1. ASSUME NEW k \in 0 .. n - 1
        PROVE  mem[job.src + k] + req.dst = job.dst + k + req.src /\ mem[job.src + k] \in Nat
    <3>1. job.src + k \in Nat /\ req.src <= job.src + k /\ job.src + k < req.src + req.size
      BY <1>3, <1>6
    <3>2. mem[job.src + k] = job.src + k
      BY <1>1, <3>1, SourceUntouched
    <3> QED BY <1>3, <3>1, <3>2 DEF InStep
  <2>2. PICK at \in Nat, from \in Nat : at = job.dst /\ from = job.src
    BY <1>3
  <2>3. Belongs(mem, from, at, n)
    BY <2>1, <2>2 DEF Belongs
  <2>4. pc # "idle" /\ req.dst <= at /\ at + n <= req.dst + req.size /\ n \in Nat
    BY <1>1, <1>3, <1>6, <2>2 DEF InStep
  <2>5. mem' = Moved(mem, at, mem, from, n)
    BY <1>10, <2>2
  <2>6. Writes(at, n)
    BY <1>3, <2>3, <2>4, <2>5, WrittenRight
  <2> QED BY <2>2, <2>6
<1>12. Walks(n)
  BY <1>1, <1>11 DEF Walks, n
<1> QED BY <1>6, <1>12

(* Where the walk goes on, it goes on at the begin of a destination block and*)
(* in the source block behind the last one.                                  *)
LEMMA WalkInStep ==
    ASSUME NEW o \in Objects, NEW p \in Objects, NEW a \in Nat, NEW b \in Nat, NEW n \in Nat,
           o.start <= a, a + n < End(o), p.start <= b, b + n < End(p),
           InBlockOffset(o, a) <= InBlockOffset(p, b), n = BlockEnd(o, a)
    PROVE  /\ BlockOf(o, a + n) = BlockOf(o, a) + 1 /\ BlockOf(p, b + n) = BlockOf(p, b) + 1
           /\ InBlockOffset(o, a + n) <= InBlockOffset(p, b + n)
<1>1. /\ o.start \in Nat /\ o.size \in Nat /\ End(o) = o.start + o.size
      /\ p.start \in Nat /\ p.size \in Nat /\ End(p) = p.start + p.size
      /\ BlockSize \in Nat \ {0}
  BY ObjectsAssumption, BlockSizeFacts DEF End
<1>2. PICK q \in Nat, d \in 0 .. BlockSize - 1 :
        q = BlockOf(o, a) /\ d = InBlockOffset(o, a) /\ a = o.start + q * BlockSize + d
  <2>1. a < End(o)
    BY <1>1
  <2> QED BY <2>1, BlockOfFacts
<1>3. PICK r \in Nat, s \in 0 .. BlockSize - 1 :
        r = BlockOf(p, b) /\ s = InBlockOffset(p, b) /\ b = p.start + r * BlockSize + s
  <2>1. b < End(p)
    BY <1>1
  <2> QED BY <2>1, BlockOfFacts
<1>4. n = BlockSize - d
  <2>1. /\ o.size - (a - o.start) \in Int /\ BlockSize - d \in Int
        /\ n = Least(o.size - (a - o.start), BlockSize - d)
    BY <1>1, <1>2 DEF BlockEnd, InBlockOffset
  <2>2. n \in {o.size - (a - o.start), BlockSize - d}
    BY <2>1, LeastOfTwo
  <2> QED BY <1>1, <2>2
<1>5. (a + n) - o.start = (q + 1) * BlockSize
  BY <1>1, <1>2, <1>4
<1>6. (b + n) - p.start = (r + 1) * BlockSize + (s - d)
  BY <1>1, <1>2, <1>3, <1>4
<1>7. s - d \in 0 .. BlockSize - 1 /\ q + 1 \in Nat /\ r + 1 \in Nat
  BY <1>1, <1>2, <1>3
<1>8. /\ ((q + 1) * BlockSize) \div BlockSize = q + 1 /\ ((q + 1) * BlockSize) % BlockSize = 0
      /\ ((r + 1) * BlockSize + (s - d)) \div BlockSize = r + 1
      /\ ((r + 1) * BlockSize + (s - d)) % BlockSize = s - d
  <2>1. /\ ((q + 1) * BlockSize) \div BlockSize = q + 1
        /\ ((q + 1) * BlockSize) % BlockSize = 0
    <3>1. PICK u \in Nat : u = q + 1
      BY <1>7
    <3>2. (u * BlockSize) \div BlockSize = u /\ (u * BlockSize) % BlockSize = 0
      BY <1>1, MultipleFacts
    <3> QED BY <3>1, <3>2
  <2>2. /\ ((r + 1) * BlockSize + (s - d)) \div BlockSize = r + 1
        /\ ((r + 1) * BlockSize + (s - d)) % BlockSize = s - d
    <3>1. PICK u \in Nat, e \in 0 .. BlockSize - 1 : u = r + 1 /\ e = s - d
      BY <1>7
    <3>2. (u * BlockSize + e) \div BlockSize = u /\ (u * BlockSize + e) % BlockSize = e
      BY <1>1, RemainderFacts
    <3> QED BY <3>1, <3>2
  <2> QED BY <2>1, <2>2
<1>9. BlockOf(o, a + n) = q + 1 /\ InBlockOffset(o, a + n) = 0
  BY <1>5, <1>8 DEF BlockOf, InBlockOffset
<1>10. BlockOf(p, b + n) = r + 1 /\ InBlockOffset(p, b + n) = s - d
  BY <1>6, <1>8 DEF BlockOf, InBlockOffset
<1>11. 0 <= s - d
  BY <1>7
<1> QED BY <1>2, <1>3, <1>9, <1>10, <1>11

LEMMA FastCopyKeepsData ==
    ASSUME CopyInv, NEW n \in 1 .. job.left, Walks(n)
    PROVE  DataInv'
<1>1. /\ LoopInv /\ DataTypes /\ JobRight /\ FlightsApart /\ MemoryRight
      /\ \A b \in Buffers : flight[b] = NoTransfer
  BY QuietFlights DEF Walks, CopyInv, DataInv, QuietPlaces
<1>2. /\ pc = "fast" /\ n = Least(job.left, BlockEnd(dstObject, job.dst))
      /\ UNCHANGED <<req, pc, managerVars, bufferVars>>
      /\ job' = [job EXCEPT !.dst = @ + n, !.src = @ + n, !.left = @ - n, !.i = @ + 1, !.j = @ + 1]
      /\ Writes(job.dst, n)
  BY DEF Walks
<1>3. /\ InStep
      /\ job.dst \in Nat /\ job.src \in Nat /\ job.left \in Nat /\ n \in Nat /\ n > 0
      /\ req.dst \in Nat /\ req.src \in Nat /\ req.size \in Nat /\ offset \in 0 .. req.size
      /\ job.dst + job.left <= req.dst + req.size
      /\ job.src + job.left <= req.src + req.size
  BY <1>1, <1>2, InStepFacts
<1>4. /\ dstObject \in Objects /\ dstObject.start <= job.dst /\ dstObject.start \in Nat
      /\ job.dst + job.left <= End(dstObject) /\ End(dstObject) \in Nat
      /\ srcObject \in Objects /\ srcObject.start <= job.src /\ srcObject.start \in Nat
      /\ job.src + job.left <= End(srcObject) /\ End(srcObject) \in Nat
  BY <1>1, <1>2, <1>3, InStepObjects
<1>5. job.left > 0 /\ job.j \in 0 .. Top /\ job.i \in 0 .. Top
  BY <1>3, <1>4, BlockOfFacts DEF InStep
<1>6. /\ job' \in [dst : Nat, src : Nat, left : Nat, chunk : Nat,
                   bufSize : 0 .. BlockSize, i : 0 .. Top + 1, j : 0 .. Top + 1]
      /\ job'.dst = job.dst + n /\ job'.src = job.src + n /\ job'.left = job.left - n
      /\ job'.chunk = job.chunk /\ job'.i = job.i + 1 /\ job'.j = job.j + 1
  <2>1. /\ job \in [dst : Nat, src : Nat, left : Nat, chunk : Nat, bufSize : 0 .. BlockSize,
                    i : 0 .. Top + 1, j : 0 .. Top + 1]
    BY <1>1 DEF DataTypes
  <2>2. /\ job.dst + n \in Nat /\ job.src + n \in Nat /\ job.left - n \in Nat
        /\ job.i + 1 \in 0 .. Top + 1 /\ job.j + 1 \in 0 .. Top + 1
    <3>1. Top \in Nat /\ n <= job.left
      BY <1>3, BlockSizeFacts
    <3> QED BY <1>3, <1>5, <3>1
  <2>3. job' = [job EXCEPT !.dst = job.dst + n, !.src = job.src + n, !.left = job.left - n,
                           !.i = job.i + 1, !.j = job.j + 1]
    BY <1>2
  <2> QED BY <2>1, <2>2, <2>3
<1>7. DataTypes'
  BY <1>1, <1>2, <1>6 DEF DataTypes, bufferVars, Writes
<1>8. JobRight'
  <2>1. ASSUME job'.left > 0
        PROVE  /\ job'.j = BlockOf(dstObject, job'.dst) /\ job'.i = BlockOf(srcObject, job'.src)
               /\ InBlockOffset(dstObject, job'.dst) <= InBlockOffset(srcObject, job'.src)
    <3>1. n < job.left
      BY <1>3, <1>6, <2>1
    <3>2. BlockEnd(dstObject, job.dst) \in Nat
      <4>1. job.dst < End(dstObject)
        BY <1>3, <1>4, <1>5
      <4>2. BlockEnd(dstObject, job.dst) \in 1 .. BlockSize
        BY <1>3, <1>4, <4>1, BlockEndFacts
      <4> QED BY <4>2, BlockSizeFacts
    <3>3. n = BlockEnd(dstObject, job.dst)
      BY <1>2, <1>3, <3>1, <3>2, LeastOfTwo
    <3>4. job.dst + n < End(dstObject) /\ job.src + n < End(srcObject)
      BY <1>3, <1>4, <3>1
    <3>5. /\ job.j = BlockOf(dstObject, job.dst) /\ job.i = BlockOf(srcObject, job.src)
          /\ InBlockOffset(dstObject, job.dst) <= InBlockOffset(srcObject, job.src)
      BY <1>3, <1>5 DEF InStep
    <3>6. PICK a \in Nat, b \in Nat : a = job.dst /\ b = job.src
      BY <1>3
    <3>7. /\ BlockOf(dstObject, a + n) = BlockOf(dstObject, a) + 1
          /\ BlockOf(srcObject, b + n) = BlockOf(srcObject, b) + 1
          /\ InBlockOffset(dstObject, a + n) <= InBlockOffset(srcObject, b + n)
      <4>1. /\ dstObject.start <= a /\ a + n < End(dstObject) /\ n = BlockEnd(dstObject, a)
            /\ srcObject.start <= b /\ b + n < End(srcObject)
            /\ InBlockOffset(dstObject, a) <= InBlockOffset(srcObject, b)
        BY <1>4, <3>3, <3>4, <3>5, <3>6
      <4>2. n \in Nat /\ dstObject \in Objects /\ srcObject \in Objects
        BY <1>3, <1>4
      <4> QED BY <3>6, <4>1, <4>2, WalkInStep
    <3>8. job'.dst = a + n /\ job'.src = b + n
      BY <1>6, <3>6
    <3>9. job'.j = BlockOf(dstObject, a) + 1 /\ job'.i = BlockOf(srcObject, b) + 1
      BY <1>6, <3>5, <3>6
    <3> QED BY <3>7, <3>8, <3>9
  <2>2. InStep'
    BY <1>2, <1>3, <1>4, <1>6, <2>1 DEF InStep, managerVars, BlockOf, InBlockOffset
  <2> QED BY <1>2, <2>2 DEF JobRight, CopyPlaces
<1>9. BuffersRight'
  BY <1>1, <1>2, QuietAfter DEF bufferVars
<1>10. FlightsApart' /\ \A c : Carried(c) => Carried(c)'
  BY <1>1, <1>2, SameFlights DEF bufferVars
<1>11. MemoryRight'
  <2>1. Issued = job.dst /\ Issued \in Nat
    BY <1>1, <1>2, IssuedFacts
  <2>2. Issued' = job.dst + n
    BY <1>2, <1>6 DEF Issued, CopyPlaces
  <2>3. pc # "idle" /\ pc' # "idle" /\ req' = req
    BY <1>2
  <2>4. PICK at \in Nat : at = job.dst
    BY <1>3
  <2>5. Writes(at, n)
    BY <1>2, <2>4
  <2>6. /\ \A a \in Cells : mem'[a] = mem[a] \/ mem'[a] = Contract!Result(req)[a]
        /\ \A a \in Cells : a \in req.dst .. Issued' - 1 /\ a \notin req.dst .. Issued - 1 =>
             mem'[a] = Contract!Result(req)[a]
    BY <1>3, <2>1, <2>2, <2>4, <2>5 DEF Writes
  <2> QED BY <1>1, <1>10, <2>1, <2>3, <2>6, MemoryKept
<1> QED BY <1>7, <1>8, <1>9, <1>10, <1>11 DEF DataInv

LEMMA FastReturnsKeepsData ==
    ASSUME CopyInv, FastReturns
    PROVE  DataInv'
<1>1. /\ pc = "fast" /\ job.left = 0 /\ job' = NoJob /\ pc' = "memcpy"
      /\ UNCHANGED <<mem, req, offset, buffer, flight, active>>
  BY DEF FastReturns, Goto, managerVars, bufferVars
<1>2. /\ LoopInv /\ DataTypes /\ JobRight /\ FlightsApart /\ MemoryRight
      /\ \A b \in Buffers : flight[b] = NoTransfer
  BY <1>1, QuietFlights DEF CopyInv, DataInv, QuietPlaces
<1>3. DataTypes'
  <2>1. job' \in [dst : Nat, src : Nat, left : Nat, chunk : Nat, bufSize : 0 .. BlockSize,
                  i : 0 .. Top + 1, j : 0 .. Top + 1]
    BY <1>1, BlockSizeFacts DEF NoJob
  <2> QED BY <1>1, <1>2, <2>1 DEF DataTypes
<1>4. JobRight'
  BY <1>1 DEF JobRight, CopyPlaces
<1>5. BuffersRight'
  BY <1>1, <1>2, QuietAfter
<1>6. FlightsApart' /\ \A c : Carried(c) => Carried(c)'
  BY <1>1, <1>2, SameFlights
<1>7. MemoryRight'
  <2>1. Issued = job.dst /\ Issued \in Nat /\ job.dst = req.dst + offset
    BY <1>1, <1>2, IssuedFacts, InStepFacts DEF InStep
  <2>2. Issued' = req.dst + offset
    BY <1>1 DEF Issued, CopyPlaces
  <2> QED BY <1>1, <1>2, <1>6, <2>1, <2>2, MemoryStill
<1> QED BY <1>3, <1>4, <1>5, <1>6, <1>7 DEF DataInv


-------------------------------------------------------------------------------
(* Every step keeps the invariant, and moves bytes to where they belong.     *)

LEMMA CopyInvInit == Init => CopyInv
<1> SUFFICES ASSUME Init PROVE CopyInv
  OBVIOUS
<1>1. LoopInv
  BY LoopInvInit
<1>2. BlockSize \in Nat \ {0} /\ Top \in Nat /\ Cells = 0 .. Top
  BY BlockSizeFacts
<1>3. /\ pc = "idle" /\ job = NoJob /\ mem = Contract!Named
      /\ buffer = [b \in Buffers |-> Empty] /\ flight = [b \in Buffers |-> NoTransfer]
  BY DEF Init
<1>4. DataTypes
  <2>1. mem \in [Cells -> Cells \cup {Contract!Fresh}]
    BY <1>3 DEF Contract!Named, Cells
  <2>2. job \in [dst : Nat, src : Nat, left : Nat, chunk : Nat, bufSize : 0 .. BlockSize,
                 i : 0 .. Top + 1, j : 0 .. Top + 1]
    BY <1>2, <1>3 DEF NoJob
  <2>3. buffer \in [Buffers -> [0 .. BlockSize - 1 -> Cells]]
    BY <1>2, <1>3 DEF Empty
  <2>4. flight \in [Buffers -> [way : {"none", "fromObject", "toObject"}, cell : 0 .. Top,
                                slot : 0 .. BlockSize - 1, size : 0 .. BlockSize]]
    BY <1>2, <1>3 DEF NoTransfer
  <2> QED BY <2>1, <2>2, <2>3, <2>4 DEF DataTypes
<1>5. JobRight
  BY <1>3 DEF JobRight, CopyPlaces
<1>6. BuffersRight
  BY <1>3 DEF BuffersRight, BufferRight, Loads, Waited
<1>7. FlightsApart
  BY <1>3 DEF FlightsApart, NoTransfer
<1>8. MemoryRight
  BY <1>3 DEF MemoryRight
<1> QED BY <1>1, <1>4, <1>5, <1>6, <1>7, <1>8 DEF CopyInv, DataInv

\* Bytes of the destination get their value, or nothing changes.
Moving ==
    /\ req' = req
    /\ \A a \in Cells : mem'[a] = mem[a] \/ mem'[a] = Contract!Result(req)[a]

LEMMA UnchangedKeepsData ==
    ASSUME CopyInv, UNCHANGED vars
    PROVE  DataInv' /\ Moving
<1>1. /\ UNCHANGED <<mem, req, pc, offset, dstObject, srcObject, job, buffer, flight, active>>
  BY DEF vars
<1>2. DataTypes' /\ JobRight' /\ FlightsApart'
  BY <1>1 DEF CopyInv, DataInv, DataTypes, JobRight, InStep, FirstPart, FlightsApart
<1>3. BuffersRight'
  BY <1>1 DEF CopyInv, DataInv, BuffersRight, BufferRight, Loads, LoadFrom, LoadSize, FirstPart,
     NextChunk, Loading, Waited, Incoming, Arrives, Outgoing, Issued
<1>4. MemoryRight'
  BY <1>1 DEF CopyInv, DataInv, MemoryRight, Issued, Carried
<1> QED BY <1>1, <1>2, <1>3, <1>4 DEF DataInv, Moving

LEMMA ManagesKeepsData ==
    ASSUME AlignedRequests, CopyInv, Manages
    PROVE  DataInv' /\ (Return \/ Moving)
<1>1. CASE CopyStretch
  <2>1. CASE UNCHANGED vars
    BY <2>1, UnchangedKeepsData
  <2>2. ASSUME NEW n \in 1 .. Left, offset' = offset + n, Copies(n)
        PROVE  DataInv' /\ Moving
    <3>1. /\ UNCHANGED <<req, bufferVars, dstObject, srcObject>> /\ pc = "memcpy"
      BY <1>1, StretchRight DEF CopyInv
    <3> QED BY <2>2, <3>1, StretchKeepsData DEF Moving
  <2> QED BY <1>1, <2>1, <2>2, StretchRight DEF CopyInv
<1>2. CASE SetStretch
  BY <1>2, SetStretchKeepsData DEF SetStretch, Moving
<1>3. CASE Return
  BY <1>3, ReturnKeepsData
<1> QED BY <1>1, <1>2, <1>3 DEF Manages

LEMMA JobsKeepData ==
    ASSUME CopyInv, ToObject \/ FromObject \/ BetweenObjects
    PROVE  DataInv' /\ Moving
<1>1. CASE FillFirst \/ Send \/ Refill \/ Drain
  <2>1. mem' = mem /\ req' = req
    BY <1>1 DEF FillFirst, Send, Refill, Drain
  <2> QED BY <1>1, <2>1, FillFirstKeepsData, SendKeepsData, RefillKeepsData, DrainKeepsData DEF Moving
<1>2. CASE FetchFirst \/ Fetch
  <2>1. mem' = mem /\ req' = req
    BY <1>2 DEF FetchFirst, Fetch
  <2> QED BY <1>2, <2>1, FetchFirstKeepsData, FetchKeepsData DEF Moving
<1>3. CASE Store
  <2>1. req' = req
    BY <1>3 DEF Store
  <2>2. \A a \in Cells : mem'[a] = mem[a] \/ mem'[a] = Contract!Result(req)[a]
    BY <1>3, StoreWrites DEF Writes
  <2> QED BY <1>3, <2>1, <2>2, StoreKeepsData DEF Moving
<1>4. CASE Load \/ LoadRest \/ Forward \/ Reload \/ ReloadRest
  <2>1. mem' = mem /\ req' = req
    BY <1>4 DEF Load, LoadRest, Forward, Reload, ReloadRest, LoadFirst, LoadSecond
  <2> QED BY <1>4, <2>1, LoadKeepsData, ForwardKeepsData, ReloadKeepsData DEF Moving
<1>5. CASE FastCopy
  <2>1. PICK n \in 1 .. job.left : Walks(n)
    BY <1>5, FastCopyWrites
  <2> QED BY <1>5, <2>1, FastCopyKeepsData DEF Walks, Writes, Moving
<1>6. CASE FastReturns
  <2>1. mem' = mem /\ req' = req
    BY <1>6 DEF FastReturns
  <2> QED BY <1>6, <2>1, FastReturnsKeepsData DEF Moving
<1> QED BY <1>1, <1>2, <1>3, <1>4, <1>5, <1>6 DEF ToObject, FromObject, BetweenObjects

LEMMA TransferMoves ==
    ASSUME CopyInv, NEW b \in Buffers, Transfer(b)
    PROVE  Moving
<1>1. req' = req /\ pc \in CopyPlaces
  BY TransferFacts
<1>2. CASE mem' = mem
  BY <1>1, <1>2 DEF Moving
<1>3. CASE /\ Outgoing(b)
           /\ mem' = Moved(mem, flight[b].cell, buffer[b], flight[b].slot, flight[b].size)
  <2>1. SendsBytes(b)
    BY <1>3 DEF SendsBytes
  <2> QED BY <1>1, <2>1, SentWrites DEF Moving, Writes
<1> QED BY <1>2, <1>3, TransferFacts

LEMMA CopyInvStep ==
    ASSUME AlignedRequests
    PROVE  CopyInv /\ [Next]_vars => CopyInv'
<1> SUFFICES ASSUME CopyInv, [Next]_vars PROVE CopyInv'
  OBVIOUS
<1>1. LoopInv'
  BY LoopInvStep DEF CopyInv
<1>2. DataInv'
  <2>1. CASE Begins
    BY <2>1, BeginKeepsData DEF Begins
  <2>2. CASE Works
    BY <2>2, ManagesKeepsData, JobsKeepData DEF Works
  <2>3. CASE \E b \in Buffers : Transfer(b)
    BY <2>3, TransferKeepsData
  <2>4. CASE UNCHANGED vars
    BY <2>4, UnchangedKeepsData
  <2> QED BY <2>1, <2>2, <2>3, <2>4 DEF Next
<1> QED BY <1>1, <1>2 DEF CopyInv

LEMMA CopyInvAlways ==
    ASSUME AlignedRequests
    PROVE  Spec => []CopyInv
<1>1. CopyInv /\ [Next]_vars => CopyInv'
  BY CopyInvStep
<1> QED BY <1>1, CopyInvInit, PTL DEF Spec

LEMMA CopyTypes == CopyInv => TypeOK
<1> SUFFICES ASSUME CopyInv PROVE TypeOK
  OBVIOUS
<1>1. LoopInv /\ DataTypes /\ JobRight
  BY DEF CopyInv, DataInv
<1>2. Top \in Nat /\ BlockSize \in Nat \ {0}
  BY BlockSizeFacts
<1>3. offset \in 0 .. Top + 1
  <2>1. CASE pc = "idle"
    BY <1>1, <1>2, <2>1 DEF LoopInv, RequestRight
  <2>2. CASE pc # "idle"
    BY <1>1, <1>2, <2>2, RequestFacts
  <2> QED BY <2>1, <2>2
<1>4. job \in [dst : 0 .. Top + 1, src : 0 .. Top + 1, left : 0 .. Top + 1, chunk : 0 .. BlockSize,
               bufSize : 0 .. BlockSize, i : 0 .. Top + 1, j : 0 .. Top + 1]
  <2>1. CASE pc \in CopyPlaces
    <3>1. /\ job.dst \in Nat /\ job.src \in Nat /\ job.left \in Nat /\ job.chunk \in Nat
          /\ job.chunk <= BlockSize /\ req.dst <= job.dst
          /\ job.dst + job.left <= req.dst + req.size
          /\ job.src + job.left <= req.src + req.size
          /\ req.dst \in Nat /\ req.src \in Nat /\ req.size \in Nat
          /\ req.dst + req.size <= Top + 1 /\ req.src + req.size <= Top + 1
      BY <1>1, <2>1, JobFacts
    <3>2. /\ job.dst \in 0 .. Top + 1 /\ job.src \in 0 .. Top + 1 /\ job.left \in 0 .. Top + 1
          /\ job.chunk \in 0 .. BlockSize
      BY <1>2, <3>1
    <3> QED BY <1>1, <3>2 DEF DataTypes
  <2>2. CASE pc = "fast"
    <3>1. /\ job.dst \in Nat /\ job.src \in Nat /\ job.left \in Nat /\ job.chunk = 0
          /\ job.dst + job.left <= Top + 1 /\ job.src + job.left <= Top + 1
      BY <1>1, <2>2, InStepFacts
    <3>2. /\ job.dst \in 0 .. Top + 1 /\ job.src \in 0 .. Top + 1 /\ job.left \in 0 .. Top + 1
          /\ job.chunk \in 0 .. BlockSize
      BY <1>2, <3>1
    <3> QED BY <1>1, <3>2 DEF DataTypes
  <2>3. CASE pc \notin CopyPlaces \cup {"fast"}
    <3>1. job = NoJob
      BY <1>1, <2>3 DEF JobRight
    <3> QED BY <1>2, <3>1 DEF NoJob
  <2> QED BY <2>1, <2>2, <2>3
<1>5. /\ req \in Requests \cup {NoRequest}
      /\ pc \in {"idle", "memcpy", "memset", "toObject", "fromObject", "objectToObject",
                 "send", "refill", "fetch", "secondFetch", "store", "forward", "reload",
                 "secondReload", "drain", "fast"}
      /\ {dstObject, srcObject} \subseteq Objects \cup {NoObject}
      /\ active \in Buffers
  BY <1>1 DEF LoopInv, Types, CopyPlaces
<1> QED BY <1>1, <1>3, <1>4, <1>5 DEF TypeOK, DataTypes

(* The variables of a copy keep their types: in particular no address leaves *)
(* memory and no chunk is longer than a buffer.                              *)
THEOREM CopiesTypeCorrect ==
    ASSUME AlignedRequests
    PROVE  Spec => []TypeOK
BY CopyInvAlways, CopyTypes, PTL

(* A step of the calls is one of the contract.                               *)
LEMMA StepKeepsContract ==
    ASSUME AlignedRequests, CopyInv, [Next]_vars
    PROVE  [Contract!Next]_<<mem, req>>
<1>1. ASSUME Moving, pc # "idle", DataInv'
      PROVE  [Contract!Next]_<<mem, req>>
  <2>1. req # NoRequest /\ req' = req
    BY <1>1 DEF CopyInv, LoopInv, RequestRight, Moving
  <2>2. CASE mem' = mem
    BY <2>1, <2>2
  <2>3. CASE mem' # mem
    <3>1. Contract!Move
      BY <1>1, <2>1, <2>3 DEF Contract!Move, Moving, Cells, NoRequest
    <3> QED BY <3>1 DEF Contract!Next
  <2> QED BY <2>2, <2>3
<1>2. CASE Begins
  <2>1. Contract!Begin
    BY <1>2 DEF Begins, Memcpy, Memset, Contract!Begin, CopyInv, LoopInv, RequestRight, NoRequest
  <2> QED BY <2>1 DEF Contract!Next
<1>3. CASE Return
  <2>1. mem = Contract!Result(req)
    BY <1>3, ReturnRight
  <2>2. req # NoRequest
    BY <1>3 DEF Return, CopyInv, LoopInv, RequestRight
  <2>3. Contract!Return
    BY <1>3, <2>1, <2>2 DEF Return, Contract!Return, NoRequest
  <2> QED BY <2>3 DEF Contract!Next
<1>4. CASE Works /\ ~Return
  <2>1. Moving /\ DataInv'
    BY <1>4, ManagesKeepsData, JobsKeepData DEF Works
  <2>2. pc # "idle"
    BY <1>4 DEF Works, Manages, ToObject, FromObject, BetweenObjects, CopyStretch, SetStretch,
       FillFirst, Send, Refill, Drain, FetchFirst, Fetch, Store, Load, LoadRest, Forward, Reload,
       ReloadRest, LoadFirst, LoadSecond, FastCopy, FastReturns
  <2> QED BY <1>1, <2>1, <2>2
<1>5. ASSUME NEW b \in Buffers, Transfer(b)
      PROVE  [Contract!Next]_<<mem, req>>
  <2>1. Moving /\ DataInv' /\ pc # "idle"
    BY <1>5, TransferMoves, TransferKeepsData, TransferFacts DEF CopyPlaces
  <2> QED BY <1>1, <2>1
<1>6. CASE UNCHANGED vars
  BY <1>6 DEF vars
<1> QED BY <1>2, <1>3, <1>4, <1>5, <1>6 DEF Next

(* memcpy and memset implement their contract: every byte of the destination *)
(* gets its value, no other byte is touched at any time, and no call returns *)
(* before, whatever objects and blocks the ranges are cut into, whenever the *)
(* accelerator completes its transfers, through buffers and between blocks.  *)
THEOREM CallsKeepContract ==
    ASSUME AlignedRequests
    PROVE  Spec => KeepsContract
<1>1. Init => Contract!Init
  BY DEF Init, Contract!Init, NoRequest
<1>2. CopyInv /\ [Next]_vars => [Contract!Next]_<<mem, req>>
  BY StepKeepsContract
<1> QED BY <1>1, <1>2, CopyInvAlways, PTL DEF Spec, KeepsContract, Contract!Spec, Contract!vars

-------------------------------------------------------------------------------
(* The double buffer is free of races.                                       *)

\* Where the buffer b is in use by a transfer, that goes on.
Busy(b) == flight[b] # NoTransfer /\ flight'[b] = flight[b]

\* Neither its slots nor the bytes of memory it copies are touched.
Undisturbed(b) ==
    /\ buffer'[b] = buffer[b]
    /\ \A a \in Contract!Bytes(flight[b].cell, flight[b].size) : mem'[a] = mem[a]

(* Bytes a transfer under way is to copy are not in a range that is written. *)
LEMMA WritesElsewhere ==
    ASSUME CopyInv, pc \in CopyPlaces, NEW b \in Buffers,
           NEW at \in Nat, NEW n \in Nat, Writes(at, n),
           req.dst <= at, at + n <= req.dst + req.size,
           \/ Incoming(b)
           \/ /\ Outgoing(b)
              /\ at + n <= flight[b].cell \/ flight[b].cell + flight[b].size <= at
    PROVE  \A a \in Contract!Bytes(flight[b].cell, flight[b].size) : mem'[a] = mem[a]
<1>1. LoopInv /\ DataTypes /\ JobRight /\ pc # "idle"
  BY DEF CopyInv, DataInv, CopyPlaces
<1>2. /\ req.dst \in Nat /\ req.src \in Nat /\ req.size \in Nat
      /\ req.dst + req.size <= Top + 1 /\ req.src + req.size <= Top + 1
      /\ req.dst + req.size <= req.src \/ req.src + req.size <= req.dst
      /\ offset \in 0 .. req.size
  BY <1>1, JobFacts
<1>3. Issued \in Nat /\ Issued <= req.dst + offset
  BY <1>1, IssuedFacts
<1>4. PICK from \in Nat : from = flight[b].cell
  BY <1>1, BlockSizeFacts DEF DataTypes
<1>5. PICK size \in Nat : size = flight[b].size
  BY <1>1, BlockSizeFacts DEF DataTypes
<1>6. /\ from + size <= Top + 1
      /\ at + n <= from \/ from + size <= at
  <2>1. CASE Incoming(b)
    <3>1. req.src <= from /\ from + size <= req.src + req.size
      BY <1>4, <1>5, <2>1 DEF Incoming
    <3>2. from + size <= Top + 1
      BY <1>2, <3>1, BlockSizeFacts
    <3>3. CASE req.dst + req.size <= req.src
      BY <1>2, <3>1, <3>2, <3>3
    <3>4. CASE req.src + req.size <= req.dst
      BY <1>2, <3>1, <3>2, <3>4
    <3> QED BY <1>2, <3>2, <3>3, <3>4
  <2>2. CASE ~Incoming(b)
    <3>1. from + size <= Issued /\ (at + n <= from \/ from + size <= at)
      BY <1>4, <1>5, <2>2 DEF Outgoing
    <3>2. from + size <= Top + 1
      BY <1>2, <1>3, <3>1, BlockSizeFacts
    <3> QED BY <3>1, <3>2
  <2> QED BY <2>1, <2>2
<1>7. ASSUME NEW a \in from .. from + size - 1
      PROVE  mem'[a] = mem[a]
  <2>1. a \in Cells /\ a \notin at .. at + n - 1
    BY <1>6, BlockSizeFacts
  <2> QED BY <2>1 DEF Writes
<1> QED BY <1>4, <1>5, <1>7 DEF Contract!Bytes

(* Whoever uses a buffer that loads nothing sends it.                        *)
LEMMA BusyBuffer ==
    ASSUME CopyInv, NEW b \in Buffers, flight[b] # NoTransfer
    PROVE  /\ pc \in CopyPlaces /\ pc \notin QuietPlaces
           /\ \/ Loads(b) /\ Incoming(b)
              \/ ~Loads(b) /\ pc \in SendPlaces /\ Outgoing(b)
<1>1. BufferRight(b)
  BY DEF CopyInv, DataInv, BuffersRight
<1>2. \/ Loads(b) /\ Incoming(b)
      \/ ~Loads(b) /\ pc \in SendPlaces /\ Outgoing(b)
  BY <1>1 DEF BufferRight, Loading, Waited
<1>3. pc \in CopyPlaces /\ pc \notin QuietPlaces
  BY <1>2 DEF Loads, SendPlaces, CopyPlaces, QuietPlaces
<1> QED BY <1>2, <1>3

LEMMA StoreUndisturbing ==
    ASSUME CopyInv, Store, NEW b \in Buffers, Busy(b)
    PROVE  Undisturbed(b)
<1>1. /\ pc = "store" /\ flight[active] = NoTransfer
  BY DEF Store, Waited
<1>2. b # active /\ Loads(b) /\ Incoming(b) /\ pc \in CopyPlaces
  BY <1>1, BusyBuffer DEF Busy, SendPlaces
<1>3. job.left > job.chunk
  BY <1>1, <1>2 DEF Loads
<1>4. buffer'[b] = buffer[b]
  BY <1>3 DEF Store
<1>5. LoopInv /\ DataTypes /\ JobRight
  BY DEF CopyInv, DataInv
<1>6. PICK at \in Nat : \E n \in Nat : at = job.dst /\ n = job.chunk /\ Writes(at, n)
  BY StoreWrites
<1>7. PICK n \in Nat : at = job.dst /\ n = job.chunk /\ Writes(at, n)
  BY <1>6
<1>8. req.dst <= at /\ at + n <= req.dst + req.size
  <2>1. /\ req.dst <= job.dst /\ job.dst + job.left <= req.dst + req.size /\ job.chunk <= job.left
        /\ job.left \in Nat /\ req.dst \in Nat /\ req.size \in Nat
    BY <1>2, <1>5, JobFacts
  <2> QED BY <1>7, <2>1
<1>9. \A a \in Contract!Bytes(flight[b].cell, flight[b].size) : mem'[a] = mem[a]
  BY <1>2, <1>7, <1>8, WritesElsewhere
<1> QED BY <1>4, <1>9 DEF Undisturbed

LEMMA TransferUndisturbing ==
    ASSUME CopyInv, NEW c \in Buffers, Transfer(c), NEW b \in Buffers, Busy(b)
    PROVE  Undisturbed(b)
<1>1. /\ pc \in CopyPlaces /\ flight' = [flight EXCEPT ![c] = NoTransfer]
  BY TransferFacts
<1>2. LoopInv /\ DataTypes /\ JobRight /\ FlightsApart
  BY DEF CopyInv, DataInv
<1>3. c # b
  BY <1>1, <1>2 DEF Busy, DataTypes
<1>4. Incoming(b) \/ Outgoing(b)
  BY BusyBuffer DEF Busy
<1>5. CASE /\ Outgoing(c) /\ buffer' = buffer
           /\ mem' = Moved(mem, flight[c].cell, buffer[c], flight[c].slot, flight[c].size)
  <2>1. SendsBytes(c)
    BY <1>5 DEF SendsBytes
  <2>2. PICK at \in Nat : \E n \in Nat : at = flight[c].cell /\ n = flight[c].size /\ Writes(at, n)
    BY <1>1, <2>1, SentWrites
  <2>3. PICK n \in Nat : at = flight[c].cell /\ n = flight[c].size /\ Writes(at, n)
    BY <2>2
  <2>4. req.dst <= at /\ at + n <= req.dst + req.size
    <3>1. req.dst <= at /\ at + n <= Issued
      BY <1>5, <2>3 DEF Outgoing
    <3>2. /\ Issued \in Nat /\ Issued <= req.dst + offset /\ offset \in 0 .. req.size
          /\ req.dst \in Nat /\ req.size \in Nat
      BY <1>1, <1>2, JobFacts, IssuedFacts
    <3> QED BY <3>1, <3>2
  <2>5. Outgoing(b) => at + n <= flight[b].cell \/ flight[b].cell + flight[b].size <= at
    BY <1>2, <1>3, <1>5, <2>3 DEF Outgoing, FlightsApart
  <2>6. \A a \in Contract!Bytes(flight[b].cell, flight[b].size) : mem'[a] = mem[a]
    BY <1>1, <1>4, <2>3, <2>4, <2>5, WritesElsewhere
  <2> QED BY <1>5, <2>6 DEF Undisturbed
<1>6. CASE /\ mem' = mem
           /\ buffer' = [buffer EXCEPT ![c] =
                           Moved(@, flight[c].slot, mem, flight[c].cell, flight[c].size)]
  BY <1>2, <1>3, <1>6 DEF Undisturbed, DataTypes
<1> QED BY <1>5, <1>6, TransferFacts

(* A step of the thread leaves what a transfer works on alone.               *)
LEMMA StepUndisturbing ==
    ASSUME AlignedRequests, CopyInv, Next, NEW b \in Buffers, Busy(b)
    PROVE  Undisturbed(b)
<1>1. pc \in CopyPlaces /\ pc \notin QuietPlaces
  BY BusyBuffer DEF Busy
<1>2. ~Begins /\ ~Manages /\ ~FillFirst /\ ~FetchFirst /\ ~Load /\ ~FastCopy /\ ~FastReturns
  BY <1>1 DEF QuietPlaces, CopyPlaces, Begins, Memcpy, Memset, Manages, CopyStretch, SetStretch,
     Return, FillFirst, FetchFirst, Load, LoadFirst, FastCopy, FastReturns
<1>3. CASE Send \/ Fetch \/ LoadRest \/ Forward \/ Reload \/ ReloadRest
  BY <1>3 DEF Send, Fetch, LoadRest, Forward, Reload, ReloadRest, LoadFirst, LoadSecond, Undisturbed
<1>4. CASE Refill
  <2>1. mem' = mem
    BY <1>4 DEF Refill
  <2>2. CASE job.left > job.chunk
    <3>1. b # passive /\ FillBuffer(passive, NextChunk, job.src + job.chunk)
      BY <1>4, <2>2 DEF Refill, Waited, Busy
    <3>2. buffer'[b] = buffer[b]
      BY <3>1 DEF FillBuffer, CopyInv, DataInv, DataTypes
    <3> QED BY <2>1, <3>2 DEF Undisturbed
  <2>3. CASE ~(job.left > job.chunk)
    BY <1>4, <2>1, <2>3 DEF Refill, Undisturbed
  <2> QED BY <2>2, <2>3
<1>5. CASE Drain
  BY <1>5 DEF Drain, Waited, Busy
<1>6. CASE Store
  BY <1>6, StoreUndisturbing
<1>7. CASE \E c \in Buffers : Transfer(c)
  BY <1>7, TransferUndisturbing
<1> QED BY <1>2, <1>3, <1>4, <1>5, <1>6, <1>7
        DEF Next, Works, ToObject, FromObject, BetweenObjects

(* While a transfer is under way nobody touches its slots or the bytes it is *)
(* to copy: not the thread that fills and empties the other buffer, nor the  *)
(* other transfer.                                                           *)
THEOREM BuffersFreeOfRaces ==
    ASSUME AlignedRequests
    PROVE  Spec => TransfersUndisturbed
<1>1. CopyInv /\ [Next]_vars =>
        [\A b \in Buffers :
           LET f == flight[b]
           IN  f # NoTransfer /\ flight'[b] = f =>
                 /\ buffer'[b] = buffer[b]
                 /\ \A a \in Contract!Bytes(f.cell, f.size) : mem'[a] = mem[a]]_vars
  <2> SUFFICES ASSUME CopyInv, Next, NEW b \in Buffers,
                      flight[b] # NoTransfer, flight'[b] = flight[b]
               PROVE  /\ buffer'[b] = buffer[b]
                      /\ \A a \in Contract!Bytes(flight[b].cell, flight[b].size) : mem'[a] = mem[a]
    OBVIOUS
  <2>1. Undisturbed(b)
    BY StepUndisturbing DEF Busy
  <2> QED BY <2>1 DEF Undisturbed
<1> QED BY <1>1, CopyInvAlways, PTL DEF Spec, TransfersUndisturbed

-------------------------------------------------------------------------------
(* Calls come to an end.                                                     *)

LEMMA StageFacts ==
    /\ pc \in {"idle", "memcpy", "memset"} => Stage = 0
    /\ pc \in {"refill", "store", "forward", "drain", "fast"} => Stage = 1
    /\ pc \in {"send", "fetch", "secondFetch", "secondReload"} => Stage = 2
    /\ pc \in {"toObject", "fromObject", "objectToObject", "reload"} => Stage = 3
BY DEF Stage

(* The loop of Manager: every stretch has a byte, or the loop stands still.  *)
LEMMA ManagesAdvances ==
    ASSUME CopyInv, CopyStretch \/ SetStretch, vars' # vars
    PROVE  Advances
<1>1. req' = req /\ pc # "idle" /\ LoopInv
  BY DEF CopyStretch, SetStretch, CopyInv
<1>2. PICK n \in 1 .. Left : offset' = offset + n
  <2>1. CASE CopyStretch
    BY <1>1, <2>1, StretchRight
  <2>2. CASE SetStretch
    BY <1>1, <2>2, SetStretchRight DEF SetRight
  <2> QED BY <2>1, <2>2
<1>3. PICK size \in Nat, o \in Nat : size = req.size /\ o = offset
  BY <1>1, RequestFacts
<1>4. Left = size - o /\ Left' = size - (o + n)
  BY <1>1, <1>2, <1>3 DEF Left
<1>5. Left' < Left
  <2>1. n \in Int /\ n > 0
    BY <1>3, <1>4
  <2> QED BY <1>3, <1>4, <2>1
<1> QED BY <1>5 DEF Advances

(* The numbers of an object's copy while it is in one.                       *)
LEMMA InJob ==
    ASSUME CopyInv, pc \in CopyPlaces
    PROVE  /\ LoopInv /\ DataTypes /\ JobRight
           /\ job.left \in Nat /\ job.chunk \in Nat /\ job.chunk <= job.left
           /\ pc # "drain" => job.chunk > 0
           /\ pc = "drain" => job.left = 0
           /\ UNCHANGED <<req, offset>> => Left' = Left
<1>1. LoopInv /\ DataTypes /\ JobRight
  BY DEF CopyInv, DataInv
<1> QED BY <1>1, JobFacts DEF Left

(* The copy goes on behind the current chunk.                                *)
LEMMA AdvancedAdvances ==
    ASSUME CopyInv, pc \in CopyPlaces, pc # "drain", job' = Advanced, UNCHANGED <<req, offset>>
    PROVE  Advances
<1>1. job'.left = job.left - job.chunk
  BY InJob, AdvancedFields
<1>2. PICK l \in Nat, c \in Nat : l = job.left /\ c = job.chunk /\ c > 0
  BY InJob
<1>3. job'.left < job.left
  BY <1>1, <1>2
<1> QED BY <1>3, InJob DEF Advances

(* The copy comes closer to its next chunk.                                  *)
LEMMA StageAdvances ==
    ASSUME Stage' < Stage, job' = job, UNCHANGED <<req, offset>>
    PROVE  Advances
BY DEF Advances, Left

LEMMA ToObjectAdvances ==
    ASSUME CopyInv, ToObject
    PROVE  Advances
<1>1. CASE FillFirst
  <2>1. /\ pc = "toObject" /\ pc' = "send" /\ job' = job /\ UNCHANGED <<req, offset>>
    BY <1>1 DEF FillFirst, Goto, managerVars
  <2>2. Stage = 3 /\ Stage' = 2
    BY <2>1, StageFacts DEF Stage
  <2> QED BY <2>1, <2>2, StageAdvances
<1>2. CASE Send
  <2>1. /\ pc = "send" /\ pc' = "refill" /\ job' = job /\ UNCHANGED <<req, offset>>
    BY <1>2 DEF Send, Goto, managerVars
  <2>2. Stage = 2 /\ Stage' = 1
    BY <2>1, StageFacts DEF Stage
  <2> QED BY <2>1, <2>2, StageAdvances
<1>3. CASE Refill
  <2>1. /\ pc = "refill" /\ job' = Advanced /\ UNCHANGED <<req, offset>>
    BY <1>3 DEF Refill, managerVars
  <2> QED BY <2>1, AdvancedAdvances DEF CopyPlaces
<1>4. CASE Drain
  <2>1. /\ pc = "drain" /\ pc' = "memcpy" /\ job' = NoJob /\ UNCHANGED <<req, offset>>
    BY <1>4 DEF Drain, EndJob, managerVars
  <2>2. Stage = 1 /\ Stage' = 0
    BY <2>1, StageFacts DEF Stage
  <2>3. job.left = 0 /\ job'.left = 0 /\ Left' = Left
    BY <2>1, InJob DEF CopyPlaces, NoJob
  <2> QED BY <2>2, <2>3 DEF Advances
<1> QED BY <1>1, <1>2, <1>3, <1>4 DEF ToObject

LEMMA FromObjectAdvances ==
    ASSUME CopyInv, FromObject
    PROVE  Advances
<1>1. CASE FetchFirst
  <2>1. /\ pc = "fromObject" /\ pc' = "fetch" /\ job' = job /\ UNCHANGED <<req, offset>>
    BY <1>1 DEF FetchFirst, Goto, managerVars
  <2>2. Stage = 3 /\ Stage' = 2
    BY <2>1, StageFacts DEF Stage
  <2> QED BY <2>1, <2>2, StageAdvances
<1>2. CASE Fetch
  <2>1. /\ pc = "fetch" /\ pc' = "store" /\ job' = job /\ UNCHANGED <<req, offset>>
    BY <1>2 DEF Fetch, Goto, managerVars
  <2>2. Stage = 2 /\ Stage' = 1
    BY <2>1, StageFacts DEF Stage
  <2> QED BY <2>1, <2>2, StageAdvances
<1>3. CASE Store
  <2>1. /\ pc = "store" /\ UNCHANGED <<req, offset>> /\ pc \in CopyPlaces /\ pc # "drain"
    BY <1>3 DEF Store, managerVars, CopyPlaces
  <2>2. CASE job' = Advanced
    BY <2>1, <2>2, AdvancedAdvances
  <2>3. CASE job' = NoJob
    <3>1. job'.left = 0
      BY <2>3 DEF NoJob
    <3>2. job.left > 0 /\ Left' = Left
      BY <2>1, InJob
    <3> QED BY <3>1, <3>2 DEF Advances
  <2> QED BY <1>3, <2>2, <2>3 DEF Store, EndJob
<1> QED BY <1>1, <1>2, <1>3 DEF FromObject

LEMMA BetweenObjectsAdvances ==
    ASSUME CopyInv, BetweenObjects
    PROVE  Advances
<1>1. CASE Load \/ Reload
  <2>1. /\ pc \in {"objectToObject", "reload"} /\ pc' \in {"secondFetch", "secondReload", "forward"}
        /\ job' = job /\ UNCHANGED <<req, offset>>
    BY <1>1 DEF Load, Reload, LoadFirst, Goto, managerVars
  <2>2. Stage = 3 /\ Stage' \in {1, 2}
    BY <2>1, StageFacts DEF Stage
  <2>3. Stage' < Stage
    BY <2>2
  <2> QED BY <2>1, <2>3, StageAdvances
<1>2. CASE LoadRest \/ ReloadRest
  <2>1. /\ pc \in {"secondFetch", "secondReload"} /\ pc' = "forward"
        /\ job' = job /\ UNCHANGED <<req, offset>>
    BY <1>2 DEF LoadRest, ReloadRest, LoadSecond, Goto, managerVars
  <2>2. Stage = 2 /\ Stage' = 1
    BY <2>1, StageFacts DEF Stage
  <2> QED BY <2>1, <2>2, StageAdvances
<1>3. CASE Forward
  <2>1. /\ pc = "forward" /\ job' = Advanced /\ UNCHANGED <<req, offset>>
    BY <1>3 DEF Forward, managerVars
  <2> QED BY <2>1, AdvancedAdvances DEF CopyPlaces
<1>4. CASE FastCopy
  <2>1. PICK n \in 1 .. job.left : Walks(n)
    BY <1>4, FastCopyWrites
  <2>2. /\ pc = "fast" /\ UNCHANGED <<req, offset>>
        /\ job' = [job EXCEPT !.dst = @ + n, !.src = @ + n, !.left = @ - n, !.i = @ + 1, !.j = @ + 1]
    BY <2>1 DEF Walks, managerVars
  <2>3. DataTypes
    BY DEF CopyInv, DataInv
  <2>4. job'.left = job.left - n /\ job.left \in Nat
    BY <2>2, <2>3 DEF DataTypes
  <2>5. PICK l \in Nat : l = job.left
    BY <2>4
  <2>6. n \in Int /\ n > 0
    BY <2>5
  <2>7. job'.left < job.left /\ Left' = Left
    BY <2>2, <2>4, <2>5, <2>6 DEF Left
  <2> QED BY <2>7 DEF Advances
<1>5. CASE FastReturns
  <2>1. /\ pc = "fast" /\ pc' = "memcpy" /\ job.left = 0 /\ job' = NoJob
        /\ UNCHANGED <<req, offset>>
    BY <1>5 DEF FastReturns, Goto, managerVars
  <2>2. Stage = 1 /\ Stage' = 0
    BY <2>1, StageFacts DEF Stage
  <2>3. job'.left = job.left /\ Left' = Left
    BY <2>1 DEF NoJob, Left
  <2> QED BY <2>2, <2>3 DEF Advances
<1> QED BY <1>1, <1>2, <1>3, <1>4, <1>5 DEF BetweenObjects

LEMMA StepAdvances ==
    ASSUME CopyInv, Next, vars' # vars, pc # "idle", pc' # "idle"
    PROVE  Advances
<1>1. CASE Begins
  BY <1>1 DEF Begins, Memcpy, Memset
<1>2. CASE Works
  <2>1. ~Return
    BY DEF Return
  <2> QED BY <1>2, <2>1, ManagesAdvances, ToObjectAdvances, FromObjectAdvances,
             BetweenObjectsAdvances DEF Works, Manages
<1>3. ASSUME NEW b \in Buffers, Transfer(b)
      PROVE  Advances
  <2>1. /\ ~Waited(b) /\ flight' = [flight EXCEPT ![b] = NoTransfer]
        /\ job' = job /\ pc' = pc /\ UNCHANGED <<req, offset>>
    BY <1>3 DEF Transfer, managerVars
  <2>2. Stage' = Stage /\ Left' = Left
    BY <2>1 DEF Stage, Left
  <2> QED BY <2>1, <2>2 DEF Advances
<1> QED BY <1>1, <1>2, <1>3 DEF Next

(* After each step of a call that changes anything there is less to do, in   *)
(* an order in which that cannot go on for ever, wherever the nested loops of*)
(* memcpy, memset and the copies of objects cut the ranges.  What is left is *)
(* to stand still, as the loop of memcpy does at the end of an object it goes*)
(* on past.                                                                  *)
THEOREM LoopsAdvance ==
    ASSUME AlignedRequests
    PROVE  Spec => CallsAdvance
<1>1. CopyInv /\ [Next]_vars => [pc # "idle" /\ pc' # "idle" => Advances]_vars
  BY StepAdvances
<1> QED BY <1>1, CopyInvAlways, PTL DEF Spec, CallsAdvance

===============================================================================
