------------------------------ MODULE ByteCopies ------------------------------
(***************************************************************************)
(* What Manager::memcpy and Manager::memset (src/src/memory/Manager.cpp)   *)
(* promise the program: whatever the range covers, host memory, objects or *)
(* parts of both, each byte of the destination gets its new value once, no *)
(* other byte changes, and the call returns when all of them have it.      *)
(*                                                                         *)
(* Between calls every byte is named after its address, whatever it holds, *)
(* so that the value of a byte says where it comes from.                   *)
(***************************************************************************)
EXTENDS Naturals

CONSTANTS
    Top,        \* the last address
    Requests    \* the calls the program makes

\* The byte memset writes.
Fresh == Top + 1

Cells == 0..Top

NoRequest == [call |-> "none"]

VARIABLES
    mem,    \* the bytes of memory
    req     \* the call that is running

vars == <<mem, req>>

\* The address range of n bytes at a.
Bytes(a, n) == a..(a + n - 1)

\* The value each byte has after call r.
Result(r) ==
    [a \in Cells |->
       IF a \notin Bytes(r.dst, r.size) THEN a
       ELSE IF r.call = "memset" THEN Fresh ELSE r.src + (a - r.dst)]

Named == [a \in Cells |-> a]

Init ==
    /\ mem = Named
    /\ req = NoRequest

Begin ==
    /\ req = NoRequest
    /\ req' \in Requests
    /\ UNCHANGED mem

\* Any bytes of the destination get their value.
Move ==
    /\ req # NoRequest
    /\ mem' # mem
    /\ \A a \in Cells : mem'[a] = mem[a] \/ mem'[a] = Result(req)[a]
    /\ UNCHANGED req

Return ==
    /\ req # NoRequest
    /\ mem = Result(req)
    /\ req' = NoRequest
    /\ mem' = Named

Next == Begin \/ Move \/ Return

Spec == Init /\ [][Next]_vars

\* Every call returns.
Returns == req # NoRequest ~> req = NoRequest

===============================================================================
