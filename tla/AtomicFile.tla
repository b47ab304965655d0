----------------------------- MODULE AtomicFile -----------------------------
(***************************************************************************)
(* What pread and pwrite promise to threads that share a file: each call   *)
(* takes effect at one instant between its start and its return.  A read   *)
(* may stop short of bytes that were appended after it began, but all it   *)
(* returns is of one instant.                                              *)
(***************************************************************************)
EXTENDS Integers

CONSTANTS Threads, Units, Zero, None

VARIABLES
  file,     \* file[u]: what unit u of the file holds
  size,
  pending,  \* pending[t]: the call of t that has not returned; least: the size when a read began
  result    \* result[t]: what the last read of t returned, as a partial function

vars == <<file, size, pending, result>>

Range(call) == call.off .. call.off + call.len - 1
Put(call, w) == [u \in Units |-> IF u \in Range(call) THEN <<w, u>> ELSE file[u]]

Init ==
  /\ file = [u \in Units |-> Zero] /\ size = 0
  /\ pending = [t \in Threads |-> None]
  /\ result = [t \in Threads |-> <<>>]

Call(t) ==
  /\ pending[t] = None /\ pending'[t] # None
  /\ pending' = [pending EXCEPT ![t] = pending'[t]]
  /\ pending'[t].kind = "read" => pending'[t].least = size
  /\ result' = [result EXCEPT ![t] = <<>>]
  /\ UNCHANGED <<file, size>>

Write(t) ==
  /\ pending[t] # None /\ pending[t].kind = "write"
  /\ pending' = [pending EXCEPT ![t] = None]
  /\ file' = Put(pending[t], pending[t].serial)
  /\ size' = IF pending[t].off + pending[t].len > size THEN pending[t].off + pending[t].len ELSE size
  /\ UNCHANGED result

Read(t) ==
  /\ pending[t] # None /\ pending[t].kind = "read"
  /\ pending' = [pending EXCEPT ![t] = None]
  /\ \E end \in pending[t].least .. size :
        result' = [result EXCEPT ![t] = [u \in {x \in Range(pending[t]) : x < end} |-> file[u]]]
  /\ UNCHANGED <<file, size>>

Next == \E t \in Threads : Call(t) \/ Write(t) \/ Read(t)

Spec == Init /\ [][Next]_vars
=============================================================================
