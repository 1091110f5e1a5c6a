------------------------------ MODULE FreeList ------------------------------
(***************************************************************************)
(* What the users of the batch_request pool rely on: a first-in first-out  *)
(* list of free objects of which the last one is never given out.  So an   *)
(* object that has just been returned stays untouched until another one    *)
(* is returned after it, which comp_handler_send needs: it reads           *)
(* curr->next after return_batch_request(curr).                            *)
(***************************************************************************)
EXTENDS Integers, Sequences

CONSTANT Object, N   \* the objects, N of them

VARIABLES
  free,   \* the free objects, the one returned longest ago first
  out,    \* the objects in use
  ret     \* what the last call returned; -1 is NULL

vars == <<free, out, ret>>

Init ==
  /\ free \in [1 .. N -> Object]
  /\ \A i, j \in 1 .. N : free[i] = free[j] => i = j
  /\ out = {}
  /\ ret = -1

Get ==
  /\ Len(free) > 1
  /\ ret' = Head(free)
  /\ free' = Tail(free)
  /\ out' = out \cup {Head(free)}

Deny ==
  /\ Len(free) = 1
  /\ ret' = -1
  /\ UNCHANGED <<free, out>>

Return(e) ==
  /\ e \in out
  /\ free' = Append(free, e)
  /\ out' = out \ {e}
  /\ UNCHANGED ret

Next == Get \/ Deny \/ \E e \in Object : Return(e)

Spec == Init /\ [][Next]_vars
=============================================================================
