-------------------------------- MODULE Ring --------------------------------
(***************************************************************************)
(* The ring buffer of pointers that both free lists of the driver are      *)
(* made of: the batch_request pool of rdma_library.c and the array of      *)
(* rdma_request arrays of struct rmem_device (MODE_ASYNC).                 *)
(*                                                                         *)
(* head is the slot the next pointer is taken from, tail the slot the last *)
(* pointer was put into; taken slots are NULL.  The objects are named by   *)
(* the slot they start in, as batch_request's id does.                     *)
(***************************************************************************)
EXTENDS Integers

NULL == -1

(* The free list as it is created: every slot filled. *)
NewRing(size) == [data |-> [i \in 0 .. size - 1 |-> i], head |-> 0, tail |-> size - 1]

(* Mutant: the list counts as exhausted only when it has been emptied. *)
AlmostEmpty_Empty(r) == r.data[r.head] = NULL

(* "Pool is almost empty": one pointer is left, and it is not given out. *)
AlmostEmpty(r) == r.head = r.tail

(* Mutants: the slot keeps the pointer that is given out; head does not    *)
(* wrap around.                                                            *)
TakeFront_Keep(r, size) == [r EXCEPT !.head = (r.head + 1) % size]

TakeFront_NoWrap(r, size) ==
  [data |-> [r.data EXCEPT ![r.head] = NULL], head |-> r.head + 1, tail |-> r.tail]

(* The slot at head is cleared and head moves on. *)
TakeFront(r, size) ==
  [data |-> [r.data EXCEPT ![r.head] = NULL],
   head |-> (r.head + 1) % size,
   tail |-> r.tail]

NewTail(r, size) == (r.tail + 1) % size

(* The two errors a returned pointer can meet: the ring is full, or the    *)
(* slot behind tail is taken.                                              *)
PutRefused(r, size) ==
  \/ NewTail(r, size) = r.head
  \/ r.data[NewTail(r, size)] # NULL

(* Mutant: the pointer goes where the last one went. *)
PutBack_Tail(r, size, e) ==
  [data |-> [r.data EXCEPT ![r.tail] = e], head |-> r.head, tail |-> NewTail(r, size)]

PutBack(r, size, e) ==
  [data |-> [r.data EXCEPT ![NewTail(r, size)] = e],
   head |-> r.head,
   tail |-> NewTail(r, size)]
=============================================================================
