----------------------------- MODULE BatchPool -----------------------------
(***************************************************************************)
(* The pool of struct batch_request of one session: get_batch_request is   *)
(* called by the request functions, return_batch_request by the completion *)
(* handler, each under pool->lock and so in one step.  The callers return  *)
(* only what they got, and once.                                           *)
(***************************************************************************)
EXTENDS Ring, FiniteSets

CONSTANT size   \* REQ_POOL_SIZE

ASSUME PoolSizeAssumption == size \in Nat \ {0}

VARIABLES
  pool,   \* the ring
  out,    \* the batch requests the callers hold
  ret,    \* what the last get_batch_request returned
  lock,   \* pool->lock: "free", or "leaked" by a return that left it locked
  bug     \* BUG_ON(ret == NULL) has fired

vars == <<pool, out, ret, lock, bug>>

Slot   == 0 .. size - 1
Object == 0 .. size - 1

TypeOK ==
  /\ pool \in [data : [Slot -> Object \cup {NULL}], head : Slot, tail : Slot]
  /\ out \in SUBSET Object
  /\ ret \in Object \cup {NULL}
  /\ lock \in {"free", "leaked"}
  /\ bug \in BOOLEAN

(* get_batch_request_pool *)
Init ==
  /\ pool = NewRing(size)
  /\ out = {}
  /\ ret = NULL
  /\ lock = "free"
  /\ bug = FALSE

(* BUG_ON stops the caller; nothing that follows is looked at. *)
get_batch_request ==
  LET front == pool.data[pool.head]
  IN  /\ lock = "free" /\ ~bug
      /\ \/ /\ AlmostEmpty(pool)
            /\ ret' = NULL
            /\ UNCHANGED <<pool, out, bug>>
         \/ /\ ~AlmostEmpty(pool)
            /\ bug' = (front = NULL)
            /\ ret' = front
            /\ out' = out \cup ({front} \ {NULL})
            /\ pool' = TakeFront(pool, size)
      /\ UNCHANGED lock

(* The error paths return without the unlock. *)
return_batch_request(req) ==
  /\ lock = "free" /\ ~bug
  /\ req \in out
  /\ out' = out \ {req}
  /\ lock' = IF PutRefused(pool, size) THEN "leaked" ELSE lock
  /\ pool' = IF PutRefused(pool, size) THEN pool ELSE PutBack(pool, size, req)
  /\ UNCHANGED <<ret, bug>>

(* The batch requests debug_show_out_req reports, under pool->lock: those  *)
(* whose id it has not met in the ring.                                    *)
debug_show_out_req == Object \ {pool.data[j] : j \in Slot}

Next == get_batch_request \/ \E req \in Object : return_batch_request(req)

Spec == Init /\ [][Next]_vars

-----------------------------------------------------------------------------
(* Properties. *)

(* The number of filled slots, from the two indices alone. *)
Filled == IF pool.head <= pool.tail THEN pool.tail - pool.head + 1
          ELSE pool.tail - pool.head + 1 + size

(* Neither the BUG_ON of get_batch_request nor the error paths of          *)
(* return_batch_request, which would leave pool->lock held for ever, are   *)
(* reached, however gets and returns interleave.                           *)
NoErrorPath == lock = "free" /\ ~bug

(* get_batch_request refuses only when all but one of the batch requests   *)
(* are in use; whoever keeps fewer in use need not look at its result.     *)
RefusedOnlyWhenOut == AlmostEmpty(pool) => Cardinality(out) = size - 1

(* "missing pool object, so they are outgoing batch_reqs": what            *)
(* /proc/rmem_debug reports as outstanding are exactly the batch requests  *)
(* in use, and none is ever lost.                                          *)
ShownAreOut == debug_show_out_req = out

(* The slot behind the k-th one that is filled, and the free list the ring *)
(* stands for.                                                             *)
SlotAt(k) == IF pool.head + k < size THEN pool.head + k ELSE pool.head + k - size
FreeSeq == [i \in 1 .. Filled |-> pool.data[SlotAt(i - 1)]]

FL == INSTANCE FreeList WITH N <- size, free <- FreeSeq

(* The ring implements the first-in first-out free list: nothing is lost,  *)
(* nothing is given out twice, and what was returned last stays until      *)
(* another is returned.                                                    *)
FreeListRefined == FL!Spec
=============================================================================
