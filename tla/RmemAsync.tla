----------------------------- MODULE RmemAsync -----------------------------
(***************************************************************************)
(* rmem_request_async (MODE_ASYNC).  A call takes an array of rdma_request *)
(* from the device's ring of arrays, fetches requests until the queue is   *)
(* empty, dropping the queue lock while it turns the pages of each into    *)
(* array entries, and posts the array at the end, under the lock.          *)
(*                                                                         *)
(* Work requests may be merged across requests (MERGE_REQ).  A request     *)
(* whose pages all went into entries of its predecessors has no work       *)
(* request of its own: its batch is linked behind the previous one and     *)
(* ends with it.                                                           *)
(*                                                                         *)
(* The entries of a call and its batches are seen by nobody else before    *)
(* they are posted, so the loop over the segments of a request is one      *)
(* step, together with taking the queue lock again.                        *)
(***************************************************************************)
EXTENDS BatchedIo, SequencesExt

CONSTANTS
  MAX_REQ,        \* conf.h: entries of an array
  REQ_ARR_SIZE,   \* conf.h: arrays of the device
  MERGE_REQ       \* conf.h: whether adjacent work requests are merged

ASSUME RmemAsyncAssumption ==
  /\ MODE = "ASYNC"
  /\ {MAX_REQ, REQ_ARR_SIZE} \subseteq Nat \ {0}
  /\ MERGE_REQ \in BOOLEAN

(* fn holds the number of arrays in the device's ring (dev->rdma_req,      *)
(* dev->head, dev->tail: the ring of BatchPool once more, and it does not  *)
(* matter which array a call gets) and for every thread the entries of its *)
(* array, how many of them are posted, and last_batch_req.                 *)
arrays == fn.arrays
call   == fn.call

NoCall == [rdma_req |-> << >>, posted |-> 0, last_batch_req |-> NULL]

TypeOK ==
  /\ IoTypeOK
  /\ \A t \in Thread : th[t].pc \in {"idle", "fetch", "insert", "get", "build", "post", "return"}
  /\ arrays \in 1 .. REQ_ARR_SIZE
  /\ \A t \in Thread : call[t].posted <= Len(call[t].rdma_req)
  /\ bug \in {"none", "arrays", "null", "overrun", "post", "status", "pool", "debug"}

Init ==
  /\ IoInit
  /\ fn = [arrays |-> REQ_ARR_SIZE, call |-> [t \in Thread |-> NoCall]]

(* The block layer runs the queue.  get_rdma_request_arr calls BUG when    *)
(* one array is left.                                                      *)
Call(t) ==
  /\ At(t, "idle") /\ qlock = "free" /\ queue # {}
  /\ qlock' = t
  /\ th' = [th EXCEPT ![t].pc = "fetch", ![t].batch_req = NULL]
  /\ bug' = IF arrays = 1 THEN "arrays" ELSE bug
  /\ fn' = IF arrays = 1 THEN fn ELSE [fn EXCEPT !.arrays = arrays - 1]
  /\ UNCHANGED <<blkVars, mem, poolVars, hVars, nicVars>>

(* last_batch_req = batch_req; batch_req = get_batch_request(...) *)
NextBatch(t) ==
  /\ GetBatch(t)
  /\ fn' = [fn EXCEPT !.call[t].last_batch_req = th[t].batch_req]

(* One segment: a new entry, or an extension of the last one. *)
AddEntry(entries, new) ==
  IF MERGE_REQ /\ entries # << >> /\ Adjacent(Last(entries), new)
  THEN [entries EXCEPT ![Len(entries)].length = @ + new.length]
  ELSE Append(entries, new)

(* Mutants: a batch without work requests is not linked; a merged segment  *)
(* is counted as a work request of the batch.                              *)
Link_Never(bs, last, b, n) == [bs EXCEPT ![b].outstanding_reqs = n]

Link_CountAll(bs, last, b, n) ==
  IF n = 0 THEN [bs EXCEPT ![last].next = b, ![b].outstanding_reqs = 1]
  ELSE [bs EXCEPT ![b].outstanding_reqs = n]

(* Batch b has n work requests of its own; without any it is linked behind *)
(* the previous batch of the call.                                         *)
Link(bs, last, b, n) ==
  IF n = 0 THEN [bs EXCEPT ![last].next = b]
  ELSE [bs EXCEPT ![b].outstanding_reqs = n]

(* The segments of the request become entries, and the lock is taken again.*)
Build(t) ==
  LET q == req[th[t].rq]
      b == th[t].batch_req
      old == call[t].rdma_req
  IN  /\ At(t, "build") /\ qlock = "free"
      /\ \E dma \in [Segs(q) -> Address] :
           /\ \A j \in Segs(q) : dma[j] \in MapResults(q.bufs[j])
           /\ LET new == FoldLeft(AddEntry, old,
                                  [j \in Segs(q) |-> RdmaReq(q, j, dma[j], b)])
              IN  /\ fn' = [fn EXCEPT !.call[t].rdma_req = new]
                  /\ batch' = Link(batch, call[t].last_batch_req, b, Len(new) - Len(old))
                  /\ bug' = IF Len(new) >= MAX_REQ THEN "overrun" ELSE bug
      /\ th' = [th EXCEPT ![t].pc = "fetch"]
      /\ qlock' = t
      /\ UNCHANGED <<blkVars, mem, pool, io_req, hVars, nicVars>>

(* blk_fetch_request has returned NULL: what there is is posted. *)
QueueEmpty(t) ==
  /\ At(t, "fetch") /\ queue = {}
  /\ th' = [th EXCEPT ![t].pc = IF call[t].rdma_req = << >> THEN "return" ELSE "post"]
  /\ UNCHANGED <<blkVars, mem, qlock, poolVars, hVars, nicVars, fn, bug>>

(* rdma_op posts the next entry. *)
Post(t) ==
  LET i == call[t].posted + 1
  IN  /\ At(t, "post")
      /\ send_wr(call[t].rdma_req[i])
      /\ fn' = [fn EXCEPT !.call[t].posted = i]
      /\ th' = [th EXCEPT ![t].pc = IF i = Len(call[t].rdma_req) THEN "return" ELSE "post"]
      /\ UNCHANGED <<blkVars, mem, qlock, poolVars, hVars>>

(* return_rdma_request_arr, and the end of the call: the caller drops the  *)
(* queue lock.                                                             *)
ReturnArray(t) ==
  /\ At(t, "return")
  /\ bug' = IF arrays = REQ_ARR_SIZE THEN "arrays" ELSE bug
  /\ fn' = IF arrays = REQ_ARR_SIZE THEN fn
           ELSE [fn EXCEPT !.arrays = arrays + 1, !.call[t] = NoCall]
  /\ th' = [th EXCEPT ![t].pc = "idle", ![t].batch_req = NULL, ![t].rq = NULL]
  /\ qlock' = "free"
  /\ UNCHANGED <<blkVars, mem, poolVars, hVars, nicVars>>

Fetch(t, r) == FetchFs(t, r) \/ FetchNonFs(t, r)

RequestFunction(t) ==
  \/ Call(t)
  \/ \E r \in Req : Fetch(t, r)
  \/ Insert(t)
  \/ NextBatch(t)
  \/ Build(t)
  \/ QueueEmpty(t)
  \/ Post(t)
  \/ ReturnArray(t)

(* What the driver and the NIC do. *)
System ==
  \/ \E t \in Thread : RequestFunction(t)
  \/ Handler
  \/ Nic

Next ==
  \/ \E r \in Req, q \in IoRequests : SubmitRequest(r, q)
  \/ System

FaultyNext == Next \/ NicFail \/ NicFlush

(* The threads, the handler and the NIC keep going; the spin locks are     *)
(* ticket locks and admit every waiter, and the elevator does not starve a *)
(* request.                                                                *)
Fairness ==
  /\ \A t \in Thread : /\ WF_vars(\/ Insert(t) \/ NextBatch(t)
                                  \/ QueueEmpty(t) \/ Post(t) \/ ReturnArray(t))
                       /\ SF_vars(Build(t))
  /\ WF_vars(\E t \in Thread : Call(t))
  /\ \A r \in Req : SF_vars(\E t \in Thread : Fetch(t, r))
  /\ SF_vars(HandlerEnd)
  /\ WF_vars(Handler)
  /\ WF_vars(Nic)

Spec       == Init /\ [][Next]_vars
FairSpec   == Spec /\ Fairness
FaultySpec == Init /\ [][FaultyNext]_vars

-----------------------------------------------------------------------------
(* Properties. *)

(* The limits of a call are kept likewise.  Each caller inside             *)
(* rmem_request_async has one array, and the others are in the ring: so    *)
(* get_rdma_request_arr meets its BUG only when REQ_ARR_SIZE callers are   *)
(* inside.  The BUG_ON on the entries of the array is met only when the    *)
(* requests in flight have MAX_REQ segments together.                      *)
CallsStopOnlyAtLimit ==
  LET inside == Cardinality({t \in Thread : th[t].pc # "idle"})
  IN  /\ StopsOnlyAtLimit
      /\ IF bug = "arrays" THEN inside = REQ_ARR_SIZE ELSE arrays = REQ_ARR_SIZE - inside
      /\ bug = "overrun" => Cardinality(SegsInFlight) >= MAX_REQ

(* outstanding_reqs of a batch counts exactly its work requests that are   *)
(* not done: the entries still to be posted, those the NIC holds, and the  *)
(* completions the handler has not seen.  So no request ends early, and    *)
(* none waits for a completion that cannot come.                           *)
OutstandingExact ==
  bug = "none" => \A b \in Object :
    batch[b].outstanding_reqs =
        Cardinality({<<t, i>> \in Thread \X (1 .. MAX_REQ) :
                       /\ i \in call[t].posted + 1 .. Len(call[t].rdma_req)
                       /\ call[t].rdma_req[i].batch_req = b})
      + Cardinality({i \in 1 .. Len(sq) : sq[i].wr_id = b})
      + Cardinality({i \in 1 .. Len(cq) : cq[i].wr_id = b})
=============================================================================
