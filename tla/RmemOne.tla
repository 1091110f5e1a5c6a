------------------------------ MODULE RmemOne ------------------------------
(***************************************************************************)
(* rmem_request_one (MODE_ONE).  A work request is posted as soon as the   *)
(* next segment does not continue it, so completions of a request arrive   *)
(* while its other segments are still being prepared.  outstanding_reqs    *)
(* is counted up by the request function only and comp_reqs by the handler *)
(* only; the handler ends the request when they are equal and              *)
(* all_request_sent is set.                                                *)
(***************************************************************************)
EXTENDS BatchedIo

ASSUME RmemOneAssumption == MODE = "ONE"

(* fn holds for every thread how many segments of its request it has seen, *)
(* and the work requests it has prepared and not posted: cur_rdma_req      *)
(* (when has_req is set) and temp_rdma_req (while cur_rdma_req is flushed).*)
NoCall == [seen |-> 0, held |-> << >>]

TypeOK ==
  /\ IoTypeOK
  /\ \A t \in Thread :
       /\ th[t].pc \in {"idle", "fetch", "insert", "get", "build", "flush", "last", "relock"}
       /\ fn[t].seen \in Nat
       /\ Len(fn[t].held) <= 2
  /\ bug \in {"none", "null", "post", "status", "pool", "debug"}

Init == IoInit /\ fn = [t \in Thread |-> NoCall]

(* The block layer runs the queue. *)
Call(t) ==
  /\ At(t, "idle") /\ qlock = "free" /\ queue # {}
  /\ qlock' = t
  /\ th' = [th EXCEPT ![t].pc = "fetch"]
  /\ UNCHANGED <<blkVars, mem, fn, poolVars, hVars, nicVars, bug>>

NextBatch(t) ==
  /\ GetBatch(t)
  /\ fn' = [fn EXCEPT ![t] = NoCall]

(* Mutant: the work request that is flushed is not counted. *)
NewWork_NotFlushed(held, new) == IF held = << >> THEN 1 ELSE 0

(* How many work requests the segment adds to outstanding_reqs. *)
NewWork(held, new) == IF held # << >> /\ Adjacent(held[1], new) THEN 0 ELSE 1

(* The next segment: the first one becomes cur_rdma_req, one that          *)
(* continues cur_rdma_req extends it, any other one makes the function     *)
(* post cur_rdma_req.  (The code maps the new segment with the length of   *)
(* cur_rdma_req, which merging may have made larger than the page: the     *)
(* address is the same, and how much is mapped is not modelled.)           *)
Segment(t) ==
  LET q == req[th[t].rq]
      b == th[t].batch_req
      j == fn[t].seen + 1
      held == fn[t].held
  IN  /\ At(t, "build") /\ j \in Segs(q)
      /\ \E dma \in MapResults(q.bufs[j]) :
           LET new == RdmaReq(q, j, dma, b)
               merge == held # << >> /\ Adjacent(held[1], new)
           IN  /\ fn' = [fn EXCEPT
                           ![t].seen = j,
                           ![t].held = IF merge
                                       THEN <<[held[1] EXCEPT !.length = @ + new.length]>>
                                       ELSE Append(held, new)]
               /\ batch' = [batch EXCEPT ![b].outstanding_reqs = @ + NewWork(held, new)]
               /\ th' = [th EXCEPT ![t].pc = IF held = << >> \/ merge THEN "build" ELSE "flush"]
      /\ UNCHANGED <<blkVars, mem, qlock, pool, io_req, hVars, nicVars, bug>>

(* rdma_op(&cur_rdma_req, 1); cur_rdma_req = temp_rdma_req *)
PostHeld(t) ==
  /\ send_wr(fn[t].held[1])
  /\ fn' = [fn EXCEPT ![t] = IF th[t].pc = "flush" THEN [@ EXCEPT !.held = Tail(@)]
                             ELSE NoCall]
  /\ UNCHANGED <<blkVars, mem, qlock, poolVars, hVars>>

Flush(t) ==
  /\ At(t, "flush")
  /\ PostHeld(t)
  /\ th' = [th EXCEPT ![t].pc = "build"]

SetAllSent(t) ==
  /\ batch' = [batch EXCEPT ![th[t].batch_req].all_request_sent = TRUE]
  /\ UNCHANGED <<blkVars, mem, qlock, fn, pool, io_req, hVars, nicVars, bug>>

(* Where the function is when it is done with the request. *)
Unlocked == [pc |-> "relock", rq |-> NULL, batch_req |-> NULL]

SegmentsDone(t) == At(t, "build") /\ fn[t].seen = Len(req[th[t].rq].bufs)

(* Mutant: the last work request is posted before all_request_sent is set. *)
LastPost_First(t) ==
  \/ SegmentsDone(t) /\ PostHeld(t) /\ th' = [th EXCEPT ![t].pc = "last"]
  \/ At(t, "last") /\ SetAllSent(t) /\ th' = [th EXCEPT ![t] = Unlocked]

(* all_request_sent is set, then the last work request is posted. *)
LastPost(t) ==
  \/ SegmentsDone(t) /\ SetAllSent(t) /\ th' = [th EXCEPT ![t].pc = "last"]
  \/ At(t, "last") /\ PostHeld(t) /\ th' = [th EXCEPT ![t] = Unlocked]

(* The queue lock is taken again.  The request may have ended already. *)
Relock(t) ==
  /\ At(t, "relock") /\ qlock = "free"
  /\ qlock' = t
  /\ th' = [th EXCEPT ![t].pc = "fetch"]
  /\ UNCHANGED <<blkVars, mem, fn, poolVars, hVars, nicVars, bug>>

(* blk_fetch_request has returned NULL, and the caller drops the lock. *)
QueueEmpty(t) ==
  /\ At(t, "fetch") /\ queue = {}
  /\ th' = [th EXCEPT ![t].pc = "idle"]
  /\ qlock' = "free"
  /\ UNCHANGED <<blkVars, mem, fn, poolVars, hVars, nicVars, bug>>

Fetch(t, r) == FetchFs(t, r) \/ FetchNonFs(t, r)

RequestFunction(t) ==
  \/ Call(t)
  \/ \E r \in Req : Fetch(t, r)
  \/ Insert(t)
  \/ NextBatch(t)
  \/ Segment(t)
  \/ Flush(t)
  \/ LastPost(t)
  \/ Relock(t)
  \/ QueueEmpty(t)

(* What the driver and the NIC do. *)
System ==
  \/ \E t \in Thread : RequestFunction(t)
  \/ Handler
  \/ Nic

Next ==
  \/ \E r \in Req, q \in IoRequests : SubmitRequest(r, q)
  \/ System

(* A failing queue pair meets the handler that RmemAsync's FaultySpec has.  *)
Spec == Init /\ [][Next]_vars

-----------------------------------------------------------------------------
(* Properties. *)

(* The work requests of batch request b that the handler has not seen yet, *)
(* posted and still to be posted.                                          *)
Posted(b) == Cardinality({i \in 1 .. Len(sq) : sq[i].wr_id = b})
             + Cardinality({i \in 1 .. Len(cq) : cq[i].wr_id = b})
Held(b) == Cardinality({<<t, i>> \in Thread \X (1 .. 2) :
                          i <= Len(fn[t].held) /\ fn[t].held[i].batch_req = b})

(* outstanding_reqs runs ahead of comp_reqs by exactly the work requests   *)
(* the handler has not seen, although the one is counted by the request    *)
(* function and the other by the handler while work requests are posted.   *)
CountsExact ==
  bug = "none" => \A b \in Object :
    batch[b].outstanding_reqs = batch[b].comp_reqs + Posted(b) + Held(b)

(* No batch request is forgotten: one that is out of the pool, and that    *)
(* the request function is done with, is waited for by the handler or      *)
(* being ended by it.  The handler looks at all_request_sent only when it  *)
(* polls a completion, so it must be set before the last one can arrive.   *)
NoneForgotten ==
  bug = "none" =>
    \A b \in Object :
      \/ IsFree(b)
      \/ Posted(b) > 0
      \/ \E t \in Thread : th[t].batch_req = b
      \/ curr = b /\ hpc \in {"end", "return"}
=============================================================================
