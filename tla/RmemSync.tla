------------------------------ MODULE RmemSync ------------------------------
(***************************************************************************)
(* The data path of the module as conf.h builds it: MODE_SYNC, COPY_LESS,  *)
(* SIMPLE_POLL, SIMPLE_MAKE_WR.                                            *)
(*                                                                         *)
(* rmem_request_sync fetches every request of the queue, turns each page   *)
(* of it into a work request in dev->wrs, posts the linked work requests   *)
(* to the queue pair when the array is full and once more at the end,      *)
(* spins in poll_cq until as many completions have been polled as work     *)
(* requests were counted, and only then ends the requests.  It runs with   *)
(* the queue lock held and interrupts off and never drops the lock: nobody *)
(* submits while it runs, and its only concurrent partner is the RDMA NIC. *)
(*                                                                         *)
(* Two loops of the C code are one step here per iteration: fetching a     *)
(* request, and handling a segment.  The NIC is idle between a completed   *)
(* poll_cq and the next ib_post_send, so the assignments of one iteration  *)
(* up to and including ib_post_send are a single step.                     *)
(***************************************************************************)
EXTENDS BlockLayer, FiniteSets

CONSTANTS
  MAX_REQ,     \* conf.h: entries of dev->wrs, dev->sges and dev->blk_req
  CQE_SIZE,    \* conf.h: capacity of the send queue and of its completion queue
  POLL_BATCH,  \* entries of the wc array of poll_cq (10 in the source)
  ULONG,       \* 2^64: the modulus of ctx->outstanding_requests
  MERGE_REQ,   \* conf.h: whether adjacent work requests are merged
  rem_vaddr,   \* first page of the region the server registered
  REM_PAGES    \* pages of the server's memory, the registered ones included

ASSUME RmemSyncAssumption ==
  /\ MAX_REQ \in Nat \ {0}
  /\ CQE_SIZE \in Nat /\ MAX_REQ <= CQE_SIZE
  /\ POLL_BATCH \in Nat \ {0}
  /\ ULONG \in Nat /\ MAX_REQ < ULONG
  /\ MERGE_REQ \in BOOLEAN
  /\ rem_vaddr \in Nat
  /\ REM_PAGES \in Nat /\ rem_vaddr + NPages <= REM_PAGES

(* The queue never holds more requests than dev->blk_req has entries: a    *)
(* queue has BLKDEV_MAX_RQ = 128 requests unless nr_requests is raised.    *)
ASSUME QueueDepthAssumption ==
  IsFiniteSet(Req) /\ Cardinality(Req) <= MAX_REQ

VARIABLES
  \* the block layer and the two memories
  req, res, ram, xfer,     \* as in BlockDevice
  queue,                   \* the queued requests; the elevator picks among them
  mem,                     \* the server's memory
  \* rmem_request_sync and the struct rmem_device it works on
  pc,                      \* where rmem_request_sync is
  ret,                     \* where it goes on after poll_cq
  seg,                     \* the segment it is at
  blk_req,                 \* dev->blk_req[0 .. blk_req_count - 1]
  rdma_req_count,
  wrs,                     \* dev->wrs with dev->sges
  outstanding_requests,    \* ctx->outstanding_requests
  \* the queue pair
  qp,                      \* its state, "RTS" or "ERR"
  sq,                      \* the work requests posted and not completed
  cq                       \* the number of completions not polled yet

blkVars == <<req, res, ram, xfer, queue>>
devVars == <<pc, ret, seg, blk_req, rdma_req_count, wrs, outstanding_requests>>
nicVars == <<qp, sq, cq>>
vars    == <<blkVars, mem, devVars, nicVars>>

BD == INSTANCE BlockDevice WITH disk <- [p \in Page |-> mem[rem_vaddr + p]]

RemAddr == 0 .. REM_PAGES - 1

(* The pages the rkey of the session gives access to. *)
Registered == rem_vaddr .. rem_vaddr + NPages - 1

(* struct ib_send_wr with its one struct ib_sge, in pages.  next is the    *)
(* index of the following work request of the chain; entry 0 is never the  *)
(* successor of another, so 0 stands for NULL.                             *)
WrType ==
  [op : {"READ", "WRITE"}, addr : Nat, len : Nat, raddr : Nat, next : Nat]

(* A work request as the send queue holds it: what is left to be moved. *)
SqeType == [op : {"READ", "WRITE"}, addr : Nat, len : Nat, raddr : Nat]

TypeOK ==
  /\ req  \in [Req -> RequestType]
  /\ res  \in [Req -> {"none", "ok", "eio"}]
  /\ ram  \in [Address -> Val]
  /\ xfer \in [Req -> SUBSET Nat]
  /\ queue \in SUBSET Req
  /\ mem  \in [RemAddr -> Val]
  /\ pc \in {"idle", "fetch", "seg", "poll", "end"}
  /\ ret \in {"fetch", "seg", "end"}
  /\ seg \in Nat \ {0}
  /\ blk_req \in Seq(Req)
  /\ rdma_req_count \in 0 .. MAX_REQ
  /\ wrs \in [0 .. MAX_REQ - 1 -> WrType]
  /\ outstanding_requests \in 0 .. ULONG - 1
  /\ qp \in {"RTS", "ERR"}
  /\ sq \in Seq(SqeType)
  /\ cq \in Nat

Init ==
  /\ mem \in [RemAddr -> Val]
  /\ BD!Init
  /\ queue = {}
  /\ pc = "idle" /\ ret = "end"
  /\ seg = 1
  /\ blk_req = << >>
  /\ rdma_req_count = 0
  /\ wrs = [i \in 0 .. MAX_REQ - 1 |->
              [op |-> "WRITE", addr |-> 0, len |-> 0, raddr |-> 0, next |-> 0]]
  /\ outstanding_requests = 0
  /\ qp = "RTS" /\ sq = << >> /\ cq = 0

-----------------------------------------------------------------------------
(* The block layer. *)

(* A request enters the queue, under the queue lock. *)
SubmitRequest(r, q) ==
  /\ pc = "idle"
  /\ UNCHANGED mem
  /\ BD!Submit(r, q)
  /\ queue' = queue \cup {r}
  /\ UNCHANGED <<devVars, nicVars>>

(* The block layer runs the queue: it calls rmem_request_sync. *)
RunQueue ==
  /\ pc = "idle" /\ queue # {}
  /\ pc' = "fetch"
  /\ UNCHANGED <<blkVars, mem, ret, seg, blk_req, rdma_req_count, wrs,
                 outstanding_requests, nicVars>>

-----------------------------------------------------------------------------
(* Building the chain of work requests. *)

(* The request being handled is the last one stored in dev->blk_req. *)
cur == blk_req[Len(blk_req)]

(* Mutants: rem_vaddr is forgotten; it is subtracted. *)
simple_make_wr_NoBase(wr, op, dma_addr, remote_offset, length) ==
  [op |-> op, addr |-> dma_addr, len |-> length, raddr |-> remote_offset, next |-> wr.next]

simple_make_wr_Minus(wr, op, dma_addr, remote_offset, length) ==
  [op |-> op, addr |-> dma_addr, len |-> length,
   raddr |-> remote_offset - rem_vaddr, next |-> wr.next]

(* simple_make_wr fills in a work request and leaves its next as it was. *)
simple_make_wr(wr, op, dma_addr, remote_offset, length) ==
  [op |-> op, addr |-> dma_addr, len |-> length,
   raddr |-> rem_vaddr + remote_offset, next |-> wr.next]

(* Mutant: the operations are not compared. *)
merge_wr_AnyOp(old, new) ==
  old.addr + old.len = new.addr /\ old.raddr + old.len = new.raddr

(* merge_wr: new continues old both in local and in remote memory. *)
merge_wr(old, new) ==
  /\ old.op = new.op
  /\ old.addr + old.len = new.addr
  /\ old.raddr + old.len = new.raddr

(* Mutant: the sector is not advanced from segment to segment. *)
Sector_Stuck(q, j) == q.page

(* The sector of segment j of request q, in pages. *)
Sector(q, j) == q.page + (j - 1)

(* The work request for the current segment goes into entry n of wrs; it   *)
(* is merged into its predecessor or linked behind it.                     *)
AddWr(dma_addr) ==
  LET n   == rdma_req_count
      q   == req[cur]
      new == simple_make_wr(wrs[n], q.dir, dma_addr, Sector(q, seg), 1)
      w   == [wrs EXCEPT ![n] = new]
  IN  IF MERGE_REQ /\ n > 0 /\ merge_wr(wrs[n - 1], new)
      THEN [wrs |-> [w EXCEPT ![n - 1].len = @ + 1], count |-> n]
      ELSE [wrs |-> IF n > 0 THEN [w EXCEPT ![n - 1].next = n] ELSE w, count |-> n + 1]

(* Mutant: the last work request keeps the link of an earlier chain. *)
EndChain_Stale(w, n) == w

(* dev->wrs[rdma_req_count-1].next = NULL *)
EndChain(w, n) == [w EXCEPT ![n - 1].next = 0]

(* The number of work requests ib_post_send finds from w[0] on. *)
ChainLen(w) ==
  CHOOSE n \in 1 .. MAX_REQ : /\ \A j \in 0 .. n - 2 : w[j].next = j + 1
                              /\ w[n - 1].next = 0

Sqe(wr) == [op |-> wr.op, addr |-> wr.addr, len |-> wr.len, raddr |-> wr.raddr]

(* ib_post_send takes the work requests of the chain in order for as long  *)
(* as the send queue has room; its return value is not looked at.          *)
PostSend(w, n) ==
  LET chain == EndChain(w, n)
      room  == CQE_SIZE - Len(sq)
      len   == IF ChainLen(chain) <= room THEN ChainLen(chain) ELSE room
  IN  /\ wrs' = chain
      /\ outstanding_requests' = n
      /\ sq' = sq \o [j \in 1 .. len |-> Sqe(chain[j - 1])]
      /\ UNCHANGED <<qp, cq>>

-----------------------------------------------------------------------------
(* rmem_request_sync. *)

(* The next request of the queue is a file-system request. *)
FetchFs(r) ==
  /\ pc = "fetch" /\ r \in queue /\ req[r].cmd = "fs"
  /\ queue' = queue \ {r}
  /\ blk_req' = Append(blk_req, r)
  /\ pc' = "seg" /\ seg' = 1
  /\ UNCHANGED <<req, res, ram, xfer, mem, ret, rdma_req_count, wrs,
                 outstanding_requests, nicVars>>

(* The next request of the queue is another one: its current bytes, those  *)
(* of the first segment, end with -EIO.                                    *)
FetchNonFs(r) ==
  /\ pc = "fetch" /\ r \in queue /\ req[r].cmd # "fs"
  /\ queue' = queue \ {r}
  /\ UNCHANGED mem
  /\ BD!EndHeadEio(r)
  /\ UNCHANGED <<devVars, nicVars>>

(* Mutant: off by one. *)
ArrayFull_Late(n) == n > MAX_REQ

(* The array of work requests has to be flushed. *)
ArrayFull(n) == n >= MAX_REQ

(* One segment: its page is mapped to dma_addr and becomes a work request. *)
(* When the array is full, the chain is posted and polled for.             *)
HandleSegment(dma_addr) ==
  LET add  == AddWr(dma_addr)
      more == IF seg = Len(req[cur].bufs) THEN "fetch" ELSE "seg"
  IN  /\ rdma_req_count' = add.count
      /\ seg' = IF more = "seg" THEN seg + 1 ELSE 1
      /\ \/ /\ ArrayFull(add.count)
            /\ PostSend(add.wrs, add.count)
            /\ pc' = "poll" /\ ret' = more
         \/ /\ ~ArrayFull(add.count)
            /\ wrs' = add.wrs
            /\ pc' = more
            /\ UNCHANGED <<ret, outstanding_requests, nicVars>>
      /\ UNCHANGED <<blkVars, mem, blk_req>>

(* blk_fetch_request has returned NULL: what is left is posted. *)
QueueEmpty ==
  /\ pc = "fetch" /\ queue = {}
  /\ \/ /\ rdma_req_count > 0
        /\ PostSend(wrs, rdma_req_count)
        /\ pc' = "poll" /\ ret' = "end"
     \/ /\ rdma_req_count = 0
        /\ pc' = "end"
        /\ UNCHANGED <<ret, wrs, outstanding_requests, nicVars>>
  /\ UNCHANGED <<blkVars, mem, seg, blk_req, rdma_req_count>>

(* Every request fetched ends with success, and the function returns: its  *)
(* counters are locals.                                                    *)
EndRequests ==
  LET ended == {blk_req[i] : i \in 1 .. Len(blk_req)}
  IN  /\ pc = "end"
      /\ req'  = [r \in Req |-> IF r \in ended THEN FreeReq ELSE req[r]]
      /\ res'  = [r \in Req |-> IF r \in ended THEN "ok" ELSE res[r]]
      /\ xfer' = [r \in Req |-> IF r \in ended THEN {} ELSE xfer[r]]
      /\ blk_req' = << >> /\ rdma_req_count' = 0
      /\ pc' = "idle"
      /\ UNCHANGED <<ram, queue, mem, ret, seg, wrs, outstanding_requests, nicVars>>

-----------------------------------------------------------------------------
(* poll_cq. *)

(* Mutant: failed work requests are not counted. *)
Done_OkOnly(count) == IF qp = "RTS" THEN count ELSE 0

(* How many of count polled completions poll_cq takes off                  *)
(* outstanding_requests: all of them, whatever their status.               *)
Done(count) == count

(* ib_poll_cq returns up to POLL_BATCH completions. *)
PollSome ==
  LET count == IF cq <= POLL_BATCH THEN cq ELSE POLL_BATCH
  IN  /\ pc = "poll" /\ cq > 0
      /\ cq' = cq - count
      /\ outstanding_requests' = (outstanding_requests - Done(count)) % ULONG
      /\ UNCHANGED <<blkVars, mem, pc, ret, seg, blk_req, rdma_req_count, wrs, qp, sq>>

(* ib_poll_cq has returned 0 and nothing is outstanding: poll_cq returns. *)
PollDone ==
  /\ pc = "poll" /\ cq = 0 /\ outstanding_requests = 0
  /\ pc' = ret
  /\ rdma_req_count' = IF ret = "end" THEN rdma_req_count ELSE 0
  /\ UNCHANGED <<blkVars, mem, ret, seg, blk_req, wrs, outstanding_requests, nicVars>>

-----------------------------------------------------------------------------
(* The NIC: a reliable connected queue pair.  Work requests complete in    *)
(* the order they were posted.  They also take effect in that order, but   *)
(* for a write that follows a read: no work request carries a fence.       *)

InOrder(i) ==
  \A j \in 1 .. i - 1 : sq[j].len > 0 => sq[j].op = "READ" /\ sq[i].op = "WRITE"

(* What is left of a work request once its first page is moved. *)
Advance(e) ==
  [op |-> e.op, addr |-> e.addr + 1, len |-> e.len - 1, raddr |-> e.raddr + 1]

(* The next page of work request i is moved. *)
NicMove(i) ==
  LET e == sq[i]
  IN  /\ qp = "RTS" /\ e.len > 0 /\ InOrder(i)
      /\ e.raddr \in Registered
      /\ sq' = [sq EXCEPT ![i] = Advance(e)]
      /\ \/ /\ e.op = "WRITE"
            /\ mem' = [mem EXCEPT ![e.raddr] = ram[e.addr]]
            /\ UNCHANGED ram
         \/ /\ e.op = "READ"
            /\ ram' = [ram EXCEPT ![e.addr] = mem[e.raddr]]
            /\ UNCHANGED mem
      /\ xfer' = [r \in Req |->
                    xfer[r] \cup {j \in Segs(req[r]) :
                                    /\ req[r].dir = e.op
                                    /\ req[r].bufs[j] = e.addr
                                    /\ rem_vaddr + req[r].page + j - 1 = e.raddr}]
      /\ UNCHANGED <<req, res, queue, devVars, qp, cq>>

(* The first work request of the send queue completes. *)
NicComplete ==
  /\ qp = "RTS" /\ sq # << >> /\ Head(sq).len = 0
  /\ sq' = Tail(sq) /\ cq' = cq + 1
  /\ UNCHANGED <<blkVars, mem, devVars, qp>>

(* A work request fails (the server is gone, or denies the access) and the *)
(* queue pair enters the error state, which it never leaves.               *)
NicFail ==
  /\ qp = "RTS" /\ sq # << >>
  /\ qp' = "ERR"
  /\ UNCHANGED <<blkVars, mem, devVars, sq, cq>>

(* In the error state every work request is flushed: it completes with an  *)
(* error status and moves nothing.                                         *)
NicFlush ==
  /\ qp = "ERR" /\ sq # << >>
  /\ sq' = Tail(sq) /\ cq' = cq + 1
  /\ UNCHANGED <<blkVars, mem, devVars, qp>>

-----------------------------------------------------------------------------
(* rdma_map_address returns the bus address of the segment's page frame, or *)
(* 0 when the mapping fails.                                               *)
SegmentMapped == pc = "seg" /\ HandleSegment(req[cur].bufs[seg])
SegmentMapError == pc = "seg" /\ HandleSegment(0)

Driver ==
  \/ RunQueue
  \/ \E r \in Req : FetchFs(r) \/ FetchNonFs(r)
  \/ SegmentMapped
  \/ QueueEmpty
  \/ EndRequests
  \/ PollSome
  \/ PollDone

Nic ==
  \/ \E i \in 1 .. Len(sq) : NicMove(i)
  \/ NicComplete
  \/ NicFlush

Next ==
  \/ \E r \in Req, q \in IoRequests : SubmitRequest(r, q)
  \/ Driver
  \/ Nic

(* With failures of the connection and of the mapping. *)
FaultyNext == Next \/ NicFail \/ SegmentMapError

(* The spinning driver and the NIC keep going; nobody has to submit. *)
Fairness == WF_vars(Driver) /\ WF_vars(Nic)

Spec       == Init /\ [][Next]_vars /\ Fairness
FaultySpec == Init /\ [][FaultyNext]_vars /\ WF_vars(Driver \/ SegmentMapError) /\ WF_vars(Nic)

-----------------------------------------------------------------------------
(* Properties. *)

(* poll_cq waits for exactly the work requests that were posted: what it   *)
(* still counts as outstanding is what the send queue and the completion   *)
(* queue hold, so it neither returns early nor spins for a completion that *)
(* cannot come, and between two calls the NIC holds no work request of the *)
(* driver and the completion queue is empty.                               *)
OutstandingExact ==
  IF pc = "poll" THEN outstanding_requests = Len(sq) + cq
  ELSE outstanding_requests = 0 /\ sq = << >> /\ cq = 0

(* No work request, merged or not, reaches outside the region the server   *)
(* registered: rem_vaddr plus the sector offset of the segment stays       *)
(* within the capacity that rmem_init announced.                           *)
RemoteInBounds ==
  \A i \in 1 .. Len(sq) :
    sq[i].raddr >= rem_vaddr /\ sq[i].raddr + sq[i].len <= rem_vaddr + NPages

(* dev->blk_req[blk_req_count++] and dev->wrs + rdma_req_count stay inside *)
(* their arrays of MAX_REQ entries, although blk_req_count, unlike         *)
(* rdma_req_count, is not reset by a flush: no request is fetched twice    *)
(* in one call.                                                            *)
ArraysInBounds ==
  /\ Len(blk_req) <= MAX_REQ
  /\ pc \in {"fetch", "seg"} => rdma_req_count < MAX_REQ

(* The driver implements the block device: every page of a request is      *)
(* moved exactly once, from and to the right place, before                 *)
(* __blk_end_request_all reports success.                                  *)
BlockDeviceRefined == BD!Spec

(* Even when work requests and mappings fail, the NIC works only under a   *)
(* request: every page a posted work request has still to move stands for  *)
(* a segment of a request that has not ended.  It goes in the direction of *)
(* that request, from or to the segment's page on the server.  The local   *)
(* page is the segment's frame, or the bus address 0 when the mapping      *)
(* failed: that memory is nobody's, and the code uses it all the same.  So *)
(* poll_cq never lets a request end while the NIC may touch its pages, and *)
(* merging never takes in a page nobody asked for.                         *)
PostedPagesLive ==
  \A i \in 1 .. Len(sq) : \A n \in 0 .. sq[i].len - 1 :
    \E r \in Req : \E j \in Segs(req[r]) :
      /\ req[r].cmd = "fs" /\ req[r].dir = sq[i].op
      /\ sq[i].raddr + n = rem_vaddr + Sector(req[r], j)
      /\ sq[i].addr + n \in {req[r].bufs[j], 0}

(* Every file-system request that is submitted ends, faults or not.        *)
FsRequestsEnd ==
  \A r \in Req : req[r].cmd = "fs" ~> req[r].cmd = "none"

(* A request reported as done has had all of its pages moved: rdma_op's    *)
(* "wait until all requests are done" and the BUG() of the other modes'    *)
(* completion handler on a failed work request.                            *)
OkMeansMoved ==
  [][ \A r \in Req : res[r] = "none" /\ res'[r] = "ok" => xfer[r] = Segs(req[r]) ]_vars
=============================================================================
