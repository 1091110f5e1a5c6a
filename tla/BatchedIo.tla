----------------------------- MODULE BatchedIo -----------------------------
(***************************************************************************)
(* What MODE_ASYNC and MODE_ONE share: the request functions drop the      *)
(* queue lock and return before their work requests are done, and the      *)
(* completion handler of the send queue ends the requests.                 *)
(*                                                                         *)
(* Because the lock is dropped, several threads may be inside the request  *)
(* function at the same time, new requests enter the queue meanwhile, and  *)
(* the handler runs concurrently with all of them.  A batch_request ties a *)
(* struct request to its work requests: its address is their wr_id.        *)
(*                                                                         *)
(* This module holds the block layer, the pool, the queue pair and the     *)
(* handler; RmemAsync and RmemOne add the request function.  The pool is   *)
(* the list of free batch requests from head to tail that BatchPool's ring *)
(* is proved to implement.                                                 *)
(***************************************************************************)
EXTENDS BlockLayer, FiniteSets

CONSTANTS
  Thread,          \* the contexts that may run the queue
  MODE,            \* conf.h: "ASYNC" or "ONE"
  DEBUG_OUT_REQ,   \* conf.h: whether the table of outstanding requests is kept
  IO_REQ_SLOTS,    \* entries of that table (1024 in the source)
  REQ_POOL_SIZE,   \* conf.h: batch requests of the pool
  CQE_SIZE,        \* conf.h: capacity of the send queue and its completion queue
  MAP_FAILS,       \* the page frames rdma_map_address may fail for
  rem_vaddr,       \* first page of the region the server registered
  REM_PAGES        \* pages of the server's memory

ASSUME BatchedIoAssumption ==
  /\ MODE \in {"ASYNC", "ONE"}
  /\ DEBUG_OUT_REQ \in BOOLEAN
  /\ MAP_FAILS \subseteq Frame
  /\ {IO_REQ_SLOTS, REQ_POOL_SIZE, CQE_SIZE} \subseteq Nat \ {0}
  /\ rem_vaddr \in Nat
  /\ REM_PAGES \in Nat /\ rem_vaddr + NPages <= REM_PAGES
  /\ IsFiniteSet(Req) /\ Cardinality(Req) <= IO_REQ_SLOTS

VARIABLES
  req, res, ram, xfer,   \* as in BlockDevice
  queue,                 \* the queued requests; the elevator picks among them
  mem,                   \* the server's memory
  qlock,                 \* who holds the queue lock, or "free"
  th,                    \* Thread -> where it is in the request function
  fn,                    \* the other state of the request function, by mode
  pool,                  \* the free batch requests, from head to tail
  batch,                 \* the batch requests
  io_req,                \* pool->io_req, the table of DEBUG_OUT_REQ
  hpc, curr,             \* where comp_handler_send is, and its curr
  qp,                    \* the state of the queue pair, "RTS" or "ERR"
  sq,                    \* the work requests posted and not completed
  cq,                    \* the completions not polled yet
  armed, event,          \* the next completion raises an event; one is pending
  bug                    \* the BUG or fault that stopped the machine, or "none"

blkVars  == <<req, res, ram, xfer, queue>>
poolVars == <<pool, batch, io_req>>
hVars    == <<hpc, curr>>
nicVars  == <<qp, sq, cq, armed, event>>
vars     == <<blkVars, mem, qlock, th, fn, poolVars, hVars, nicVars, bug>>

BD == INSTANCE BlockDevice WITH disk <- [p \in Page |-> mem[rem_vaddr + p]]

NULL       == -1
RemAddr    == 0 .. REM_PAGES - 1
Registered == rem_vaddr .. rem_vaddr + NPages - 1
Object     == 0 .. REQ_POOL_SIZE - 1
IoReqSlot  == 0 .. IO_REQ_SLOTS - 1

(* struct batch_request; nsec and the latency fields are left out. *)
BatchType ==
  [req : Req \cup {NULL}, outstanding_reqs : Int, comp_reqs : Int,
   next : Object \cup {NULL}, all_request_sent : BOOLEAN]

(* A batch request that request r has just been stored in. *)
FreshBatch(r) ==
  [req |-> r, outstanding_reqs |-> 0, comp_reqs |-> 0, next |-> NULL,
   all_request_sent |-> FALSE]
UnusedBatch == FreshBatch(NULL)

(* A work request as the send queue holds it: what is left to be moved. *)
SqeType ==
  [op : {"READ", "WRITE"}, addr : Nat, len : Nat, raddr : Nat, wr_id : Object]

(* Batch request b is in the pool. *)
IsFree(b) == \E i \in 1 .. Len(pool) : pool[i] = b

IoTypeOK ==
  /\ BD!TypeOK
  /\ queue \in SUBSET Req
  /\ mem  \in [RemAddr -> Val]
  /\ qlock \in Thread \cup {"free"}
  /\ \A t \in Thread : /\ th[t].rq \in Req \cup {NULL}
                       /\ th[t].batch_req \in Object \cup {NULL}
  /\ \A i \in 1 .. Len(pool) : pool[i] \in Object
  /\ \A i, j \in 1 .. Len(pool) : pool[i] = pool[j] => i = j
  /\ batch \in [Object -> BatchType]
  /\ io_req \in [IoReqSlot -> Req \cup {NULL}]
  /\ hpc \in {"idle", "poll", "end", "return", "next", "notify"}
  /\ curr \in Object \cup {NULL}
  /\ qp \in {"RTS", "ERR"}
  /\ \A i \in 1 .. Len(sq) : sq[i] \in SqeType
  /\ \A i \in 1 .. Len(cq) : cq[i] \in [wr_id : Object, ok : BOOLEAN]
  /\ armed \in BOOLEAN /\ event \in BOOLEAN

(* rdma_init has armed the completion queue. *)
IoInit ==
  /\ mem \in [RemAddr -> Val]
  /\ BD!Init
  /\ queue = {}
  /\ qlock = "free"
  /\ th = [t \in Thread |-> [pc |-> "idle", rq |-> NULL, batch_req |-> NULL]]
  /\ pool = [i \in 1 .. REQ_POOL_SIZE |-> i - 1]
  /\ batch = [b \in Object |-> UnusedBatch]
  /\ io_req = [i \in IoReqSlot |-> NULL]
  /\ hpc = "idle" /\ curr = NULL
  /\ qp = "RTS" /\ sq = << >> /\ cq = << >>
  /\ armed = TRUE /\ event = FALSE
  /\ bug = "none"

-----------------------------------------------------------------------------
(* The block layer, and the parts of the request function both modes have. *)

(* Thread t is at l of the request function, the handler at l: a BUG stops *)
(* the machine, but not the NIC.  The step that meets one is completed;    *)
(* the driver takes no step after it.                                      *)
At(t, l)     == bug = "none" /\ th[t].pc = l
HandlerAt(l) == bug = "none" /\ hpc = l

(* A request enters the queue, under the queue lock. *)
SubmitRequest(r, q) ==
  /\ bug = "none" /\ qlock = "free"
  /\ UNCHANGED mem
  /\ BD!Submit(r, q)
  /\ queue' = queue \cup {r}
  /\ UNCHANGED <<qlock, th, fn, poolVars, hVars, nicVars, bug>>

(* The next request of the queue is no file-system request: its current    *)
(* bytes end with -EIO.                                                    *)
FetchNonFs(t, r) ==
  /\ At(t, "fetch") /\ r \in queue /\ req[r].cmd # "fs"
  /\ queue' = queue \ {r}
  /\ UNCHANGED mem
  /\ BD!EndHeadEio(r)
  /\ UNCHANGED <<qlock, th, fn, poolVars, hVars, nicVars, bug>>

(* It is a file-system request: the queue lock is dropped. *)
FetchFs(t, r) ==
  /\ At(t, "fetch") /\ r \in queue /\ req[r].cmd = "fs"
  /\ queue' = queue \ {r}
  /\ th' = [th EXCEPT ![t].pc = IF DEBUG_OUT_REQ THEN "insert" ELSE "get", ![t].rq = r]
  /\ qlock' = "free"
  /\ UNCHANGED <<req, res, ram, xfer, mem, fn, poolVars, hVars, nicVars, bug>>

(* debug_pool_insert stores the request in the first free slot; it looks   *)
(* for the request, and for the slot, only up to there.                    *)
FirstFree == CHOOSE i \in IoReqSlot : /\ io_req[i] = NULL
                                      /\ \A j \in 0 .. i - 1 : io_req[j] # NULL
InsertBug(r) ==
  \/ \A i \in IoReqSlot : io_req[i] # NULL
  \/ \E i \in 0 .. FirstFree : io_req[i] = r
debug_pool_insert(r) == [io_req EXCEPT ![FirstFree] = r]

(* With DEBUG_OUT_REQ the request is entered in the table, under the       *)
(* pool's lock, before a batch request is taken under the same lock.       *)
Insert(t) ==
  LET r == th[t].rq
  IN  /\ At(t, "insert")
      /\ io_req' = IF InsertBug(r) THEN io_req ELSE debug_pool_insert(r)
      /\ bug' = IF InsertBug(r) THEN "debug" ELSE bug
      /\ th' = [th EXCEPT ![t].pc = "get"]
      /\ UNCHANGED <<blkVars, mem, qlock, fn, pool, batch, hVars, nicVars>>

(* Mutant: the slot is not cleared. *)
debug_pool_remove_Keep(r) == io_req

(* debug_pool_remove clears the first slot that holds the request. *)
RemoveBug(r) == \A i \in IoReqSlot : io_req[i] # r
debug_pool_remove(r) ==
  [io_req EXCEPT ![CHOOSE i \in IoReqSlot :
                     io_req[i] = r /\ \A j \in 0 .. i - 1 : io_req[j] # r] = NULL]

(* "Pool is almost empty": one pointer is left, and it is not given out. *)
PoolAlmostEmpty == Len(pool) = 1

(* A batch request is taken from the pool and initialised.  The result of  *)
(* get_batch_request is not checked for NULL.                              *)
GetBatch(t) ==
  LET b == Head(pool)
  IN  /\ At(t, "get")
      /\ bug' = IF PoolAlmostEmpty THEN "null" ELSE bug
      /\ pool' = IF PoolAlmostEmpty THEN pool ELSE Tail(pool)
      /\ batch' = IF PoolAlmostEmpty THEN batch ELSE [batch EXCEPT ![b] = FreshBatch(th[t].rq)]
      /\ th' = [th EXCEPT ![t].pc = "build",
                         ![t].batch_req = IF PoolAlmostEmpty THEN NULL ELSE b]
      /\ UNCHANGED <<blkVars, mem, qlock, io_req, hVars, nicVars>>

(* What rdma_map_address may return for a page frame. *)
MapResults(a) == IF a \in MAP_FAILS THEN {a, 0} ELSE {a}

(* The sector of segment j of request q, in pages. *)
Sector(q, j) == q.page + (j - 1)

(* struct rdma_request, in pages. *)
RdmaReq(q, j, dma_addr, b) ==
  [rw |-> q.dir, length |-> 1, dma_addr |-> dma_addr, remote_offset |-> Sector(q, j),
   batch_req |-> b]

(* Mutant: the local addresses are not compared. *)
Adjacent_RemoteOnly(last, new) ==
  last.rw = new.rw /\ last.remote_offset + last.length = new.remote_offset

(* new continues last both in local and in remote memory. *)
Adjacent(last, new) ==
  /\ last.rw = new.rw
  /\ last.dma_addr + last.length = new.dma_addr
  /\ last.remote_offset + last.length = new.remote_offset

make_wr(x) ==
  [op |-> x.rw, addr |-> x.dma_addr, len |-> x.length,
   raddr |-> rem_vaddr + x.remote_offset, wr_id |-> x.batch_req]

(* The queue pair has no room for another work request: its slots are      *)
(* given back when completions are polled.                                 *)
SendQueueFull == Len(sq) + Len(cq) >= CQE_SIZE

(* send_wr posts one work request, and calls BUG when that fails. *)
send_wr(x) ==
  /\ sq' = IF SendQueueFull THEN sq ELSE Append(sq, make_wr(x))
  /\ bug' = IF SendQueueFull THEN "post" ELSE bug
  /\ UNCHANGED <<qp, cq, armed, event>>

-----------------------------------------------------------------------------
(* comp_handler_send.  The interrupt that calls it is not delivered again  *)
(* before it returns, so it never runs twice at a time.                    *)

HandlerCalled ==
  /\ HandlerAt("idle") /\ event
  /\ hpc' = "poll" /\ event' = FALSE
  /\ UNCHANGED <<blkVars, mem, qlock, th, fn, poolVars, curr, qp, sq, cq, armed, bug>>

(* One work request of b is done; whether that was the last one. *)
CountDown(b) ==
  IF MODE = "ONE"
  THEN [batch |-> [batch EXCEPT ![b].comp_reqs = @ + 1],
        done  |-> /\ batch[b].outstanding_reqs = batch[b].comp_reqs + 1
                  /\ batch[b].all_request_sent]
  ELSE [batch |-> [batch EXCEPT ![b].outstanding_reqs = @ - 1],
        done  |-> batch[b].outstanding_reqs = 1]

(* Mutant: the status of the completion is not looked at. *)
BadStatus_Ignored(wc) == FALSE

BadStatus(wc) == ~wc.ok

(* A completion is polled; one with an error status is a BUG. *)
HandlerPoll ==
  LET wc  == Head(cq)
      down == CountDown(wc.wr_id)
  IN  /\ HandlerAt("poll") /\ cq # << >>
      /\ cq' = Tail(cq)
      /\ bug' = IF BadStatus(wc) THEN "status" ELSE bug
      /\ batch' = IF BadStatus(wc) THEN batch ELSE down.batch
      /\ curr' = wc.wr_id
      /\ hpc' = IF down.done /\ ~BadStatus(wc) THEN "end" ELSE "poll"
      /\ UNCHANGED <<blkVars, mem, qlock, th, fn, pool, io_req, qp, sq, armed, event>>

(* The request of curr ends, under the queue lock.  debug_pool_remove      *)
(* comes just before the lock is taken; until the request has ended,       *)
(* nobody else looks for it in the table.                                  *)
HandlerEnd ==
  LET r == batch[curr].req
  IN  /\ HandlerAt("end") /\ qlock = "free"
      /\ bug' = IF DEBUG_OUT_REQ /\ RemoveBug(r) THEN "debug" ELSE bug
      /\ io_req' = IF DEBUG_OUT_REQ /\ ~RemoveBug(r) THEN debug_pool_remove(r) ELSE io_req
      /\ req'  = [req EXCEPT ![r] = FreeReq]
      /\ res'  = [res EXCEPT ![r] = "ok"]
      /\ xfer' = [xfer EXCEPT ![r] = {}]
      /\ hpc' = "return"
      /\ UNCHANGED <<ram, queue, mem, qlock, th, fn, pool, batch, curr, nicVars>>

(* Mutants: the batch request is returned twice; it is returned to the     *)
(* head of the ring; it is not returned.                                   *)
HandlerReturn_Twice ==
  /\ HandlerAt("return")
  /\ pool' = pool \o <<curr, curr>>
  /\ hpc' = "next"
  /\ UNCHANGED <<blkVars, mem, qlock, th, fn, batch, io_req, curr, nicVars, bug>>

HandlerReturn_Front ==
  /\ HandlerAt("return")
  /\ pool' = <<curr>> \o pool
  /\ hpc' = "next"
  /\ UNCHANGED <<blkVars, mem, qlock, th, fn, batch, io_req, curr, nicVars, bug>>

HandlerReturn_Leak ==
  /\ HandlerAt("return")
  /\ hpc' = "next"
  /\ UNCHANGED <<blkVars, mem, qlock, th, fn, poolVars, curr, nicVars, bug>>

(* return_batch_request; its error paths leave pool->lock held. *)
HandlerReturn ==
  /\ HandlerAt("return")
  /\ pool' = IF Len(pool) = REQ_POOL_SIZE THEN pool ELSE Append(pool, curr)
  /\ bug' = IF Len(pool) = REQ_POOL_SIZE THEN "pool" ELSE bug
  /\ hpc' = "next"
  /\ UNCHANGED <<blkVars, mem, qlock, th, fn, batch, io_req, curr, nicVars>>

(* curr->next is read after curr has been returned to the pool.  What a    *)
(* batch request holds while it is free is forgotten from here on, as      *)
(* GetBatch sets every field before any is read.                           *)
HandlerNext ==
  /\ HandlerAt("next")
  /\ curr' = batch[curr].next
  /\ hpc' = IF batch[curr].next = NULL THEN "poll" ELSE "end"
  /\ batch' = IF IsFree(curr) THEN [batch EXCEPT ![curr] = UnusedBatch] ELSE batch
  /\ UNCHANGED <<blkVars, mem, qlock, th, fn, pool, io_req, nicVars, bug>>

(* ib_poll_cq has returned 0. *)
HandlerDrained ==
  /\ HandlerAt("poll") /\ cq = << >>
  /\ hpc' = "notify"
  /\ UNCHANGED <<blkVars, mem, qlock, th, fn, poolVars, curr, nicVars, bug>>

(* What ib_req_notify_cq reports with IB_CQ_REPORT_MISSED_EVENTS: there    *)
(* are completions that will not raise an event.                           *)
MissedEvents == cq # << >>

(* ib_req_notify_cq arms the completion queue. *)
HandlerNotify ==
  /\ HandlerAt("notify")
  /\ armed' = TRUE
  /\ hpc' = IF MissedEvents THEN "poll" ELSE "idle"
  /\ UNCHANGED <<blkVars, mem, qlock, th, fn, poolVars, curr, qp, sq, cq, event, bug>>

Handler ==
  \/ HandlerCalled
  \/ HandlerPoll
  \/ HandlerEnd
  \/ HandlerReturn
  \/ HandlerNext
  \/ HandlerDrained
  \/ HandlerNotify

-----------------------------------------------------------------------------
(* The NIC, as in RmemSync.  A completion raises an event when the         *)
(* completion queue is armed, and disarms it.                              *)

InOrder(i) ==
  \A j \in 1 .. i - 1 : sq[j].len > 0 => sq[j].op = "READ" /\ sq[i].op = "WRITE"

(* The next page of work request i is moved. *)
NicMove(i) ==
  LET e == sq[i]
  IN  /\ qp = "RTS" /\ e.len > 0 /\ InOrder(i)
      /\ e.raddr \in Registered
      /\ sq' = [sq EXCEPT ![i].addr = @ + 1, ![i].raddr = @ + 1, ![i].len = @ - 1]
      /\ \/ /\ e.op = "WRITE"
            /\ mem' = [mem EXCEPT ![e.raddr] = ram[e.addr]]
            /\ UNCHANGED ram
         \/ /\ e.op = "READ"
            /\ ram' = [ram EXCEPT ![e.addr] = mem[e.raddr]]
            /\ UNCHANGED mem
      /\ xfer' = [r \in Req |->
                    xfer[r] \cup {j \in Segs(req[r]) :
                                    /\ req[r].dir = e.op
                                    /\ req[r].bufs[j] = e.addr
                                    /\ rem_vaddr + Sector(req[r], j) = e.raddr}]
      /\ UNCHANGED <<req, res, queue, qlock, th, fn, poolVars, hVars, qp, cq, armed, event, bug>>

Complete(ok) ==
  /\ sq' = Tail(sq)
  /\ cq' = Append(cq, [wr_id |-> Head(sq).wr_id, ok |-> ok])
  /\ event' = (event \/ armed)
  /\ armed' = FALSE
  /\ UNCHANGED <<blkVars, mem, qlock, th, fn, poolVars, hVars, qp, bug>>

(* The first work request of the send queue completes. *)
NicComplete == qp = "RTS" /\ sq # << >> /\ Head(sq).len = 0 /\ Complete(TRUE)

(* The connection fails, and every work request is flushed with an error. *)
NicFail ==
  /\ qp = "RTS" /\ sq # << >>
  /\ qp' = "ERR"
  /\ UNCHANGED <<blkVars, mem, qlock, th, fn, poolVars, hVars, sq, cq, armed, event, bug>>

NicFlush == qp = "ERR" /\ sq # << >> /\ Complete(FALSE)

Nic == NicComplete \/ \E i \in 1 .. Len(sq) : NicMove(i)

-----------------------------------------------------------------------------
(* Properties both modes have. *)

(* The file-system requests that have not ended, and their segments. *)
InFlight == {r \in Req : req[r].cmd = "fs"}
SegsInFlight ==
  UNION {{<<r, j>> : j \in Segs(req[r])} : r \in InFlight}

(* The driver stops the machine only under a load that is beyond one of    *)
(* its limits, or when a work request failed.  get_batch_request returns   *)
(* NULL only when REQ_POOL_SIZE - 1 requests are in flight: however their  *)
(* completions interleave with new requests, no batch request is lost.  A  *)
(* post fails only when the requests in flight have more segments than the *)
(* send queue has entries.  The error paths of return_batch_request, and   *)
(* the BUGs of the debug table, are not met at all.                        *)
StopsOnlyAtLimit ==
  /\ bug \notin {"pool", "debug"}
  /\ bug = "status" => qp = "ERR"
  /\ bug = "null" => Cardinality(InFlight) >= REQ_POOL_SIZE - 1
  /\ bug = "post" => Cardinality(SegsInFlight) > CQE_SIZE

(* comp_handler_send follows curr->next after return_batch_request(curr).  *)
(* The link is still the one the request function made: the pool cannot    *)
(* have given curr out again, because what was returned last stays in it.  *)
LinkStillValid == hpc = "next" => IsFree(curr)

(* With DEBUG_OUT_REQ the table holds the requests that have a batch       *)
(* request or are about to get one, once each, although debug_pool_insert  *)
(* stops looking for a duplicate at the first free slot.                   *)
DebugTableExact ==
  DEBUG_OUT_REQ /\ bug = "none" =>
    \A r \in Req : Cardinality({i \in IoReqSlot : io_req[i] = r}) =
                    Cardinality({t \in Thread : th[t].pc = "get" /\ th[t].rq = r})
                  + Cardinality({b \in Object : /\ batch[b].req = r
                                                /\ ~IsFree(b)
                                                /\ ~(hpc = "return" /\ curr = b)})

(* The driver implements the block device: every page of a request is      *)
(* moved once, in its direction, from and to the right place, before       *)
(* __blk_end_request_all reports success, and no other page changes.  The BUG of the completion       *)
(* handler makes this true even when work requests fail.                   *)
BlockDeviceRefined == BD!Spec

(* Every file-system request that is submitted ends.                       *)
FsRequestsEnd ==
  \A r \in Req : req[r].cmd = "fs" ~> req[r].cmd = "none"
=============================================================================
