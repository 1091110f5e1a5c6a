------------------------------ MODULE RmemCopy ------------------------------
(***************************************************************************)
(* rmem_request_sync as it is built without COPY_LESS.  The segments go    *)
(* into dev->rdma_req, an array of struct rdma_request, and rdma_op turns  *)
(* the entries into work requests, one ib_post_send for each: the NIC is   *)
(* at work on the first ones while the others are still to be posted.      *)
(*                                                                         *)
(* The state is that of RmemSync; wrs holds dev->rdma_req, with            *)
(* remote_offset in the place of the remote address.                       *)
(***************************************************************************)
EXTENDS RmemSync

VARIABLES
  n_posted,   \* i of rdma_op: the entries it has posted
  bug         \* BUG() of send_wr: the send queue was full

opVars   == <<n_posted, bug>>
copyVars == <<vars, opVars>>

CopyInit == Init /\ n_posted = 0 /\ bug = FALSE

(* The next entry of dev->rdma_req. *)
RdmaReq(q, dma_addr) ==
  [op |-> q.dir, addr |-> dma_addr, len |-> 1, raddr |-> Sector(q, seg), next |-> 0]

(* Mutant: the new entry takes the place of the one it continues. *)
AddReq_Replaced(dma_addr) ==
  LET n   == rdma_req_count
      new == RdmaReq(req[cur], dma_addr)
  IN  IF MERGE_REQ /\ n > 0 /\ merge_wr(wrs[n - 1], new)
      THEN [wrs |-> [wrs EXCEPT ![n - 1] = new], count |-> n]
      ELSE [wrs |-> [wrs EXCEPT ![n] = new], count |-> n + 1]

(* The segment goes into the next entry, or extends the last one. *)
AddReq(dma_addr) ==
  LET n   == rdma_req_count
      new == RdmaReq(req[cur], dma_addr)
      w   == [wrs EXCEPT ![n] = new]
  IN  IF MERGE_REQ /\ n > 0 /\ merge_wr(wrs[n - 1], new)
      THEN [wrs |-> [w EXCEPT ![n - 1].len = @ + 1], count |-> n]
      ELSE [wrs |-> w, count |-> n + 1]

(* Mutant: the entries are counted as they are posted. *)
StartOp_Zero(n) == outstanding_requests' = 0 /\ n_posted' = 0

(* rdma_op begins: ctx->outstanding_requests = n_requests *)
StartOp(n) == outstanding_requests' = n /\ n_posted' = 0

CopySegment ==
  LET add  == AddReq(req[cur].bufs[seg])
      more == IF seg = Len(req[cur].bufs) THEN "fetch" ELSE "seg"
  IN  /\ pc = "seg"
      /\ wrs' = add.wrs
      /\ rdma_req_count' = add.count
      /\ seg' = IF more = "seg" THEN seg + 1 ELSE 1
      /\ \/ /\ ArrayFull(add.count)
            /\ StartOp(add.count)
            /\ pc' = "post" /\ ret' = more
         \/ /\ ~ArrayFull(add.count)
            /\ pc' = more
            /\ UNCHANGED <<ret, outstanding_requests, n_posted>>
      /\ UNCHANGED <<blkVars, mem, blk_req, nicVars, bug>>

(* blk_fetch_request has returned NULL: what is left is posted. *)
CopyQueueEmpty ==
  /\ pc = "fetch" /\ queue = {}
  /\ \/ /\ rdma_req_count > 0
        /\ StartOp(rdma_req_count)
        /\ pc' = "post" /\ ret' = "end"
     \/ /\ rdma_req_count = 0
        /\ pc' = "end"
        /\ UNCHANGED <<ret, outstanding_requests, n_posted>>
  /\ UNCHANGED <<blkVars, mem, seg, blk_req, rdma_req_count, wrs, nicVars, bug>>

(* make_wr adds the base of the region. *)
make_wr(e) == [op |-> e.op, addr |-> e.addr, len |-> e.len, raddr |-> rem_vaddr + e.raddr]

(* send_wr posts one entry.  A slot of the send queue is given back when   *)
(* its completion is polled.                                               *)
send_wr ==
  LET full == Len(sq) + cq >= CQE_SIZE
  IN  /\ pc = "post" /\ ~bug /\ n_posted < rdma_req_count
      /\ sq' = IF full THEN sq ELSE Append(sq, make_wr(wrs[n_posted]))
      /\ bug' = full
      /\ n_posted' = n_posted + 1
      /\ pc' = IF n_posted + 1 = rdma_req_count THEN "poll" ELSE "post"
      /\ UNCHANGED <<blkVars, mem, ret, seg, blk_req, rdma_req_count, wrs,
                     outstanding_requests, qp, cq>>

(* The rest is as with COPY_LESS. *)
CopyNext ==
  \/ \E r \in Req, q \in IoRequests : SubmitRequest(r, q) /\ UNCHANGED opVars
  \/ RunQueue /\ UNCHANGED opVars
  \/ \E r \in Req : FetchFs(r) /\ UNCHANGED opVars
  \/ \E r \in Req : FetchNonFs(r) /\ UNCHANGED opVars
  \/ CopySegment
  \/ CopyQueueEmpty
  \/ send_wr
  \/ PollSome /\ UNCHANGED opVars
  \/ PollDone /\ UNCHANGED opVars
  \/ EndRequests /\ UNCHANGED opVars
  \/ \E i \in 1 .. Len(sq) : NicMove(i) /\ UNCHANGED opVars
  \/ NicComplete /\ UNCHANGED opVars

CopySpec == CopyInit /\ [][CopyNext]_copyVars

-----------------------------------------------------------------------------
(* Properties. *)

CopyTypeOK ==
  /\ pc # "post" => TypeOK
  /\ n_posted \in 0 .. MAX_REQ
  /\ bug \in BOOLEAN

(* poll_cq waits for exactly the entries rdma_op was given, although the   *)
(* count is set before the first one is posted and completions arrive      *)
(* while others are being posted; and the send queue always has room.      *)
CopyCountExact ==
  /\ ~bug
  /\ outstanding_requests =
       (IF pc = "post" THEN rdma_req_count - n_posted ELSE 0) + Len(sq) + cq
=============================================================================
