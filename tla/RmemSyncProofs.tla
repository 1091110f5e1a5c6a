--------------------------- MODULE RmemSyncProofs ---------------------------
(***************************************************************************)
(* Proofs about RmemSync, with failures of the connection and of DMA       *)
(* mappings, for every queue depth, array size and request.                *)
(***************************************************************************)
EXTENDS RmemSync, TLAPS

-----------------------------------------------------------------------------
(* The inductive invariant. *)

(* A work request stays inside the registered region and inside local      *)
(* memory.                                                                 *)
WrOk(w) ==
  /\ w.raddr >= rem_vaddr /\ w.raddr + w.len <= rem_vaddr + NPages
  /\ \A a \in w.addr .. w.addr + w.len - 1 : a \in Address

(* The requests of the block layer fit on the device. *)
RequestsFit ==
  \A r \in Req : /\ req[r].page + Len(req[r].bufs) <= NPages
                 /\ req[r].cmd # "none" => Len(req[r].bufs) > 0

(* Where rmem_request_sync is inside a request, seg is one of its segments. *)
InsideRequest ==
  pc = "seg" \/ (pc = "poll" /\ ret = "seg") =>
    Len(blk_req) > 0 /\ seg \in Segs(req[blk_req[Len(blk_req)]])

(* The work requests built so far are linked, and the array is not full    *)
(* when the next one is built.                                             *)
ChainBuilt ==
  /\ \A j \in 0 .. rdma_req_count - 1 : WrOk(wrs[j])
  /\ \A j \in 0 .. rdma_req_count - 2 : wrs[j].next = j + 1
  /\ pc \in {"fetch", "seg"} => rdma_req_count < MAX_REQ
  /\ pc = "idle" => rdma_req_count = 0

(* What was posted, too, stays inside. *)
PostedOk == \A i \in 1 .. Len(sq) : WrOk(sq[i])

Inv ==
  /\ TypeOK
  /\ RequestsFit
  /\ InsideRequest
  /\ ChainBuilt
  /\ PostedOk
  /\ OutstandingExact

-----------------------------------------------------------------------------
(* Lemmas about the operators. *)

(* A number below the modulus is its own remainder: ctx->outstanding_requests *)
(* does not wrap while it stays between 0 and what was posted.             *)
LEMMA ModSmall ==
  ASSUME NEW x \in Nat, NEW m \in Nat, x < m
  PROVE  x % m = x
  BY SMT

(* ib_post_send finds exactly the work requests that were linked, when the *)
(* last one has next = NULL.                                               *)
LEMMA ChainLength ==
  ASSUME NEW w, NEW n \in 1 .. MAX_REQ,
         \A j \in 0 .. n - 2 : w[j].next = j + 1,
         w[n - 1].next = 0
  PROVE  ChainLen(w) = n
<1> DEFINE P(k) == (\A j \in 0 .. k - 2 : w[j].next = j + 1) /\ w[k - 1].next = 0
<1>0. MAX_REQ \in Nat  BY RmemSyncAssumption
<1>1. P(n)  OBVIOUS
<1>2. ASSUME NEW k \in 1 .. MAX_REQ, P(k)  PROVE k = n
  <2>1. CASE k < n
    <3>1. k - 1 \in 0 .. n - 2  BY <2>1, <1>0
    <3>2. w[k - 1].next = k  BY <3>1, <1>0
    <3> QED  BY <3>2, <1>2, <1>0
  <2>2. CASE n < k
    <3>1. n - 1 \in 0 .. k - 2  BY <2>2, <1>0
    <3>2. w[n - 1].next = n  BY <3>1, <1>2, <1>0
    <3> QED  BY <3>2, <1>0
  <2> QED  BY <2>1, <2>2, <1>0
<1>3. ChainLen(w) = CHOOSE k \in 1 .. MAX_REQ : P(k)  BY DEF ChainLen
<1> HIDE DEF P
<1> QED  BY <1>1, <1>2, <1>3

(* A posted work request is inside when the one it was made from is. *)
LEMMA SqeOk ==
  ASSUME NEW w \in WrType
  PROVE  Sqe(w) \in SqeType /\ (WrOk(w) => WrOk(Sqe(w)))
  BY DEF Sqe, SqeType, WrType, WrOk

(* Posting a chain of n linked work requests to an empty send queue puts   *)
(* these n on it.                                                          *)
LEMMA PostSendPosts ==
  ASSUME NEW w \in [0 .. MAX_REQ - 1 -> WrType], NEW n \in 1 .. MAX_REQ,
         \A j \in 0 .. n - 1 : WrOk(w[j]),
         \A j \in 0 .. n - 2 : w[j].next = j + 1,
         sq = << >>, PostSend(w, n)
  PROVE  /\ wrs' \in [0 .. MAX_REQ - 1 -> WrType]
         /\ \A j \in 0 .. n - 1 : WrOk(wrs'[j])
         /\ \A j \in 0 .. n - 2 : wrs'[j].next = j + 1
         /\ sq' \in Seq(SqeType) /\ Len(sq') = n
         /\ \A i \in 1 .. Len(sq') : WrOk(sq'[i])
         /\ outstanding_requests' = n /\ qp' = qp /\ cq' = cq
<1> DEFINE c == EndChain(w, n)
           s == [j \in 1 .. n |-> Sqe(c[j - 1])]
<1>0. /\ MAX_REQ \in Nat /\ CQE_SIZE \in Nat /\ MAX_REQ <= CQE_SIZE
      /\ n \in Nat /\ n - 1 \in 0 .. MAX_REQ - 1
  BY RmemSyncAssumption
<1>1. /\ c \in [0 .. MAX_REQ - 1 -> WrType]
      /\ c[n - 1] = [w[n - 1] EXCEPT !.next = 0]
      /\ \A j \in 0 .. MAX_REQ - 1 : j # n - 1 => c[j] = w[j]
      /\ c = EndChain(w, n)
  BY Zenon, <1>0 DEF EndChain, WrType
<1> HIDE DEF c
<1>2. \A j \in 0 .. n - 1 : WrOk(c[j])
  <2>1. w[n - 1] \in WrType  BY <1>0
  <2>2. /\ c[n - 1].raddr = w[n - 1].raddr /\ c[n - 1].len = w[n - 1].len
        /\ c[n - 1].addr = w[n - 1].addr
    BY <2>1, <1>1 DEF WrType
  <2>3. WrOk(w[n - 1])  BY <1>0
  <2>4. WrOk(c[n - 1])  BY <2>2, <2>3 DEF WrOk
  <2> QED  BY <2>4, <1>0, <1>1
<1>3. \A j \in 0 .. n - 2 : c[j].next = j + 1  BY SMTT(30), <1>0, <1>1
<1>4. c[n - 1].next = 0
  <2>1. w[n - 1] \in WrType  BY <1>0
  <2> QED  BY <2>1, <1>1 DEF WrType
<1>5. ChainLen(c) = n  BY Zenon, <1>3, <1>4, ChainLength
<1>6. /\ wrs' = c /\ outstanding_requests' = n /\ qp' = qp /\ cq' = cq
      /\ sq' = sq \o s
  BY <1>0, <1>1, <1>5 DEF PostSend
<1>7. \A j \in 1 .. n : c[j - 1] \in WrType /\ WrOk(c[j - 1])
  BY <1>0, <1>1, <1>2
<1>8. \A j \in 1 .. n : Sqe(c[j - 1]) \in SqeType /\ WrOk(Sqe(c[j - 1]))
  BY <1>7, SqeOk
<1>9. s \in Seq(SqeType) /\ Len(s) = n /\ \A i \in 1 .. n : WrOk(s[i])
  BY <1>0, <1>8
<1>10. sq' = s  BY <1>6, <1>9
<1> HIDE DEF s
<1> QED  BY <1>1, <1>2, <1>3, <1>6, <1>9, <1>10

(* The work request that simple_make_wr makes for the current segment. *)
NewWr(d) ==
  simple_make_wr(wrs[rdma_req_count], req[cur].dir, d, Sector(req[cur], seg), 1)

(* It stays inside: the sector of a segment is a page of the device. *)
LEMMA NewWrOk ==
  ASSUME Inv, pc = "seg", NEW d \in Address
  PROVE  /\ NewWr(d) \in WrType /\ WrOk(NewWr(d))
         /\ NewWr(d).addr = d /\ NewWr(d).len = 1
<1> DEFINE q == req[cur]
<1>1. rdma_req_count \in 0 .. MAX_REQ - 1 /\ wrs[rdma_req_count] \in WrType
  BY RmemSyncAssumption DEF Inv, TypeOK, ChainBuilt
<1>2. cur \in Req  BY DEF Inv, TypeOK, InsideRequest, cur
<1>3. q \in RequestType /\ q.page + Len(q.bufs) <= NPages /\ seg \in 1 .. Len(q.bufs)
  BY <1>2 DEF Inv, TypeOK, InsideRequest, RequestsFit, cur, Segs
<1>4. d \in Nat  BY BlockLayerAssumption DEF Address
<1>5. /\ q.page \in Nat /\ q.dir \in {"READ", "WRITE"} /\ Len(q.bufs) \in Nat
      /\ seg \in Nat \ {0} /\ seg <= Len(q.bufs)
  BY <1>3 DEF RequestType
<1> HIDE DEF q
<1>6. wrs[rdma_req_count].next \in Nat  BY <1>1 DEF WrType
<1>7. NewWr(d) = [op |-> q.dir, addr |-> d, len |-> 1,
                  raddr |-> rem_vaddr + (q.page + (seg - 1)),
                  next |-> wrs[rdma_req_count].next]
  BY DEF NewWr, simple_make_wr, Sector, q
<1>8. rem_vaddr \in Nat /\ NPages \in Nat
  BY RmemSyncAssumption, BlockLayerAssumption
<1>9. NewWr(d) \in WrType  BY <1>4, <1>5, <1>6, <1>7, <1>8 DEF WrType
<1>10. WrOk(NewWr(d))
  <2>1. rem_vaddr + (q.page + (seg - 1)) >= rem_vaddr  BY <1>5, <1>8
  <2>2. rem_vaddr + (q.page + (seg - 1)) + 1 <= rem_vaddr + NPages
    BY <1>3, <1>5, <1>8
  <2>3. \A a \in d .. d + 1 - 1 : a \in Address
    <3>1. \A a \in d .. d + 1 - 1 : a = d  BY <1>4
    <3> QED  BY <3>1
  <2> QED  BY <2>1, <2>2, <2>3, <1>7 DEF WrOk
<1> QED  BY <1>7, <1>9, <1>10

(* A segment adds one work request to the chain, or makes the last one of  *)
(* the chain longer.                                                       *)
LEMMA AddWrAdds ==
  ASSUME Inv, pc = "seg", NEW d \in Address
  PROVE  /\ AddWr(d).wrs \in [0 .. MAX_REQ - 1 -> WrType]
         /\ AddWr(d).count \in 1 .. MAX_REQ
         /\ \A j \in 0 .. AddWr(d).count - 1 : WrOk(AddWr(d).wrs[j])
         /\ \A j \in 0 .. AddWr(d).count - 2 : AddWr(d).wrs[j].next = j + 1
<1> DEFINE n   == rdma_req_count
           new == NewWr(d)
           w   == [wrs EXCEPT ![n] = new]
           old == wrs[n - 1]
           wm  == [w EXCEPT ![n - 1].len = @ + 1]
           wl  == [w EXCEPT ![n - 1].next = n]
<1>1. new \in WrType /\ WrOk(new) /\ new.addr = d /\ new.len = 1
  BY NewWrOk
<1>2. /\ n \in 0 .. MAX_REQ - 1 /\ MAX_REQ \in Nat \ {0}
      /\ wrs \in [0 .. MAX_REQ - 1 -> WrType]
      /\ \A j \in 0 .. n - 1 : WrOk(wrs[j])
      /\ \A j \in 0 .. n - 2 : wrs[j].next = j + 1
  BY RmemSyncAssumption DEF Inv, TypeOK, ChainBuilt
<1>3. AddWr(d) = IF MERGE_REQ /\ n > 0 /\ merge_wr(old, new)
                 THEN [wrs |-> wm, count |-> n]
                 ELSE [wrs |-> IF n > 0 THEN wl ELSE w, count |-> n + 1]
  BY DEF AddWr, NewWr
<1> HIDE DEF new, n
<1>4. w \in [0 .. MAX_REQ - 1 -> WrType] /\ w[n] = new
      /\ \A j \in 0 .. MAX_REQ - 1 : j # n => w[j] = wrs[j]
  BY <1>1, <1>2
<1>5. CASE MERGE_REQ /\ n > 0 /\ merge_wr(old, new)
  <2>1. old \in WrType /\ WrOk(old) /\ n - 1 \in 0 .. MAX_REQ - 1 /\ n - 1 # n /\ w[n - 1] = old
    BY <1>2, <1>4, <1>5
  <2>2. old.addr + old.len = d /\ old.raddr + old.len = new.raddr
    BY <1>1, <1>5 DEF merge_wr
  <2> DEFINE m == [old EXCEPT !.len = @ + 1]
  <2>3. /\ m \in WrType /\ m.addr = old.addr /\ m.raddr = old.raddr
        /\ m.len = old.len + 1 /\ m.next = old.next
    BY <2>1 DEF WrType
  <2>4. /\ wm \in [0 .. MAX_REQ - 1 -> WrType] /\ wm[n - 1] = m
        /\ \A j \in 0 .. MAX_REQ - 1 : j # n - 1 => wm[j] = w[j]
    BY <2>1, <2>3, <1>4
  <2> HIDE DEF m, wm, w, old
  <2>5. WrOk(m)
    <3>1. m.raddr + m.len <= rem_vaddr + NPages
      <4>1. old.raddr \in Nat /\ old.len \in Nat /\ new.raddr \in Nat
        BY <2>1, <1>1 DEF WrType
      <4>2. new.raddr + 1 <= rem_vaddr + NPages  BY <1>1 DEF WrOk
      <4> QED  BY <4>1, <4>2, <2>2, <2>3
    <3>2. \A a \in m.addr .. m.addr + m.len - 1 : a \in Address
      <4>1. old.addr \in Nat /\ old.len \in Nat  BY <2>1 DEF WrType
      <4>2. ASSUME NEW a \in m.addr .. m.addr + m.len - 1  PROVE a \in Address
        <5>1. a = d \/ a \in old.addr .. old.addr + old.len - 1
          BY <4>1, <4>2, <2>2, <2>3
        <5> QED  BY <5>1, <2>1 DEF WrOk
      <4> QED  BY <4>2
    <3>3. m.raddr >= rem_vaddr  BY <2>1, <2>3 DEF WrOk
    <3> QED  BY <3>1, <3>2, <3>3 DEF WrOk
  <2>6. \A j \in 0 .. n - 1 : WrOk(wm[j])  BY <2>4, <2>5, <1>2, <1>4
  <2>7. \A j \in 0 .. n - 2 : wm[j].next = j + 1  BY <2>4, <1>2, <1>4
  <2>8. AddWr(d).wrs = wm /\ AddWr(d).count = n  BY <1>3, <1>5
  <2>9. n \in 1 .. MAX_REQ  BY <1>2, <1>5
  <2> QED  BY <2>4, <2>6, <2>7, <2>8, <2>9
<1>6. CASE ~(MERGE_REQ /\ n > 0 /\ merge_wr(old, new)) /\ n > 0
  <2>1. old \in WrType /\ WrOk(old) /\ n - 1 \in 0 .. MAX_REQ - 1 /\ n - 1 # n /\ w[n - 1] = old
    BY <1>2, <1>4, <1>6
  <2> DEFINE m == [old EXCEPT !.next = n]
  <2>2. /\ m \in WrType /\ m.addr = old.addr /\ m.raddr = old.raddr
        /\ m.len = old.len /\ m.next = n
    <3>1. n \in Nat  BY <1>2
    <3> QED  BY <3>1, <2>1 DEF WrType
  <2>3. /\ wl \in [0 .. MAX_REQ - 1 -> WrType] /\ wl[n - 1] = m
        /\ \A j \in 0 .. MAX_REQ - 1 : j # n - 1 => wl[j] = w[j]
    BY <2>1, <2>2, <1>4
  <2> HIDE DEF m, wl, w, old
  <2>4. WrOk(m)  BY <2>1, <2>2 DEF WrOk
  <2>5. \A j \in 0 .. n : WrOk(wl[j])  BY <2>3, <2>4, <1>1, <1>2, <1>4
  <2>6. \A j \in 0 .. n - 1 : wl[j].next = j + 1  BY SMTT(30), <2>2, <2>3, <1>2, <1>4
  <2>7. AddWr(d).wrs = wl /\ AddWr(d).count = n + 1  BY <1>3, <1>6
  <2> QED  BY <2>3, <2>5, <2>6, <2>7, <1>2
<1>7. CASE ~(n > 0)
  <2>1. n = 0  BY <1>2, <1>7
  <2>2. AddWr(d).wrs = w /\ AddWr(d).count = n + 1  BY <1>3, <1>7
  <2> HIDE DEF w
  <2>3. \A j \in 0 .. 0 : WrOk(w[j])  BY <2>1, <1>1, <1>4
  <2> QED  BY <2>1, <2>2, <2>3, <1>2, <1>4
<1> QED  BY <1>5, <1>6, <1>7

-----------------------------------------------------------------------------
(* BlockDevice speaks of requests in the same words. *)
LEMMA SameWords ==
  /\ BD!FreeReq = FreeReq /\ BD!Address = Address
  /\ \A q : BD!Segs(q) = Segs(q) /\ BD!Bufs(q) = Bufs(q) /\ BD!DropHead(q) = DropHead(q)
  BY DEF BD!FreeReq, FreeReq, BD!DropHead, DropHead, BD!Address, Address, BD!Segs, Segs, BD!Bufs, Bufs

(* The invariant holds initially and every step preserves it. *)

(* The device starts with zeroed work requests and nothing posted. *)
LEMMA InvInit == Init => Inv
<1> SUFFICES ASSUME Init  PROVE Inv
  OBVIOUS
<1> USE RmemSyncAssumption, BlockLayerAssumption
<1>1. /\ FreeReq \in RequestType /\ FreeReq.page + Len(FreeReq.bufs) <= NPages
      /\ FreeReq.cmd = "none"
  BY DEF FreeReq, RequestType
<1>2. TypeOK
  <2>1. req \in [Req -> RequestType] /\ res \in [Req -> {"none", "ok", "eio"}]
        /\ ram \in [Address -> Val] /\ xfer \in [Req -> SUBSET Nat]
    BY <1>1, SameWords DEF Init, BD!Init
  <2>2. wrs \in [0 .. MAX_REQ - 1 -> WrType]  BY DEF Init, WrType
  <2>3. /\ rdma_req_count \in 0 .. MAX_REQ /\ outstanding_requests \in 0 .. ULONG - 1
        /\ seg \in Nat \ {0} /\ cq \in Nat
    BY DEF Init
  <2>4. blk_req \in Seq(Req) /\ sq \in Seq(SqeType) /\ queue \in SUBSET Req
    BY DEF Init
  <2>5. /\ mem \in [RemAddr -> Val] /\ qp \in {"RTS", "ERR"}
        /\ pc \in {"idle", "fetch", "seg", "poll", "end"} /\ ret \in {"fetch", "seg", "end"}
    BY DEF Init
  <2> HIDE RmemSyncAssumption, BlockLayerAssumption
  <2> QED  BY <2>1, <2>2, <2>3, <2>4, <2>5 DEF TypeOK
<1>3. RequestsFit  BY Zenon, <1>1, SameWords DEF Init, BD!Init, RequestsFit
<1>4. InsideRequest /\ ChainBuilt /\ PostedOk /\ OutstandingExact
  BY DEF Init, InsideRequest, ChainBuilt, PostedOk, OutstandingExact
<1> QED  BY <1>2, <1>3, <1>4 DEF Inv

(* Submitting a request touches neither driver nor NIC. *)
LEMMA InvSubmit ==
  ASSUME Inv, NEW r \in Req, NEW q \in IoRequests, SubmitRequest(r, q)
  PROVE  Inv'
<1>1. q \in RequestType /\ q.page + Len(q.bufs) <= NPages /\ Len(q.bufs) > 0
  BY BlockLayerAssumption
<1>2. /\ req' = [req EXCEPT ![r] = q] /\ res' = [res EXCEPT ![r] = "none"]
      /\ xfer' = xfer /\ mem' = mem /\ queue' = queue \cup {r} /\ pc = "idle"
      /\ UNCHANGED <<devVars, nicVars>>
  BY DEF SubmitRequest, BD!Submit
<1>3. ram' \in [Address -> Val]
  <2>1. PICK dt \in [Bufs(q) -> Val] :
          ram' = [a \in Address |->
                    IF q.dir = "WRITE" /\ a \in Bufs(q) THEN dt[a] ELSE ram[a]]
    BY SameWords DEF SubmitRequest, BD!Submit
  <2>2. \A a \in Address : ram[a] \in Val  BY DEF Inv, TypeOK
  <2> QED  BY <2>1, <2>2
<1>4. TypeOK'  BY <1>1, <1>2, <1>3 DEF Inv, TypeOK, devVars, nicVars
<1>5. RequestsFit'  BY <1>1, <1>2 DEF Inv, RequestsFit, TypeOK
<1>6. InsideRequest' /\ ChainBuilt' /\ PostedOk' /\ OutstandingExact'
  BY <1>2 DEF Inv, InsideRequest, ChainBuilt, PostedOk, OutstandingExact, devVars, nicVars
<1> QED  BY <1>4, <1>5, <1>6 DEF Inv

(* rmem_request_sync starts with an empty chain. *)
LEMMA InvRunQueue ==
  ASSUME Inv, RunQueue  PROVE Inv'
<1> USE RmemSyncAssumption DEF RunQueue, blkVars, nicVars, Inv
<1>1. TypeOK'  BY DEF TypeOK
<1>2. RequestsFit' /\ InsideRequest' /\ PostedOk' /\ OutstandingExact'
  BY DEF RequestsFit, InsideRequest, PostedOk, OutstandingExact
<1>3. ChainBuilt'  BY DEF ChainBuilt
<1> QED  BY <1>1, <1>2, <1>3

(* A fetched request has a first segment. *)
LEMMA InvFetchFs ==
  ASSUME Inv, NEW r \in Req, FetchFs(r)  PROVE Inv'
<1>1. /\ pc = "fetch" /\ req[r].cmd = "fs" /\ queue' = queue \ {r}
      /\ blk_req' = Append(blk_req, r) /\ pc' = "seg" /\ seg' = 1
      /\ UNCHANGED <<req, res, ram, xfer, mem, ret, rdma_req_count, wrs,
                     outstanding_requests, qp, sq, cq>>
  BY DEF FetchFs, nicVars
<1>2. /\ blk_req' \in Seq(Req) /\ Len(blk_req') = Len(blk_req) + 1
      /\ Len(blk_req) \in Nat /\ blk_req'[Len(blk_req')] = r
  BY <1>1 DEF Inv, TypeOK
<1>3. TypeOK'  BY <1>1, <1>2 DEF Inv, TypeOK
<1>4. InsideRequest'
  <2>1. Len(req[r].bufs) \in Nat /\ Len(req[r].bufs) > 0
    BY <1>1 DEF Inv, TypeOK, RequestType, RequestsFit
  <2>2. 1 \in Segs(req[r])  BY <2>1 DEF Segs
  <2> QED  BY <1>1, <1>2, <2>2 DEF InsideRequest
<1>5. RequestsFit' /\ ChainBuilt' /\ PostedOk' /\ OutstandingExact'
  BY <1>1 DEF Inv, RequestsFit, ChainBuilt, PostedOk, OutstandingExact
<1> QED  BY SMTT(30), <1>3, <1>4, <1>5 DEF Inv

(* What is left of a request still fits. *)
LEMMA DropHeadFits ==
  ASSUME NEW q \in RequestType, q.page + Len(q.bufs) <= NPages, Len(q.bufs) > 0
  PROVE  /\ DropHead(q) \in RequestType
         /\ DropHead(q).page + Len(DropHead(q).bufs) <= NPages
         /\ DropHead(q).cmd # "none" => Len(DropHead(q).bufs) > 0
<1>1. CASE Len(q.bufs) = 1
  BY <1>1, BlockLayerAssumption DEF DropHead, FreeReq, RequestType
<1>2. CASE Len(q.bufs) # 1
  <2> DEFINE t == Tail(q.bufs)
             p == q.page + 1
             d == [q EXCEPT !.page = p, !.bufs = t]
  <2>1. q.bufs \in Seq(Frame) /\ q.page \in Nat /\ Len(q.bufs) \in Nat
    BY DEF RequestType
  <2>2. t \in Seq(Frame) /\ Len(t) = Len(q.bufs) - 1 /\ p \in Nat
    BY <2>1
  <2>3. DropHead(q) = d /\ p = q.page + 1  BY <1>2 DEF DropHead
  <2> HIDE DEF t, p
  <2>4. d \in RequestType  BY Zenon, <2>2 DEF RequestType
  <2>5. d.page = p /\ d.bufs = t  BY DEF RequestType
  <2> HIDE DEF d
  <2>6. p + Len(t) <= NPages /\ Len(t) > 0
    <3>1. NPages \in Nat  BY BlockLayerAssumption
    <3>2. ASSUME NEW l \in Nat, NEW g \in Nat, l > 0, l # 1, g + l <= NPages
          PROVE  (g + 1) + (l - 1) <= NPages /\ l - 1 > 0
      BY <3>1, <3>2
    <3> QED  BY Zenon, <1>2, <2>1, <2>2, <2>3, <3>2
  <2> QED  BY <2>3, <2>4, <2>5, <2>6
<1> QED  BY <1>1, <1>2

(* Ending the head of another request leaves the driver alone. *)
LEMMA InvFetchNonFs ==
  ASSUME Inv, NEW r \in Req, FetchNonFs(r)  PROVE Inv'
<1> DEFINE q == DropHead(req[r])
<1>1. /\ pc = "fetch" /\ req[r].cmd = "pc" /\ queue' = queue \ {r}
      /\ req' = [req EXCEPT ![r] = q] /\ res' = [res EXCEPT ![r] = "eio"]
      /\ UNCHANGED <<ram, xfer, mem, devVars, nicVars>>
  BY Zenon, SameWords DEF FetchNonFs, BD!EndHeadEio
<1>2. req[r] \in RequestType /\ req[r].page + Len(req[r].bufs) <= NPages /\ Len(req[r].bufs) > 0
  BY <1>1 DEF Inv, TypeOK, RequestsFit
<1>3. /\ q \in RequestType /\ q.page + Len(q.bufs) <= NPages
      /\ q.cmd # "none" => Len(q.bufs) > 0
  BY <1>2, DropHeadFits
<1> HIDE DEF q
<1>4. TypeOK'  BY <1>1, <1>3 DEF Inv, TypeOK, devVars, nicVars
<1>5. RequestsFit'  BY <1>1, <1>3 DEF Inv, TypeOK, RequestsFit
<1>6. InsideRequest' /\ ChainBuilt' /\ PostedOk' /\ OutstandingExact'
  BY <1>1 DEF Inv, InsideRequest, ChainBuilt, PostedOk, OutstandingExact, devVars, nicVars
<1> QED  BY <1>4, <1>5, <1>6 DEF Inv

(* A segment extends the chain, or fills and posts it. *)
LEMMA InvHandleSegment ==
  ASSUME Inv, NEW d \in Address, pc = "seg", HandleSegment(d)  PROVE Inv'
<1> DEFINE c == AddWr(d).count
           w == AddWr(d).wrs
           more == IF seg = Len(req[cur].bufs) THEN "fetch" ELSE "seg"
<1>0. MAX_REQ \in Nat \ {0} /\ MAX_REQ < ULONG /\ ULONG \in Nat
  BY RmemSyncAssumption
<1>1. /\ w \in [0 .. MAX_REQ - 1 -> WrType] /\ c \in 1 .. MAX_REQ
      /\ \A j \in 0 .. c - 1 : WrOk(w[j])
      /\ \A j \in 0 .. c - 2 : w[j].next = j + 1
  BY AddWrAdds
<1>2. /\ rdma_req_count' = c /\ seg' = IF more = "seg" THEN seg + 1 ELSE 1
      /\ UNCHANGED <<req, res, ram, xfer, queue, mem, blk_req>>
  BY DEF HandleSegment, blkVars
<1>3. \/ c >= MAX_REQ /\ PostSend(w, c) /\ pc' = "poll" /\ ret' = more
      \/ ~(c >= MAX_REQ) /\ wrs' = w /\ pc' = more
         /\ UNCHANGED <<ret, outstanding_requests, qp, sq, cq>>
  BY DEF HandleSegment, ArrayFull, nicVars
<1>4. sq = << >> /\ cq = 0 /\ outstanding_requests = 0
  BY DEF Inv, OutstandingExact
<1> HIDE DEF c, w
<1>5. more \in {"fetch", "seg"} /\ seg' \in Nat \ {0}
  BY <1>2 DEF Inv, TypeOK
<1>6. more = "seg" => Len(blk_req') > 0 /\ seg' \in Segs(req'[blk_req'[Len(blk_req')]])
  <2>1. cur \in Req  BY DEF Inv, TypeOK, InsideRequest, cur
  <2>2. Len(req[cur].bufs) \in Nat  BY <2>1 DEF Inv, TypeOK, RequestType
  <2>3. seg \in 1 .. Len(req[cur].bufs) /\ Len(blk_req) > 0
    BY DEF Inv, InsideRequest, Segs, cur
  <2> QED  BY <1>2, <2>2, <2>3 DEF Segs, cur
<1>7. RequestsFit'  BY <1>2 DEF Inv, RequestsFit
<1>8. CASE c >= MAX_REQ /\ PostSend(w, c) /\ pc' = "poll" /\ ret' = more
  <2>1. /\ wrs' \in [0 .. MAX_REQ - 1 -> WrType]
        /\ \A j \in 0 .. c - 1 : WrOk(wrs'[j])
        /\ \A j \in 0 .. c - 2 : wrs'[j].next = j + 1
        /\ sq' \in Seq(SqeType) /\ Len(sq') = c
        /\ \A i \in 1 .. Len(sq') : WrOk(sq'[i])
        /\ outstanding_requests' = c /\ qp' = qp /\ cq' = cq
    BY Zenon, <1>1, <1>4, <1>8, PostSendPosts
  <2>2. TypeOK'  BY <1>0, <1>1, <1>2, <1>5, <1>8, <2>1 DEF Inv, TypeOK
  <2>3. InsideRequest'  BY <1>6, <1>8 DEF InsideRequest
  <2>4. ChainBuilt'  BY <1>2, <1>8, <2>1 DEF ChainBuilt
  <2>5. PostedOk' /\ OutstandingExact'
    BY <1>0, <1>1, <1>4, <1>8, <2>1 DEF PostedOk, OutstandingExact
  <2> QED  BY <1>7, <2>2, <2>3, <2>4, <2>5 DEF Inv
<1>9. CASE ~(c >= MAX_REQ) /\ wrs' = w /\ pc' = more
           /\ UNCHANGED <<ret, outstanding_requests, qp, sq, cq>>
  <2>1. TypeOK'  BY <1>0, <1>1, <1>2, <1>5, <1>9 DEF Inv, TypeOK
  <2>2. InsideRequest'  BY <1>5, <1>6, <1>9 DEF InsideRequest
  <2>3. ChainBuilt'  BY <1>0, <1>1, <1>2, <1>5, <1>9 DEF ChainBuilt
  <2>4. PostedOk' /\ OutstandingExact'
    BY <1>4, <1>5, <1>9 DEF PostedOk, OutstandingExact
  <2> QED  BY <1>7, <2>1, <2>2, <2>3, <2>4 DEF Inv
<1> QED  BY <1>3, <1>8, <1>9

(* The last post of rmem_request_sync posts the rest of the chain. *)
LEMMA InvQueueEmpty ==
  ASSUME Inv, QueueEmpty  PROVE Inv'
<1> DEFINE n == rdma_req_count
<1>0. /\ MAX_REQ \in Nat \ {0} /\ MAX_REQ < ULONG /\ ULONG \in Nat
      /\ n \in 0 .. MAX_REQ /\ sq = << >> /\ cq = 0 /\ outstanding_requests = 0
      /\ pc = "fetch"
  BY RmemSyncAssumption DEF Inv, TypeOK, OutstandingExact, QueueEmpty
<1>1. UNCHANGED <<req, res, ram, xfer, queue, mem, seg, blk_req, rdma_req_count>>
  BY DEF QueueEmpty, blkVars
<1>2. RequestsFit'  BY <1>1 DEF Inv, RequestsFit
<1>3. CASE n > 0 /\ PostSend(wrs, n) /\ pc' = "poll" /\ ret' = "end"
  <2>1. /\ wrs' \in [0 .. MAX_REQ - 1 -> WrType]
        /\ \A j \in 0 .. n - 1 : WrOk(wrs'[j])
        /\ \A j \in 0 .. n - 2 : wrs'[j].next = j + 1
        /\ sq' \in Seq(SqeType) /\ Len(sq') = n
        /\ \A i \in 1 .. Len(sq') : WrOk(sq'[i])
        /\ outstanding_requests' = n /\ qp' = qp /\ cq' = cq
    <3>1. n \in 1 .. MAX_REQ  BY <1>0, <1>3
    <3> QED  BY Zenon, <3>1, <1>0, <1>3, PostSendPosts DEF Inv, TypeOK, ChainBuilt
  <2>2. TypeOK'  BY <1>0, <1>1, <1>3, <2>1 DEF Inv, TypeOK
  <2>3. InsideRequest' /\ ChainBuilt' /\ PostedOk'
    BY <1>1, <1>3, <2>1 DEF InsideRequest, ChainBuilt, PostedOk
  <2>4. OutstandingExact'  BY <1>0, <1>3, <2>1 DEF OutstandingExact
  <2> QED  BY SMTT(30), <1>2, <2>2, <2>3, <2>4 DEF Inv
<1>4. CASE n = 0 /\ pc' = "end" /\ UNCHANGED <<ret, wrs, outstanding_requests, nicVars>>
  <2>1. TypeOK'  BY <1>1, <1>4 DEF Inv, TypeOK, nicVars
  <2>2. InsideRequest' /\ ChainBuilt' /\ PostedOk' /\ OutstandingExact'
    BY <1>0, <1>1, <1>4
    DEF Inv, InsideRequest, ChainBuilt, PostedOk, OutstandingExact, nicVars
  <2> QED  BY <1>2, <2>1, <2>2 DEF Inv
<1> QED  BY <1>3, <1>4 DEF QueueEmpty

(* Ending the requests happens with nothing posted. *)
LEMMA InvEndRequests ==
  ASSUME Inv, EndRequests  PROVE Inv'
<1> DEFINE ended == {blk_req[i] : i \in 1 .. Len(blk_req)}
<1>1. /\ req'  = [r \in Req |-> IF r \in ended THEN FreeReq ELSE req[r]]
      /\ res'  = [r \in Req |-> IF r \in ended THEN "ok" ELSE res[r]]
      /\ xfer' = [r \in Req |-> IF r \in ended THEN {} ELSE xfer[r]]
      /\ pc = "end" /\ blk_req' = << >> /\ rdma_req_count' = 0 /\ pc' = "idle"
      /\ UNCHANGED <<ram, queue, mem, ret, seg, wrs, outstanding_requests, qp, sq, cq>>
  BY DEF EndRequests, nicVars
<1> HIDE DEF ended
<1>2. /\ FreeReq \in RequestType /\ FreeReq.page + Len(FreeReq.bufs) <= NPages
      /\ FreeReq.cmd = "none"
  BY BlockLayerAssumption DEF FreeReq, RequestType
<1>3. req' \in [Req -> RequestType]  BY <1>1, <1>2 DEF Inv, TypeOK
<1>4. res' \in [Req -> {"none", "ok", "eio"}] /\ xfer' \in [Req -> SUBSET Nat]
  BY <1>1 DEF Inv, TypeOK
<1>5. blk_req' \in Seq(Req) /\ rdma_req_count' \in 0 .. MAX_REQ
  BY <1>1, RmemSyncAssumption
<1>6. TypeOK'  BY <1>1, <1>3, <1>4, <1>5 DEF Inv, TypeOK
<1>7. RequestsFit'  BY <1>1, <1>2 DEF Inv, RequestsFit
<1>8. InsideRequest' /\ ChainBuilt' /\ PostedOk' /\ OutstandingExact'
  BY <1>1 DEF Inv, InsideRequest, ChainBuilt, PostedOk, OutstandingExact
<1> QED  BY SMTT(30), <1>6, <1>7, <1>8 DEF Inv

(* Polled completions leave the completion queue and the count together. *)
LEMMA InvPollSome ==
  ASSUME Inv, PollSome  PROVE Inv'
<1> DEFINE count == IF cq <= POLL_BATCH THEN cq ELSE POLL_BATCH
<1>1. /\ pc = "poll" /\ cq' = cq - count
      /\ outstanding_requests' = (outstanding_requests - count) % ULONG
      /\ UNCHANGED <<req, res, ram, xfer, queue, mem, pc, ret, seg, blk_req,
                     rdma_req_count, wrs, qp, sq>>
  BY DEF PollSome, Done, blkVars
<1>2. /\ cq \in Nat /\ count \in Nat /\ count <= cq /\ Len(sq) \in Nat
      /\ outstanding_requests = Len(sq) + cq
      /\ outstanding_requests \in 0 .. ULONG - 1 /\ ULONG \in Nat
  BY <1>1, RmemSyncAssumption DEF Inv, TypeOK, OutstandingExact
<1> HIDE DEF count
<1>3. outstanding_requests - count \in Nat /\ outstanding_requests - count < ULONG
  BY <1>2
<1>4. outstanding_requests' = outstanding_requests - count
  BY SMTT(30), <1>1, <1>2, <1>3, ModSmall
<1>5. TypeOK'
  <2>1. cq' \in Nat /\ outstanding_requests' \in 0 .. ULONG - 1
    BY <1>1, <1>2, <1>3, <1>4
  <2> QED  BY <1>1, <2>1 DEF Inv, TypeOK
<1>6. OutstandingExact'  BY <1>1, <1>2, <1>4 DEF OutstandingExact
<1>7. RequestsFit' /\ InsideRequest' /\ ChainBuilt' /\ PostedOk'
  BY <1>1 DEF Inv, RequestsFit, InsideRequest, ChainBuilt, PostedOk
<1> QED  BY <1>5, <1>6, <1>7 DEF Inv

(* poll_cq returns with an empty send queue. *)
LEMMA InvPollDone ==
  ASSUME Inv, PollDone  PROVE Inv'
<1>1. /\ pc = "poll" /\ cq = 0 /\ outstanding_requests = 0 /\ pc' = ret
      /\ rdma_req_count' = IF ret = "end" THEN rdma_req_count ELSE 0
      /\ UNCHANGED <<req, res, ram, xfer, queue, mem, ret, seg, blk_req, wrs,
                     outstanding_requests, qp, sq, cq>>
  BY DEF PollDone, blkVars, nicVars
<1>2. ret \in {"fetch", "seg", "end"} /\ MAX_REQ \in Nat \ {0}
  BY RmemSyncAssumption DEF Inv, TypeOK
<1>3. sq = << >>
  <2>1. Len(sq) = 0  BY <1>1 DEF Inv, TypeOK, OutstandingExact
  <2> QED  BY <2>1 DEF Inv, TypeOK
<1>4. TypeOK'  BY <1>1, <1>2 DEF Inv, TypeOK
<1>5. OutstandingExact'  BY <1>1, <1>2, <1>3 DEF OutstandingExact
<1>6. RequestsFit' /\ InsideRequest' /\ PostedOk'
  BY <1>1, <1>2 DEF Inv, RequestsFit, InsideRequest, PostedOk
<1>7. ChainBuilt'  BY <1>1, <1>2 DEF Inv, ChainBuilt
<1> QED  BY <1>4, <1>5, <1>6, <1>7 DEF Inv

(* A work request that stays inside does so when its first page is moved,  *)
(* and that page is one of local memory.                                   *)
LEMMA AdvanceOk ==
  ASSUME NEW e \in SqeType, WrOk(e), e.len > 0
  PROVE  Advance(e) \in SqeType /\ WrOk(Advance(e)) /\ e.addr \in Address
<1>1. e.addr \in Nat /\ e.raddr \in Nat /\ e.len \in Nat /\ e.op \in {"READ", "WRITE"}
  BY DEF SqeType
<1>2. rem_vaddr \in Nat /\ NPages \in Nat
  BY RmemSyncAssumption, BlockLayerAssumption
<1>3. Advance(e) \in SqeType  BY <1>1 DEF Advance, SqeType
<1>4. e.addr \in e.addr .. e.addr + e.len - 1  BY <1>1
<1>5. e.addr \in Address  BY <1>4 DEF WrOk
<1>6. e.raddr + 1 >= rem_vaddr /\ e.raddr + 1 + (e.len - 1) <= rem_vaddr + NPages
  BY <1>1, <1>2 DEF WrOk
<1>7. \A a \in e.addr + 1 .. e.addr + 1 + (e.len - 1) - 1 : a \in e.addr .. e.addr + e.len - 1
  BY <1>1
<1>8. \A a \in e.addr + 1 .. e.addr + 1 + (e.len - 1) - 1 : a \in Address
  BY <1>7 DEF WrOk
<1>9. WrOk(Advance(e))  BY <1>6, <1>8 DEF WrOk, Advance
<1> QED  BY <1>3, <1>5, <1>9

(* The NIC moves a page of a posted work request. *)
LEMMA InvNicMove ==
  ASSUME Inv, NEW i \in 1 .. Len(sq), NicMove(i)  PROVE Inv'
<1> DEFINE e == sq[i]
<1>1. /\ e.len > 0 /\ e.raddr \in Registered
      /\ sq' = [sq EXCEPT ![i] = Advance(e)]
      /\ xfer' = [r \in Req |->
                    xfer[r] \cup {j \in Segs(req[r]) :
                                    /\ req[r].dir = e.op
                                    /\ req[r].bufs[j] = e.addr
                                    /\ rem_vaddr + req[r].page + j - 1 = e.raddr}]
      /\ UNCHANGED <<req, res, queue, devVars, qp, cq>>
  BY DEF NicMove
<1>2. sq \in Seq(SqeType) /\ e \in SqeType /\ WrOk(e)
  BY DEF Inv, TypeOK, PostedOk
<1> HIDE DEF e
<1>3. Advance(e) \in SqeType /\ WrOk(Advance(e)) /\ e.addr \in Address
  BY <1>1, <1>2, AdvanceOk
<1>4. /\ sq' \in Seq(SqeType) /\ Len(sq') = Len(sq)
      /\ \A k \in 1 .. Len(sq) : sq'[k] = IF k = i THEN Advance(e) ELSE sq[k]
  BY SMTT(30), <1>1, <1>2, <1>3
<1>5. e.raddr \in RemAddr
  BY SMTT(30), <1>1, RmemSyncAssumption, BlockLayerAssumption DEF Registered, RemAddr
<1>6. ram \in [Address -> Val] /\ mem \in [RemAddr -> Val]  BY DEF Inv, TypeOK
<1>7. ram[e.addr] \in Val /\ mem[e.raddr] \in Val  BY <1>3, <1>5, <1>6
<1>8. ram' \in [Address -> Val] /\ mem' \in [RemAddr -> Val]
  <2>1. CASE mem' = [mem EXCEPT ![e.raddr] = ram[e.addr]] /\ ram' = ram
    BY Zenon, <1>6, <1>7, <2>1
  <2>2. CASE ram' = [ram EXCEPT ![e.addr] = mem[e.raddr]] /\ mem' = mem
    BY Zenon, <1>6, <1>7, <2>2
  <2> QED  BY <2>1, <2>2 DEF NicMove, e
<1>9. xfer' \in [Req -> SUBSET Nat]
  <2>1. \A r \in Req : \A j \in Segs(req[r]) : j \in Nat
    <3>1. \A r \in Req : Len(req[r].bufs) \in Nat  BY DEF Inv, TypeOK, RequestType
    <3> QED  BY <3>1 DEF Segs
  <2>2. \A r \in Req : xfer[r] \subseteq Nat  BY SMTT(30) DEF Inv, TypeOK
  <2> QED  BY <1>1, <2>1, <2>2
<1>10. TypeOK'  BY SMTT(30), <1>1, <1>4, <1>8, <1>9 DEF Inv, TypeOK, devVars
<1>11. PostedOk'  BY SMTT(30), <1>3, <1>4 DEF Inv, PostedOk
<1>12. pc = "poll" /\ OutstandingExact'
  <2>1. pc = "poll"  BY SMTT(30) DEF Inv, OutstandingExact
  <2> QED  BY <2>1, <1>1, <1>4 DEF Inv, OutstandingExact, devVars
<1>13. RequestsFit' /\ InsideRequest' /\ ChainBuilt'
  BY Zenon, <1>1 DEF Inv, RequestsFit, InsideRequest, ChainBuilt, devVars
<1> QED  BY SMTT(30), <1>10, <1>11, <1>12, <1>13 DEF Inv

(* A work request leaves the send queue and a completion enters the        *)
(* completion queue, be it for success or for failure.                     *)
LEMMA InvCompletion ==
  ASSUME Inv, sq # << >>, sq' = Tail(sq), cq' = cq + 1,
         UNCHANGED <<blkVars, mem, devVars, qp>>
  PROVE  Inv'
<1>1. /\ sq \in Seq(SqeType) /\ sq' \in Seq(SqeType) /\ cq \in Nat
      /\ Len(sq) \in Nat /\ Len(sq') = Len(sq) - 1
      /\ \A i \in 1 .. Len(sq') : sq'[i] = sq[i + 1] /\ i + 1 \in 1 .. Len(sq)
  BY DEF Inv, TypeOK
<1>2. TypeOK'
  <2>1. cq' \in Nat  BY <1>1
  <2> QED  BY <1>1, <2>1 DEF Inv, TypeOK, blkVars, devVars
<1>3. PostedOk'  BY <1>1 DEF Inv, PostedOk
<1>4. OutstandingExact'
  <2>1. pc = "poll"  BY SMTT(30) DEF Inv, OutstandingExact
  <2> QED  BY <2>1, <1>1 DEF Inv, OutstandingExact, devVars
<1>5. RequestsFit' /\ InsideRequest' /\ ChainBuilt'
  BY DEF Inv, RequestsFit, InsideRequest, ChainBuilt, blkVars, devVars
<1> QED  BY <1>2, <1>3, <1>4, <1>5 DEF Inv

(* Nothing but the state of the queue pair changes. *)
LEMMA InvUnchanged ==
  ASSUME Inv, qp' \in {"RTS", "ERR"}, UNCHANGED <<blkVars, mem, devVars, sq, cq>>
  PROVE  Inv'
<1>1. TypeOK'  BY SMTT(30) DEF Inv, TypeOK, blkVars, devVars
<1>2. RequestsFit' /\ InsideRequest' /\ ChainBuilt' /\ PostedOk' /\ OutstandingExact'
  BY DEF Inv, RequestsFit, InsideRequest, ChainBuilt, PostedOk, OutstandingExact,
         blkVars, devVars
<1> QED  BY <1>1, <1>2 DEF Inv

(* Every step preserves the invariant, faults included. *)
LEMMA InvNext == Inv /\ [FaultyNext]_vars => Inv'
<1> SUFFICES ASSUME Inv, [FaultyNext]_vars  PROVE Inv'
  OBVIOUS
<1>1. ASSUME NEW r \in Req, NEW q \in IoRequests, SubmitRequest(r, q)  PROVE Inv'
  BY <1>1, InvSubmit
<1>2. CASE RunQueue  BY <1>2, InvRunQueue
<1>3. ASSUME NEW r \in Req, FetchFs(r)  PROVE Inv'  BY <1>3, InvFetchFs
<1>4. ASSUME NEW r \in Req, FetchNonFs(r)  PROVE Inv'  BY <1>4, InvFetchNonFs
<1>5. CASE SegmentMapped
  <2>1. cur \in Req /\ seg \in Segs(req[cur])
    BY <1>5 DEF Inv, TypeOK, InsideRequest, cur, SegmentMapped
  <2>2. req[cur].bufs \in Seq(Frame)  BY <2>1 DEF Inv, TypeOK, RequestType
  <2>3. req[cur].bufs[seg] \in Address  BY <2>1, <2>2 DEF Segs, Address
  <2> QED  BY SMTT(30), <1>5, <2>3, InvHandleSegment DEF SegmentMapped
<1>6. CASE SegmentMapError
  BY <1>6, InvHandleSegment DEF SegmentMapError, Address
<1>7. CASE QueueEmpty  BY <1>7, InvQueueEmpty
<1>8. CASE EndRequests  BY <1>8, InvEndRequests
<1>9. CASE PollSome  BY <1>9, InvPollSome
<1>10. CASE PollDone  BY <1>10, InvPollDone
<1>11. ASSUME NEW i \in 1 .. Len(sq), NicMove(i)  PROVE Inv'  BY <1>11, InvNicMove
<1>12. CASE NicComplete  BY <1>12, InvCompletion DEF NicComplete
<1>13. CASE NicFlush  BY <1>13, InvCompletion DEF NicFlush
<1>14. CASE NicFail  BY SMTT(30), <1>14, InvUnchanged DEF NicFail
<1>15. CASE UNCHANGED vars
  BY <1>15, InvUnchanged DEF vars, nicVars, Inv, TypeOK
<1> QED
  BY <1>1, <1>2, <1>3, <1>4, <1>5, <1>6, <1>7, <1>8, <1>9, <1>10, <1>11, <1>12, <1>13,
     <1>14, <1>15 DEF FaultyNext, Next, Driver, Nic

-----------------------------------------------------------------------------
(* Theorems. *)

(* Whatever fails, the state stays well typed: no work request gets a      *)
(* negative address, no counter leaves its range.                          *)
THEOREM FaultyTypeOK == FaultySpec => []TypeOK
<1>1. Inv => TypeOK  BY DEF Inv
<1> QED  BY <1>1, InvInit, InvNext, PTL DEF FaultySpec

(* Whatever fails, poll_cq counts exactly the work requests the NIC still  *)
(* has to complete, however many requests and pages there are: it returns  *)
(* when, and only when, the NIC is done with every one of them.            *)
THEOREM FaultyOutstandingExact == FaultySpec => []OutstandingExact
<1>1. Inv => OutstandingExact  BY SMTT(30) DEF Inv
<1> QED  BY <1>1, InvInit, InvNext, PTL DEF FaultySpec

(* Whatever fails, no work request reaches outside the registered region,  *)
(* with and without merging.                                               *)
THEOREM FaultyRemoteInBounds == FaultySpec => []RemoteInBounds
<1>1. Inv => RemoteInBounds  BY DEF Inv, PostedOk, WrOk, RemoteInBounds
<1> QED  BY <1>1, InvInit, InvNext, PTL DEF FaultySpec

(* Without faults the same holds. *)
THEOREM SpecSafe == Spec => [](TypeOK /\ OutstandingExact /\ RemoteInBounds)
<1>1. Inv => TypeOK /\ OutstandingExact /\ RemoteInBounds
  BY DEF Inv, PostedOk, WrOk, RemoteInBounds
<1>2. [Next]_vars => [FaultyNext]_vars  BY DEF FaultyNext
<1> QED  BY <1>1, <1>2, InvInit, InvNext, PTL DEF Spec
=============================================================================
