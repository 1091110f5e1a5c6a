--------------------------- MODULE RmemSyncArrays ---------------------------
(***************************************************************************)
(* Proof that rmem_request_sync stays inside the arrays of struct           *)
(* rmem_device, for every queue depth up to MAX_REQ and every request.      *)
(* What RmemSyncProofs shows of rdma_req_count is enough for dev->wrs;      *)
(* dev->blk_req needs a counting argument, from FetchedOnce.                *)
(***************************************************************************)
EXTENDS RmemSyncProofs, FiniteSetTheorems

(* A call fetches no request twice: what it has stored in dev->blk_req has *)
(* left the queue, and nothing enters the queue while it runs.             *)
FetchedOnce ==
  /\ \A i, j \in 1 .. Len(blk_req) : blk_req[i] = blk_req[j] => i = j
  /\ \A i \in 1 .. Len(blk_req) : blk_req[i] \notin queue
  /\ pc = "idle" => blk_req = << >>

LEMMA FetchedOnceNext == Inv /\ FetchedOnce /\ [FaultyNext]_vars => FetchedOnce'
<1> SUFFICES ASSUME Inv, FetchedOnce, [FaultyNext]_vars  PROVE FetchedOnce'
  OBVIOUS
<1>0. blk_req \in Seq(Req) /\ ret # "idle"  BY DEF Inv, TypeOK
<1>1. ASSUME NEW r \in Req, NEW q \in IoRequests, SubmitRequest(r, q)
      PROVE  FetchedOnce'
  BY <1>1 DEF SubmitRequest, devVars, FetchedOnce
<1>2. ASSUME NEW r \in Req, FetchFs(r)  PROVE FetchedOnce'
  <2>1. /\ r \in queue /\ queue' = queue \ {r} /\ blk_req' = Append(blk_req, r)
        /\ pc' = "seg"
    BY <1>2 DEF FetchFs
  <2>2. /\ Len(blk_req') = Len(blk_req) + 1 /\ Len(blk_req) \in Nat
        /\ blk_req'[Len(blk_req) + 1] = r
        /\ \A i \in 1 .. Len(blk_req) : blk_req'[i] = blk_req[i]
    BY <2>1, <1>0
  <2> QED  BY <2>1, <2>2 DEF FetchedOnce
<1>3. ASSUME NEW r \in Req, FetchNonFs(r)  PROVE FetchedOnce'
  BY <1>3 DEF FetchNonFs, devVars, FetchedOnce
<1>4. ASSUME NEW d, pc = "seg", HandleSegment(d)  PROVE FetchedOnce'
  <2>1. pc' # "idle" /\ blk_req' = blk_req /\ queue' = queue
    BY <1>4 DEF HandleSegment, blkVars
  <2> QED  BY <2>1 DEF FetchedOnce
<1>5. CASE QueueEmpty
  <2>1. pc' # "idle" /\ blk_req' = blk_req /\ queue' = queue
    BY <1>5 DEF QueueEmpty, blkVars
  <2> QED  BY <2>1 DEF FetchedOnce
<1>6. CASE EndRequests
  <2>1. blk_req' = << >> /\ Len(blk_req') = 0  BY <1>6 DEF EndRequests
  <2> QED  BY <2>1 DEF FetchedOnce
<1>7. CASE RunQueue  BY <1>7 DEF RunQueue, blkVars, FetchedOnce
<1>8. CASE PollSome  BY <1>8 DEF PollSome, blkVars, FetchedOnce
<1>9. CASE PollDone  BY <1>9, <1>0 DEF PollDone, blkVars, FetchedOnce
<1>10. ASSUME NEW i \in 1 .. Len(sq), NicMove(i)  PROVE FetchedOnce'
  BY <1>10 DEF NicMove, devVars, FetchedOnce
<1>11. CASE NicComplete \/ NicFlush \/ NicFail \/ UNCHANGED vars
  BY <1>11 DEF NicComplete, NicFlush, NicFail, vars, blkVars, devVars, FetchedOnce
<1>12. CASE SegmentMapped \/ SegmentMapError
  BY <1>4, <1>12 DEF SegmentMapped, SegmentMapError
<1> QED
  BY SMTT(30), <1>1, <1>2, <1>3, <1>5, <1>6, <1>7, <1>8, <1>9, <1>10, <1>11, <1>12
  DEF FaultyNext, Next, Driver, Nic

(* A call fetches no more requests than the queue can hold. *)
LEMMA FetchedFit == Inv /\ FetchedOnce => ArraysInBounds
<1> SUFFICES ASSUME Inv, FetchedOnce  PROVE ArraysInBounds
  OBVIOUS
<1> DEFINE n == Len(blk_req)
<1>1. blk_req \in Seq(Req) /\ n \in Nat  BY DEF Inv, TypeOK
<1>2. blk_req \in [1 .. n -> Req]  BY <1>1
<1>3. \A i, j \in 1 .. n : blk_req[i] = blk_req[j] => i = j  BY DEF FetchedOnce
<1>4. blk_req \in Injection(1 .. n, Req)
  BY <1>2, <1>3 DEF Injection, IsInjective
<1>5. IsFiniteSet(Req) /\ Cardinality(Req) <= MAX_REQ /\ MAX_REQ \in Nat
  BY RmemSyncAssumption, QueueDepthAssumption
<1>6. Cardinality(1 .. n) <= Cardinality(Req)  BY <1>4, <1>5, FS_Injection
<1>7. Cardinality(1 .. n) = n
  <2>1. Cardinality(1 .. n) = IF 1 > n THEN 0 ELSE n - 1 + 1
    BY SMTT(30), <1>1, FS_Interval
  <2> QED  BY <2>1, <1>1
<1>8. Cardinality(Req) \in Nat  BY <1>5, FS_CardinalityType
<1>9. n <= MAX_REQ  BY <1>1, <1>5, <1>6, <1>7, <1>8
<1> QED  BY <1>9 DEF Inv, ChainBuilt, ArraysInBounds

(* However many requests a call fetches and however often it flushes,      *)
(* dev->blk_req and dev->wrs are written inside their MAX_REQ entries.     *)
THEOREM FaultyArraysInBounds == FaultySpec => []ArraysInBounds
<1>1. Init => FetchedOnce  BY DEF Init, FetchedOnce
<1> QED  BY <1>1, InvInit, InvNext, FetchedOnceNext, FetchedFit, PTL DEF FaultySpec
=============================================================================
