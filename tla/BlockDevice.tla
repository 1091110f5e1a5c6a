---------------------------- MODULE BlockDevice ----------------------------
(***************************************************************************)
(* What the block layer expects of a block device, and so what rmem_rdma   *)
(* promises to the swap code and the file systems above it.  Every page of *)
(* a file-system request is moved once, at some instant between submission *)
(* and completion, and the request may be ended with success only when all *)
(* of its pages have been moved.  Other requests move nothing and get      *)
(* -EIO.                                                                   *)
(***************************************************************************)
EXTENDS BlockLayer

VARIABLES
  req,    \* Req -> the request the struct holds
  res,    \* Req -> how the last request of the struct ended
  ram,    \* the submitter's memory
  disk,   \* what the device stores
  xfer    \* Req -> the segments of the request that have been moved

vars == <<req, res, ram, disk, xfer>>

TypeOK ==
  /\ req  \in [Req -> RequestType]
  /\ res  \in [Req -> {"none", "ok", "eio"}]
  /\ ram  \in [Address -> Val]
  /\ disk \in [Page -> Val]
  /\ xfer \in [Req -> SUBSET Nat]

Init ==
  /\ req  = [r \in Req |-> FreeReq]
  /\ res  = [r \in Req |-> "none"]
  /\ ram  \in [Address -> Val]
  /\ disk \in [Page -> Val]
  /\ xfer = [r \in Req |-> {}]

(* The block layer queues q in the free struct r.  The page frames of a    *)
(* request are its own until it ends (a page under I/O is locked); those   *)
(* of a write hold whatever the submitter has stored in them.              *)
Submit(r, q) ==
  /\ req[r].cmd = "none"
  /\ \A s \in Req : Bufs(req[s]) \cap Bufs(q) = {}
  /\ req' = [req EXCEPT ![r] = q]
  /\ res' = [res EXCEPT ![r] = "none"]
  /\ \E data \in [Bufs(q) -> Val] :
       ram' = [a \in Address |->
                 IF q.dir = "WRITE" /\ a \in Bufs(q) THEN data[a] ELSE ram[a]]
  /\ UNCHANGED <<disk, xfer>>

(* Segment j of r is moved between memory and device. *)
Move(r, j) ==
  LET p == req[r].page + j - 1
      a == req[r].bufs[j]
  IN  /\ req[r].cmd = "fs"
      /\ j \notin xfer[r]
      /\ xfer' = [xfer EXCEPT ![r] = @ \cup {j}]
      /\ \/ /\ req[r].dir = "WRITE"
            /\ disk' = [disk EXCEPT ![p] = ram[a]]
            /\ UNCHANGED ram
         \/ /\ req[r].dir = "READ"
            /\ ram' = [ram EXCEPT ![a] = disk[p]]
            /\ UNCHANGED disk
      /\ UNCHANGED <<req, res>>

(* The requests of S end with success, all of their pages moved. *)
EndOk(S) ==
  /\ \A r \in S : req[r].cmd = "fs" /\ xfer[r] = Segs(req[r])
  /\ req'  = [r \in Req |-> IF r \in S THEN FreeReq ELSE req[r]]
  /\ res'  = [r \in Req |-> IF r \in S THEN "ok" ELSE res[r]]
  /\ xfer' = [r \in Req |-> IF r \in S THEN {} ELSE xfer[r]]
  /\ UNCHANGED <<ram, disk>>

(* The first segment of a request that is no file-system request ends with *)
(* -EIO, and the request with it when it has no other segment.             *)
EndHeadEio(r) ==
  /\ req[r].cmd = "pc"
  /\ res' = [res EXCEPT ![r] = "eio"]
  /\ req' = [req EXCEPT ![r] = DropHead(req[r])]
  /\ UNCHANGED <<ram, disk, xfer>>

Next ==
  \/ \E r \in Req, q \in IoRequests : Submit(r, q)
  \/ \E r \in Req : \E j \in Segs(req[r]) : Move(r, j)
  \/ \E S \in SUBSET Req : EndOk(S)
  \/ \E r \in Req : EndHeadEio(r)

Spec == Init /\ [][Next]_vars
=============================================================================
