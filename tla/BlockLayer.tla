----------------------------- MODULE BlockLayer -----------------------------
(***************************************************************************)
(* The vocabulary rmem_rdma shares with the Linux block layer above it.    *)
(* The block layer is not code of this repository; this module and the     *)
(* Submit action of BlockDevice hold what rmem.c can observe of it.        *)
(*                                                                         *)
(* A request moves a run of consecutive device pages to or from page       *)
(* frames of the submitter's memory.  The unit is the page throughout:     *)
(* rmem_init sets the logical block size to PAGE_SIZE, so every segment of *)
(* a bio is one page, and the bios of a request are contiguous on the      *)
(* device, so the two nested loops over bios and segments of the request   *)
(* functions run over one sequence of pages.                               *)
(***************************************************************************)
EXTENDS Integers, Sequences

CONSTANTS
  Req,         \* the struct request objects of the queue (nr_requests of them)
  NPages,      \* the device's capacity in pages (set_capacity)
  Frame,       \* the page frames a bio segment may name, positive integers
  Val,         \* what a page may hold
  IoRequests   \* the requests the block layer may submit

(* The pages of the device. *)
Page == 0 .. NPages - 1

(* Local memory: the page frames, and address 0, the error value of        *)
(* rdma_map_address, which is a page of no request.                        *)
Address == Frame \cup {0}

(* cmd "fs" is REQ_TYPE_FS, "pc" any other command type, "none" a struct   *)
(* request that is not allocated.  The segments of the request's bios are  *)
(* bufs[1], bufs[2], ..., for the device pages page, page + 1, ...         *)
RequestType ==
  [cmd : {"none", "fs", "pc"}, dir : {"READ", "WRITE"}, page : Nat, bufs : Seq(Frame)]

FreeReq == [cmd |-> "none", dir |-> "READ", page |-> 0, bufs |-> << >>]

(* The segments of request q, and the page frames they name. *)
Segs(q) == 1 .. Len(q.bufs)
Bufs(q) == {q.bufs[j] : j \in Segs(q)}

(* What is left of request q once the bytes of its first segment have     *)
(* ended: blk_update_request, and the end of the request when it was all.  *)
DropHead(q) ==
  IF Len(q.bufs) = 1 THEN FreeReq
  ELSE [q EXCEPT !.page = q.page + 1, !.bufs = Tail(q.bufs)]

ASSUME BlockLayerAssumption ==
  /\ NPages \in Nat \ {0}
  /\ Frame \subseteq Nat \ {0}
  /\ \A q \in IoRequests :
       /\ q \in RequestType
       /\ q.cmd # "none"
       /\ Len(q.bufs) > 0
       /\ q.page + Len(q.bufs) <= NPages
       /\ \A i, j \in Segs(q) : q.bufs[i] = q.bufs[j] => i = j
=============================================================================
