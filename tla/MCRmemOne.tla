----------------------------- MODULE MCRmemOne -----------------------------
(* A small instance of RmemOne for TLC. *)
EXTENDS RmemOne, TLC

CONSTANTS r1, r2, t1, t2, v1, v2

Fs(dir, page, bufs) == [cmd |-> "fs", dir |-> dir, page |-> page, bufs |-> bufs]
Pc(bufs) == [cmd |-> "pc", dir |-> "READ", page |-> 0, bufs |-> bufs]

(* A write of two work requests, a read whose two pages are one work       *)
(* request and overlap with the write, and a request that is no            *)
(* file-system request.                                                    *)
OverlapRequests == { Fs("WRITE", 0, <<2, 1>>), Fs("READ", 1, <<3, 4>>), Pc(<<4>>) }

(* The server's memory holds v1 at first, and whatever is written is v2.   *)
(* So a page moved in the wrong direction, or one that nobody asked for,   *)
(* changes some page.                                                      *)
MCInit ==
  /\ Init
  /\ mem = [a \in RemAddr |-> v1]
  /\ ram = [a \in Address |-> v2]

SubmitNewData(r, q) ==
  /\ SubmitRequest(r, q)
  /\ q.dir = "WRITE" => \A a \in Bufs(q) : ram'[a] = v2

MCNext ==
  \/ \E r \in Req, q \in IoRequests : SubmitNewData(r, q)
  \/ System

MCSpec == MCInit /\ [][MCNext]_vars

Symmetry == Permutations(Req) \cup Permutations(Thread)
=============================================================================
