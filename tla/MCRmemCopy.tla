----------------------------- MODULE MCRmemCopy -----------------------------
(* A small instance of RmemCopy for TLC. *)
EXTENDS RmemCopy, TLC

CONSTANTS r1, r2, v1, v2

Fs(dir, page, bufs) == [cmd |-> "fs", dir |-> dir, page |-> page, bufs |-> bufs]

(* Pages that merge within and across requests, pages that do not, some    *)
(* only because the operations differ, and a request that is no            *)
(* file-system request.                                                    *)
CopyRequests ==
  { Fs("WRITE", 0, <<1, 2>>), Fs("WRITE", 2, <<3>>), Fs("READ", 0, <<3, 2>>),
    Fs("READ", 1, <<1>>), Fs("READ", 2, <<3>>),
    [cmd |-> "pc", dir |-> "READ", page |-> 0, bufs |-> <<1>>] }

Symmetry == Permutations(Req) \cup Permutations(Val)
=============================================================================
