----------------------------- MODULE MCRmemSync -----------------------------
(* Small instances of RmemSync for TLC. *)
EXTENDS RmemSync, TLC

CONSTANTS r1, r2, v1, v2

MCReq == {r1, r2}
MCVal == {v1, v2}

(* Requests of one, two and three pages.  Frames 1, 2, 3 in this order and *)
(* pages 0, 1, 2 are adjacent, so work requests can be merged within a     *)
(* request and across two; in some only the frames or only the pages are   *)
(* adjacent, and in some the operations differ; reads and writes overlap   *)
(* on the device.                                                          *)
Fs(dir, page, bufs) == [cmd |-> "fs", dir |-> dir, page |-> page, bufs |-> bufs]
Pc(bufs) == [cmd |-> "pc", dir |-> "READ", page |-> 0, bufs |-> bufs]

MCIoRequests ==
  { Fs("WRITE", 0, <<1, 3, 2>>), Fs("READ", 0, <<2, 1>>), Fs("WRITE", 1, <<2>>),
    Fs("WRITE", 0, <<1>>), Fs("WRITE", 2, <<2>>), Fs("READ", 1, <<2, 3>>), Pc(<<3>>) }

(* With a request of another type that has two segments. *)
MCFaultyIoRequests ==
  { Fs("WRITE", 0, <<1, 2, 3>>), Fs("READ", 0, <<2, 1>>), Fs("WRITE", 1, <<2>>),
    Fs("READ", 1, <<3>>), Fs("READ", 2, <<3>>), Pc(<<2, 3>>) }

(* The connection may fail, and nothing else. *)
ConnectionLossSpec == Init /\ [][Next \/ NicFail]_vars

Symmetry == Permutations(MCReq) \cup Permutations(MCVal)
=============================================================================
