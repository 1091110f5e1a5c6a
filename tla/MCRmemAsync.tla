---------------------------- MODULE MCRmemAsync ----------------------------
(* Small instances of RmemAsync for TLC. *)
EXTENDS RmemAsync

CONSTANTS r1, r2, r3, t1, t2, v1, v2

Fs(dir, page, bufs) == [cmd |-> "fs", dir |-> dir, page |-> page, bufs |-> bufs]
Pc(bufs) == [cmd |-> "pc", dir |-> "READ", page |-> 0, bufs |-> bufs]

Symmetry == Permutations(Req) \cup Permutations(Thread)

-----------------------------------------------------------------------------
(* Safety: a write of two work requests; a write that continues the second *)
(* of them, and is linked behind it when it comes in the same call; and a  *)
(* read that would continue it as well, but for its operation.             *)
SharedRequests ==
  { Fs("WRITE", 0, <<1, 3>>), Fs("WRITE", 2, <<4>>), Fs("READ", 2, <<4>>) }

(* The server's memory holds v1 at first, and whatever is written is v2.   *)
(* So a page moved in the wrong direction, or one that nobody asked for,   *)
(* changes some page.                                                      *)
MCInit ==
  /\ Init
  /\ mem = [a \in RemAddr |-> v1]
  /\ ram = [a \in Address |-> v2]

SubmitNewData(r, q) ==
  /\ SubmitRequest(r, q)
  /\ q.dir = "WRITE" => \A a \in Bufs(q) : ram'[a] = v2

MCFaultyNext ==
  \/ \E r \in Req, q \in IoRequests : SubmitNewData(r, q)
  \/ System
  \/ NicFail
  \/ NicFlush

MCFaultySpec == MCInit /\ [][MCFaultyNext]_vars

-----------------------------------------------------------------------------
(* Liveness: three writes of one page that may share one work request, so  *)
(* that the second and the third batch request are linked in a row, and a  *)
(* request that is no file-system request.  Each struct request is         *)
(* submitted at most once, for what Script gives it; as the structs are    *)
(* interchangeable, it does not matter which one holds what.               *)
Script(r) ==
  CASE r = r1 -> {Fs("WRITE", 0, <<1>>)}
    [] r = r2 -> {Fs("WRITE", 1, <<2>>)}
    [] r = r3 -> {Fs("WRITE", 2, <<3>>), Pc(<<3>>)}

ScriptRequests == UNION {Script(r) : r \in Req}

SubmitOnce(r, q) == res[r] = "none" /\ SubmitRequest(r, q)

MCNext ==
  \/ \E r \in Req : \E q \in Script(r) : SubmitOnce(r, q)
  \/ System

MCFairSpec == Init /\ [][MCNext]_vars /\ Fairness
=============================================================================
