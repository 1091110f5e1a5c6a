------------------------------- MODULE Session -------------------------------
(***************************************************************************)
(* How a session between an rmem_rdma device and the memory server comes   *)
(* up and goes away: rdma_init and rdma_exit of rdma_library.c against     *)
(* main of server.c, over TCP.                                             *)
(*                                                                         *)
(* The server serves one session at a time.  It listens, accepts one       *)
(* connection, closes the listening socket, learns the size of the memory  *)
(* the client wants, registers it, exchanges bootstrap data, closes the    *)
(* connection, brings its queue pair up, and then listens once more for a  *)
(* connection that says "teardown".  A client is one rdma_ctx: a device of *)
(* some host.  send_data and receive_data throw the result of their socket *)
(* call away, so the client notices neither a refused nor a reset          *)
(* connection, and its buffer keeps what it held when nothing is received. *)
(***************************************************************************)
EXTENDS Integers, Sequences, FiniteSets

CONSTANTS
  Client,      \* the devices that may use this server
  MemSize,     \* Client -> the memory sizes its loads may ask for
  BUF_SIZE,    \* the server's buffer: size_gb of main, in bytes
  GB,          \* the bytes one GB has
  Stale,       \* digits that may lie behind a text in the server's buffer:
               \*   10 to the power of their number, and their value
  MAX_LOADS,   \* bound: how often a client loads its module
  MAX_CONN,    \* bound: TCP connections that exist at the same time
  NoClient

ASSUME SessionAssumption ==
  /\ MemSize \in [Client -> SUBSET (Nat \ {0})]
  /\ BUF_SIZE \in Nat /\ GB \in Nat \ {0}
  /\ Stale \subseteq [scale : Nat \ {0}, digits : Nat]
  /\ MAX_LOADS \in Nat
  /\ MAX_CONN \in Nat
  /\ NoClient \notin Client

VARIABLES
  \* rdma_init, rdma_exit: per client
  cpc,       \* where the client is
  loads,     \* how often rdma_init was called
  sock,      \* ctx->sock: a connection, or 0 for a socket that is not connected
  rem_rkey,  \* ctx->rem_rkey, 0 when the server's data was not received
  cqp,       \* the state of ctx->qp
  \* main: the server
  spc,       \* where main is
  new_fd,    \* the connection accepted, or 0
  s_ctx,     \* struct context
  last_rkey, \* the key of the memory region registered last
  \* TCP
  listening, \* whether the listening socket is open
  backlog,   \* the connections that wait for accept
  conn       \* the connections

clientVars == <<cpc, loads, sock, rem_rkey, cqp>>
serverVars == <<spc, new_fd, s_ctx, last_rkey>>
tcpVars    == <<listening, backlog, conn>>
vars       == <<clientVars, serverVars, tcpVars>>

-----------------------------------------------------------------------------
(* TCP.  Each end of a connection is open or closed; what was sent before  *)
(* the other end closed can still be received, then receiving returns at   *)
(* once with nothing.  A connection in the backlog counts as open.         *)

Conn == 1 .. MAX_CONN

Message ==
  [type : {"size", "boot", "peer", "teardown", "done"}, val : Nat \cup Client]

Msg(type, val) == [type |-> type, val |-> val]

ConnType == [cli : BOOLEAN, srv : BOOLEAN, c2s : Seq(Message), s2c : Seq(Message)]

NoConn == [cli |-> FALSE, srv |-> FALSE, c2s |-> << >>, s2c |-> << >>]

Settle(k) == IF k.cli \/ k.srv THEN k ELSE NoConn

FreeConn == {k \in Conn : ~conn[k].cli /\ ~conn[k].srv}

NewConn == CHOOSE k \in FreeConn : TRUE

(* The connections after the client end of k is closed. *)
ClientCloses(k) ==
  IF k = 0 THEN conn ELSE [conn EXCEPT ![k] = Settle([@ EXCEPT !.cli = FALSE])]

(* The connections cs after the server ends of those in K are closed. *)
ServerCloses(cs, K) ==
  [k \in Conn |-> IF k \in K THEN Settle([cs[k] EXCEPT !.srv = FALSE]) ELSE cs[k]]

(* The connections after the client of k sends m. *)
ClientSends(k, m) ==
  IF k # 0 /\ conn[k].srv THEN [conn EXCEPT ![k].c2s = Append(@, m)] ELSE conn

(* The client of k would not block in receive_data; what it then receives. *)
CanReceive(k) == k # 0 => conn[k].s2c # << >> \/ ~conn[k].srv
Received(k)   == IF k # 0 /\ conn[k].s2c # << >> THEN {Head(conn[k].s2c)} ELSE {}

(* What the server can receive: a message, or the end of the connection. *)
ServerGets == IF conn[new_fd].c2s # << >> THEN {Head(conn[new_fd].c2s)} ELSE {}
ServerEof  == conn[new_fd].c2s = << >> /\ ~conn[new_fd].cli

(* The connections after the server has received once, and sent out. *)
ServerTurn(out) ==
  [conn EXCEPT ![new_fd].c2s = Tail(@),
               ![new_fd].s2c = IF conn[new_fd].cli THEN @ \o out ELSE @]

-----------------------------------------------------------------------------
(* The struct context of the server after the memset in main's loop. *)
NoSession == [rdma_mem_size |-> 0, rkey |-> 0, qp |-> "none", rem_qpn |-> NoClient]

TypeOK ==
  /\ cpc \in [Client -> {"idle", "size", "boot", "setup", "up", "send", "recv"}]
  /\ loads \in [Client -> 0 .. MAX_LOADS]
  /\ sock \in [Client -> Conn \cup {0}]
  /\ rem_rkey \in [Client -> Nat]
  /\ cqp \in [Client -> {"RESET", "INIT", "RTR", "RTS"}]
  /\ spc \in {"listen1", "accept1", "getsize", "getpeer", "listen2", "accept2",
              "waittd", "shutdown", "exited"}
  /\ new_fd \in Conn \cup {0}
  /\ s_ctx \in [rdma_mem_size : Nat, rkey : Nat, qp : {"none", "INIT", "RTS"},
                rem_qpn : Client \cup {NoClient}]
  /\ last_rkey \in Nat
  /\ listening \in BOOLEAN
  /\ backlog \in Seq(Conn)
  /\ conn \in [Conn -> ConnType]

Init ==
  /\ cpc = [c \in Client |-> "idle"]
  /\ loads = [c \in Client |-> 0]
  /\ sock = [c \in Client |-> 0]
  /\ rem_rkey = [c \in Client |-> 0]
  /\ cqp = [c \in Client |-> "RESET"]
  /\ spc = "listen1" /\ new_fd = 0 /\ s_ctx = NoSession /\ last_rkey = 0
  /\ listening = FALSE /\ backlog = << >>
  /\ conn = [k \in Conn |-> NoConn]

-----------------------------------------------------------------------------
(* The client. *)

(* connect: it succeeds when somebody listens, else it is refused. *)
connect(c) ==
  \/ /\ listening /\ FreeConn # {}
     /\ sock' = [sock EXCEPT ![c] = NewConn]
     /\ backlog' = Append(backlog, NewConn)
     /\ conn' = [conn EXCEPT ![NewConn] = [cli |-> TRUE, srv |-> TRUE, c2s |-> << >>, s2c |-> << >>]]
     /\ UNCHANGED listening
  \/ /\ ~listening
     /\ sock' = [sock EXCEPT ![c] = 0]
     /\ UNCHANGED tcpVars

(* rdma_init up to and including connect; it fails when that is refused. *)
InitConnect(c) ==
  /\ cpc[c] = "idle" /\ loads[c] < MAX_LOADS
  /\ loads' = [loads EXCEPT ![c] = @ + 1]
  /\ connect(c)
  /\ cpc' = [cpc EXCEPT ![c] = IF listening THEN "size" ELSE "idle"]
  /\ rem_rkey' = [rem_rkey EXCEPT ![c] = 0]
  /\ cqp' = [cqp EXCEPT ![c] = "RESET"]
  /\ UNCHANGED serverVars

(* handshake sends the memory size. *)
SendSize(c) ==
  /\ cpc[c] = "size"
  /\ \E n \in MemSize[c] : conn' = ClientSends(sock[c], Msg("size", n))
  /\ cpc' = [cpc EXCEPT ![c] = "boot"]
  /\ UNCHANGED <<loads, sock, rem_rkey, cqp, serverVars, listening, backlog>>

(* Mutant: sent before the port data is known. *)
OwnData_Early(c) == Msg("peer", 0)

(* The handshake data of a client: its queue pair, above all. *)
OwnData(c) == Msg("peer", c)

(* handshake receives the server's data and sends its own.  When it        *)
(* receives nothing, it parses the memory size it sent: the key stays 0.   *)
RecvBoot(c) ==
  LET got == Received(sock[c])
  IN  /\ cpc[c] = "boot" /\ CanReceive(sock[c])
      /\ \/ \E m \in got :
              /\ rem_rkey' = [rem_rkey EXCEPT ![c] = m.val]
              /\ conn' = [conn EXCEPT
                            ![sock[c]].s2c = Tail(@),
                            ![sock[c]].c2s = IF conn[sock[c]].srv
                                             THEN Append(@, OwnData(c)) ELSE @]
         \/ /\ got = {}
            /\ UNCHANGED <<rem_rkey, conn>>
      /\ cpc' = [cpc EXCEPT ![c] = "setup"]
      /\ UNCHANGED <<loads, sock, cqp, serverVars, listening, backlog>>

(* rdma_setup brings the queue pair to state q, RTS unless modify_qp       *)
(* fails, which is ignored; then the socket is released and rdma_init is   *)
(* done.                                                                   *)
Setup(c, q) ==
  /\ cpc[c] = "setup"
  /\ cqp' = [cqp EXCEPT ![c] = q]
  /\ conn' = ClientCloses(sock[c])
  /\ sock' = [sock EXCEPT ![c] = 0]
  /\ cpc' = [cpc EXCEPT ![c] = "up"]
  /\ UNCHANGED <<loads, rem_rkey, serverVars, listening, backlog>>

(* populate_port_data or rdma_setup fails: rdma_init returns without       *)
(* releasing the socket, which stays open.                                 *)
InitFails(c) ==
  /\ cpc[c] \in {"size", "setup"}
  /\ cpc' = [cpc EXCEPT ![c] = "idle"]
  /\ sock' = [sock EXCEPT ![c] = 0]
  /\ rem_rkey' = [rem_rkey EXCEPT ![c] = 0]
  /\ UNCHANGED <<loads, cqp, serverVars, tcpVars>>

(* rdma_exit reconnects and goes on to teardown even if that was refused. *)
ExitConnect(c) ==
  /\ cpc[c] = "up"
  /\ connect(c)
  /\ cpc' = [cpc EXCEPT ![c] = "send"]
  /\ UNCHANGED <<loads, rem_rkey, cqp, serverVars>>

(* teardown sends its request. *)
TeardownSend(c) ==
  /\ cpc[c] = "send"
  /\ conn' = ClientSends(sock[c], Msg("teardown", 0))
  /\ cpc' = [cpc EXCEPT ![c] = "recv"]
  /\ UNCHANGED <<loads, sock, rem_rkey, cqp, serverVars, listening, backlog>>

(* teardown receives: "done" ends rdma_exit; when nothing is received the  *)
(* request is sent again.  The server sends nothing else to a client that  *)
(* sends it "teardown".                                                    *)
TeardownRecv(c) ==
  LET k == sock[c]
  IN  /\ cpc[c] = "recv" /\ CanReceive(k)
      /\ \/ /\ Received(k) # {}
            /\ conn' = ClientCloses(k)
            /\ sock' = [sock EXCEPT ![c] = 0]
            /\ cpc' = [cpc EXCEPT ![c] = "idle"]
            /\ rem_rkey' = [rem_rkey EXCEPT ![c] = 0]
         \/ /\ Received(k) = {}
            /\ cpc' = [cpc EXCEPT ![c] = "send"]
            /\ UNCHANGED <<sock, rem_rkey, conn>>
      /\ UNCHANGED <<loads, cqp, serverVars, listening, backlog>>

(* The client's host fails: its connection ends, and it starts afresh. *)
ClientCrash(c) ==
  /\ cpc[c] # "idle"
  /\ conn' = ClientCloses(sock[c])
  /\ sock' = [sock EXCEPT ![c] = 0]
  /\ cpc' = [cpc EXCEPT ![c] = "idle"]
  /\ rem_rkey' = [rem_rkey EXCEPT ![c] = 0]
  /\ cqp' = [cqp EXCEPT ![c] = "RESET"]
  /\ UNCHANGED <<loads, serverVars, listening, backlog>>

-----------------------------------------------------------------------------
(* The server. *)

(* exit: the process ends, and with it every socket and RDMA object. *)
Exit ==
  /\ spc' = "exited" /\ new_fd' = 0 /\ s_ctx' = NoSession
  /\ listening' = FALSE /\ backlog' = << >>
  /\ conn' = ServerCloses(conn, Conn)
  /\ UNCHANGED <<clientVars, last_rkey>>

(* Mutant: s_ctx is cleared before either call. *)
Listen_ClearsTwice ==
  /\ spc \in {"listen1", "listen2"}
  /\ listening' = TRUE
  /\ spc' = IF spc = "listen1" THEN "accept1" ELSE "accept2"
  /\ s_ctx' = NoSession
  /\ UNCHANGED <<clientVars, new_fd, last_rkey, backlog, conn>>

(* wait_for_tcp_connection up to listen, at either call of main.  The      *)
(* first one follows the memset of s_ctx.                                  *)
Listen ==
  /\ spc \in {"listen1", "listen2"}
  /\ listening' = TRUE
  /\ spc' = IF spc = "listen1" THEN "accept1" ELSE "accept2"
  /\ s_ctx' = IF spc = "listen1" THEN NoSession ELSE s_ctx
  /\ UNCHANGED <<clientVars, new_fd, last_rkey, backlog, conn>>

(* accept, and close of the listening socket, which resets the connections *)
(* that are still in the backlog.                                          *)
Accept ==
  /\ spc \in {"accept1", "accept2"} /\ backlog # << >>
  /\ new_fd' = Head(backlog)
  /\ conn' = ServerCloses(conn, {backlog[i] : i \in 2 .. Len(backlog)})
  /\ backlog' = << >> /\ listening' = FALSE
  /\ spc' = IF spc = "accept1" THEN "getsize" ELSE "waittd"
  /\ UNCHANGED <<clientVars, s_ctx, last_rkey>>

(* Mutant: the size is rounded up. *)
MaxRegion_Up == ((BUF_SIZE + GB - 1) \div GB) * GB

(* The largest region setup_rdma_1 agrees to: its parameter buf_size_gb is *)
(* an int, so the size main was given is cut to whole GBs.                 *)
MaxRegion == (BUF_SIZE \div GB) * GB

(* Mutant: the whole buffer is registered once and for all. *)
NewKey_Same == 1

(* ibv_reg_mr: the key of the new region. *)
NewKey == last_rkey + 1

(* What sscanf may make of the text of n.  recv_buffer is neither cleared  *)
(* before recv nor terminated after it, so digits that were on the stack   *)
(* may follow those of n.                                                  *)
ScannedSizes(n) == {n * d.scale + d.digits : d \in Stale}

(* sscanf leaves the size 0 when what arrived is not a number. *)
handshake_get_memsize(m) == IF m.type = "size" THEN ScannedSizes(m.val) ELSE {0}

(* setup_rdma_1 registers the region and creates the queue pair. *)
setup_rdma_1(size) ==
  [s_ctx EXCEPT !.rdma_mem_size = size, !.rkey = NewKey, !.qp = "INIT"]

(* The data exchange_bootstrap_data sends: the key of the region above all. *)
BootstrapData == Msg("boot", NewKey)

(* handshake_get_memsize, setup_rdma_1 and the sending half of             *)
(* exchange_bootstrap_data.                                                *)
GetSize ==
  /\ spc = "getsize"
  /\ \/ ServerEof /\ Exit
     \/ \E m \in ServerGets : \E size \in handshake_get_memsize(m) :
          \/ /\ size = 0 \/ size > MaxRegion
             /\ Exit
          \/ /\ size > 0 /\ size <= MaxRegion
             /\ last_rkey' = NewKey
             /\ s_ctx' = setup_rdma_1(size)
             /\ conn' = ServerTurn(<<BootstrapData>>)
             /\ spc' = "getpeer"
             /\ UNCHANGED <<clientVars, new_fd, listening, backlog>>

(* Mutant: the queue pair is not moved on. *)
setup_rdma_2_Skipped == "INIT"

(* The state setup_rdma_2 leaves the queue pair in. *)
setup_rdma_2 == "RTS"

(* The receiving half of exchange_bootstrap_data, close, setup_rdma_2. *)
GetPeer ==
  /\ spc = "getpeer"
  /\ \/ ServerEof /\ Exit
     \/ \E m \in ServerGets :
          /\ s_ctx' = [s_ctx EXCEPT !.rem_qpn = m.val, !.qp = setup_rdma_2]
          /\ conn' = ServerCloses(ServerTurn(<< >>), {new_fd})
          /\ new_fd' = 0
          /\ spc' = "listen2"
          /\ UNCHANGED <<clientVars, last_rkey, listening, backlog>>

(* Mutant: the answer is forgotten. *)
Answer_None(m) == << >>

(* What the server answers while it waits for "teardown". *)
Answer(m) == IF m.type = "teardown" THEN <<Msg("done", 0)>> ELSE << >>

(* wait_for_tearingdown: other messages are dropped. *)
WaitTeardown ==
  /\ spc = "waittd"
  /\ \/ ServerEof /\ Exit
     \/ \E m \in ServerGets :
          /\ conn' = ServerTurn(Answer(m))
          /\ spc' = IF m.type = "teardown" THEN "shutdown" ELSE "waittd"
          /\ UNCHANGED <<clientVars, new_fd, s_ctx, last_rkey, listening, backlog>>

(* shutdown_rdma_1 destroys the queue pair and the region; close. *)
Shutdown ==
  /\ spc = "shutdown"
  /\ s_ctx' = [s_ctx EXCEPT !.rkey = 0, !.qp = "none"]
  /\ conn' = ServerCloses(conn, {new_fd})
  /\ new_fd' = 0
  /\ spc' = "listen1"
  /\ UNCHANGED <<clientVars, last_rkey, listening, backlog>>

(* A CHECK of the server fails, or the process is killed. *)
ServerFails == spc # "exited" /\ Exit

(* The server is started again. *)
ServerStarts ==
  /\ spc = "exited"
  /\ spc' = "listen1"
  /\ UNCHANGED <<clientVars, new_fd, s_ctx, last_rkey, tcpVars>>

-----------------------------------------------------------------------------
Server == Listen \/ Accept \/ GetSize \/ GetPeer \/ WaitTeardown \/ Shutdown

(* What a client does by itself once rdma_init or rdma_exit is called. *)
ClientGoesOn(c) ==
  SendSize(c) \/ RecvBoot(c) \/ Setup(c, "RTS") \/ TeardownSend(c) \/ TeardownRecv(c)

Next ==
  \/ Server
  \/ \E c \in Client : InitConnect(c) \/ ClientGoesOn(c) \/ ExitConnect(c)

FaultyNext ==
  \/ Next
  \/ \E c \in Client : \/ InitFails(c) \/ ClientCrash(c)
                       \/ \E q \in {"RESET", "INIT", "RTR"} : Setup(c, q)
  \/ ServerFails \/ ServerStarts

(* The kernel schedules the server process and a client inside rdma_init   *)
(* or rdma_exit; loading and unloading the module is up to the user.       *)
Fairness == WF_vars(Server) /\ \A c \in Client : WF_vars(ClientGoesOn(c))

Spec       == Init /\ [][Next]_vars /\ Fairness
FaultySpec == Init /\ [][FaultyNext]_vars

-----------------------------------------------------------------------------
(* Properties. *)

(* The region setup_rdma_1 registers lies in the buffer main allocated,    *)
(* whatever fraction of a GB that has.                                     *)
RegionInBuffer ==
  s_ctx.rkey # 0 => s_ctx.rdma_mem_size <= BUF_SIZE

(* Two clients never hold the key of the same region, although all regions *)
(* share one buffer and clients come, crash and go in any order; and once  *)
(* the server's queue pair is up it is connected to the client that holds  *)
(* the key of the session.                                                 *)
OneClientPerRegion ==
  \A c \in Client :
    rem_rkey[c] # 0 =>
      /\ \A d \in Client : rem_rkey[d] = rem_rkey[c] => d = c
      /\ s_ctx.rkey = rem_rkey[c] /\ s_ctx.qp = "RTS" => s_ctx.rem_qpn = c

(* A client that asks for what the server can give even if stale digits    *)
(* follow the size it sends, while no other client has come yet: from the  *)
(* return of rdma_init to rdma_exit the region it was given is registered  *)
(* and no smaller than what it asked for, and loading and unloading never  *)
(* brings the server down.  (A client that asks for less than the server   *)
(* has may still bring it down: by the digits that happen to follow.)      *)
SessionLasts ==
  \A c \in Client :
    /\ \A d \in Client \ {c} : loads[d] = 0
    /\ \A n \in MemSize[c] : \A size \in ScannedSizes(n) : size <= MaxRegion
    => /\ spc # "exited"
       /\ cpc[c] = "up" => /\ s_ctx.rkey # 0 /\ s_ctx.rkey = rem_rkey[c]
                           /\ \E n \in MemSize[c] : s_ctx.rdma_mem_size >= n

(* rdma_init may return before the server has called setup_rdma_2, but if  *)
(* it returned with the key of the server's region, the server's end of    *)
(* the client's queue pair comes up, whatever other clients do.            *)
QueuePairComesUp ==
  \A c \in Client :
    cpc[c] = "up" /\ rem_rkey[c] # 0 /\ rem_rkey[c] = s_ctx.rkey
      ~> s_ctx.qp = "RTS" /\ s_ctx.rem_qpn = c

(* A client whose teardown connection the server has accepted leaves       *)
(* rdma_exit, and the server comes back to serve the next session.         *)
TeardownCompletes ==
  \A c \in Client :
    LET accepted == spc = "waittd" /\ new_fd = sock[c] /\ cpc[c] \in {"send", "recv"}
    IN  (accepted ~> cpc[c] = "idle") /\ (accepted ~> spc = "accept1")

(* rdma_init returns a context only when it has received the server's      *)
(* handshake data, as the comments in handshake and rdma_init say.         *)
UpMeansBootstrapped ==
  \A c \in Client : cpc[c] = "up" => rem_rkey[c] # 0
=============================================================================
