---------------------------- MODULE SessionProofs ----------------------------
(***************************************************************************)
(* Proofs about Session with crashes, restarts and failing steps, for any  *)
(* number of clients, connections and loads.                               *)
(***************************************************************************)
EXTENDS Session, TLAPS

-----------------------------------------------------------------------------
(* The inductive invariant. *)

Serving == {"getsize", "getpeer", "waittd", "shutdown"}

C2s(k) == conn[k].c2s
S2c(k) == conn[k].s2c

(* The server holds one accepted connection while it serves it, and queues *)
(* connections only while it listens.                                      *)
ServerSockets ==
  /\ new_fd # 0 <=> spc \in Serving
  /\ new_fd # 0 => conn[new_fd].srv
  /\ listening => spc \in {"accept1", "accept2"}
  /\ ~listening => backlog = << >>
  /\ \A i, j \in 1 .. Len(backlog) : backlog[i] = backlog[j] => i = j
  /\ \A i \in 1 .. Len(backlog) :
        conn[backlog[i]].srv /\ S2c(backlog[i]) = << >>

(* A connection carries one message at a time, first the client's, then    *)
(* the server's.                                                           *)
OneMessageAt(k) ==
  /\ Len(C2s(k)) <= 1 /\ Len(S2c(k)) <= 1
  /\ conn[k].srv /\ S2c(k) # << >> => C2s(k) = << >>
  /\ C2s(k) # << >> =>
       /\ C2s(k)[1].type = "size" => C2s(k)[1].val \in Nat
       /\ C2s(k)[1].type = "peer" => C2s(k)[1].val \in Client
  /\ S2c(k) # << >> => S2c(k)[1].val \in 0 .. last_rkey

OneMessage == \A k \in Conn : OneMessageAt(k)

(* A client has its connection for itself, and the message on its way to   *)
(* the server is the one the client sent last.                             *)
Owner(c) ==
  /\ cpc[c] \in {"idle", "up"} => sock[c] = 0
  /\ sock[c] # 0 =>
       /\ conn[sock[c]].cli
       /\ \A d \in Client : sock[d] = sock[c] => d = c
       /\ conn[sock[c]].srv =>
            /\ cpc[c] \in {"size", "send"} =>
                 C2s(sock[c]) = << >> /\ S2c(sock[c]) = << >>
            /\ C2s(sock[c]) # << >> =>
                 LET m == C2s(sock[c])[1]
                 IN  \/ m.type = "size" /\ cpc[c] = "boot"
                     \/ m.type = "peer" /\ m.val = c /\ cpc[c] = "setup"
                     \/ m.type = "teardown" /\ cpc[c] = "recv"
            /\ sock[c] = new_fd /\ spc = "getpeer" => cpc[c] \in {"boot", "setup"}

OwnConnection == \A c \in Client : Owner(c)

(* A key is in one place: in a message on its way, or with one client; and *)
(* the key of the session is on its way only while the server waits for    *)
(* the client's answer.                                                    *)
OneKey ==
  /\ s_ctx.rkey \in 0 .. last_rkey
  /\ \A c \in Client : rem_rkey[c] \in 0 .. last_rkey
  /\ \A c, d \in Client : rem_rkey[c] # 0 /\ rem_rkey[d] = rem_rkey[c] => d = c
  /\ \A k \in Conn : S2c(k) # << >> /\ S2c(k)[1].val # 0 =>
       /\ \A c \in Client : rem_rkey[c] # S2c(k)[1].val
       /\ \A j \in Conn : S2c(j) # << >> /\ S2c(j)[1].val = S2c(k)[1].val => j = k
       /\ s_ctx.rkey = S2c(k)[1].val => spc = "getpeer" /\ k = new_fd

(* What the server has of the session. *)
SessionOk ==
  /\ spc \in {"getsize", "waittd"} => S2c(new_fd) = << >>
  /\ s_ctx.rkey # 0 => s_ctx.rdma_mem_size <= MaxRegion
  /\ s_ctx.rkey # 0 /\ s_ctx.qp = "RTS" =>
       \A c \in Client : rem_rkey[c] = s_ctx.rkey => s_ctx.rem_qpn = c
  /\ spc = "getpeer" =>
       /\ s_ctx.rkey # 0 /\ s_ctx.qp = "INIT"
       /\ IF C2s(new_fd) = << >>
          THEN \A c \in Client : rem_rkey[c] # s_ctx.rkey
          ELSE /\ C2s(new_fd)[1].type = "peer"
               /\ \A c \in Client : rem_rkey[c] = s_ctx.rkey => C2s(new_fd)[1].val = c

Inv ==
  /\ TypeOK
  /\ ServerSockets
  /\ OneMessage
  /\ OwnConnection
  /\ OneKey
  /\ SessionOk

-----------------------------------------------------------------------------
(* Lemmas about the operators. *)

(* The largest region lies in the buffer. *)
LEMMA RegionFits == MaxRegion \in Nat /\ MaxRegion <= BUF_SIZE
<1>1. BUF_SIZE \in Nat /\ GB \in Nat \ {0}  BY SessionAssumption
<1> QED  BY <1>1, SMTT(30) DEF MaxRegion

LEMMA OneEntry == ASSUME NEW m PROVE << m >>[1] = m /\ Len(<< m >>) = 1
  OBVIOUS

LEMMA MsgFields == ASSUME NEW t, NEW v PROVE Msg(t, v).type = t /\ Msg(t, v).val = v
  BY DEF Msg

LEMMA OneMore ==
  ASSUME NEW n, NEW N, N \in Nat, n \in 0 .. N, n < N
  PROVE  n + 1 \in 0 .. N
  OBVIOUS

(* What closing the client's end of connection k does to connection j:     *)
(* what is on its way stays, unless the server has closed its end as well. *)
LEMMA ClientClosesOne ==
  ASSUME TypeOK, NEW k \in Conn \cup {0}, NEW j \in Conn,
         NEW c, c = ClientCloses(k)[j]
  PROVE  /\ c \in ConnType
         /\ c.srv <=> conn[j].srv
         /\ j # k => c = conn[j]
         /\ j = k => ~c.cli
         /\ c.c2s = conn[j].c2s \/ (c.c2s = << >> /\ ~conn[j].srv)
         /\ c.s2c = conn[j].s2c \/ (c.s2c = << >> /\ ~conn[j].srv)
<1>1. conn \in [Conn -> ConnType] /\ conn[j] \in ConnType  BY DEF TypeOK
<1>2. CASE j # k
  <2>1. c = conn[j]  BY <1>1, <1>2 DEF ClientCloses
  <2> QED  BY <2>1, <1>1, <1>2, Zenon
<1>3. CASE j = k
  <2>0. k # 0  BY <1>3, SessionAssumption DEF Conn
  <2>1. c = Settle([conn[j] EXCEPT !.cli = FALSE])
    BY <1>1, <1>3, <2>0 DEF ClientCloses
  <2>2. CASE conn[j].srv
    <3>1. c = [conn[j] EXCEPT !.cli = FALSE]
      BY <1>1, <2>1, <2>2 DEF Settle, ConnType
    <3>2. c \in ConnType /\ c.c2s = conn[j].c2s /\ c.s2c = conn[j].s2c
      BY Zenon, <3>1, <1>1 DEF ConnType
    <3>3. c.srv = conn[j].srv /\ c.cli = FALSE  BY <3>1, <1>1 DEF ConnType
    <3> QED  BY <3>2, <3>3, <1>3, Zenon
  <2>3. CASE ~conn[j].srv
    <3>1. c = NoConn
      BY <1>1, <2>1, <2>3 DEF Settle, ConnType
    <3> QED  BY <3>1, <1>3, <2>3 DEF ConnType, NoConn
  <2> QED  BY <2>2, <2>3
<1> QED  BY <1>2, <1>3

(* What closing the server's ends of the connections in K does to          *)
(* connection j.                                                           *)
LEMMA ServerClosesOne ==
  ASSUME NEW cs \in [Conn -> ConnType], NEW K, NEW j \in Conn,
         NEW c, c = ServerCloses(cs, K)[j]
  PROVE  /\ c \in ConnType
         /\ c.cli <=> cs[j].cli
         /\ j \notin K => c = cs[j]
         /\ j \in K => ~c.srv
         /\ c.c2s = cs[j].c2s \/ (c.c2s = << >> /\ ~cs[j].cli)
         /\ c.s2c = cs[j].s2c \/ (c.s2c = << >> /\ ~cs[j].cli)
<1>1. cs[j] \in ConnType  OBVIOUS
<1>2. CASE j \notin K
  <2>1. c = cs[j]  BY <1>1, <1>2 DEF ServerCloses
  <2> QED  BY <2>1, <1>1, <1>2, Zenon
<1>3. CASE j \in K
  <2>1. c = Settle([cs[j] EXCEPT !.srv = FALSE])
    BY <1>1, <1>3 DEF ServerCloses
  <2>2. CASE cs[j].cli
    <3>1. c = [cs[j] EXCEPT !.srv = FALSE]
      BY <1>1, <2>1, <2>2 DEF Settle, ConnType
    <3>2. c \in ConnType /\ c.c2s = cs[j].c2s /\ c.s2c = cs[j].s2c
      BY Zenon, <3>1, <1>1 DEF ConnType
    <3>3. c.cli = cs[j].cli /\ c.srv = FALSE  BY <3>1, <1>1 DEF ConnType
    <3> QED  BY <3>2, <3>3, <1>3, Zenon
  <2>3. CASE ~cs[j].cli
    <3>1. c = NoConn
      BY <1>1, <2>1, <2>3 DEF Settle, ConnType
    <3> QED  BY <3>1, <1>3, <2>3 DEF ConnType, NoConn
  <2> QED  BY <2>2, <2>3
<1> QED  BY <1>2, <1>3

(* The server's sockets when it takes no step. *)
LEMMA ServerSocketsKept ==
  ASSUME Inv, UNCHANGED <<spc, new_fd, listening, backlog>>,
         \A j \in Conn : /\ conn'[j].srv <=> conn[j].srv
                         /\ conn[j].s2c = << >> => conn'[j].s2c = << >>
  PROVE  ServerSockets'
<1>1. ServerSockets /\ new_fd \in Conn \cup {0} /\ backlog \in Seq(Conn)
  BY DEF Inv, TypeOK
<1>2. new_fd # 0 => conn'[new_fd].srv  BY <1>1 DEF ServerSockets
<1>3. \A i \in 1 .. Len(backlog) : backlog[i] \in Conn  BY <1>1
<1>4. \A i \in 1 .. Len(backlog) :
         conn'[backlog[i]].srv /\ conn'[backlog[i]].s2c = << >>
  BY <1>1, <1>3 DEF ServerSockets, S2c
<1> QED  BY <1>1, <1>2, <1>4, Zenon DEF ServerSockets, S2c

-----------------------------------------------------------------------------
(* Keys stay in one place when a step only makes some of them disappear:   *)
(* no client gets one, and the only new messages of the server carry none. *)
LEMMA OneKeyDropped ==
  ASSUME Inv, last_rkey' = last_rkey,
         \A d \in Client : rem_rkey'[d] = rem_rkey[d] \/ rem_rkey'[d] = 0,
         \A j \in Conn :
            S2c(j)' # << >> => S2c(j)' = S2c(j) \/ S2c(j)'[1].val = 0,
         \/ s_ctx'.rkey = 0
         \/ /\ s_ctx'.rkey = s_ctx.rkey
            /\ \/ spc # "getpeer"
               \/ spc' = "getpeer" /\ new_fd' = new_fd
               \/ conn'[new_fd].s2c = << >>
  PROVE  OneKey'
<1>1. OneKey /\ last_rkey \in Nat  BY DEF Inv, TypeOK
<1>2. \A d \in Client : rem_rkey'[d] \in 0 .. last_rkey'
  BY <1>1 DEF OneKey
<1>3. \A d, e \in Client : rem_rkey'[d] # 0 /\ rem_rkey'[e] = rem_rkey'[d] => e = d
  BY <1>1 DEF OneKey
<1>4. ASSUME NEW k \in Conn, S2c(k)' # << >>, S2c(k)'[1].val # 0
      PROVE  /\ \A d \in Client : rem_rkey'[d] # S2c(k)'[1].val
             /\ \A j \in Conn : S2c(j)' # << >> /\ S2c(j)'[1].val = S2c(k)'[1].val => j = k
             /\ s_ctx'.rkey = S2c(k)'[1].val => spc' = "getpeer" /\ k = new_fd'
  <2>1. S2c(k)' = S2c(k)  BY <1>4
  <2>2. S2c(k) # << >> /\ S2c(k)[1].val # 0  BY <2>1, <1>4
  <2>3. \A d \in Client : rem_rkey'[d] # S2c(k)'[1].val
    BY <1>1, <2>1, <2>2 DEF OneKey
  <2>4. \A j \in Conn : S2c(j)' # << >> /\ S2c(j)'[1].val = S2c(k)'[1].val => j = k
    BY <1>1, <2>1, <2>2 DEF OneKey
  <2>5. s_ctx.rkey = S2c(k)[1].val => spc = "getpeer" /\ k = new_fd
    BY <1>1, <2>2 DEF OneKey
  <2>6. s_ctx'.rkey = S2c(k)'[1].val => spc' = "getpeer" /\ k = new_fd'
    <3> SUFFICES ASSUME s_ctx'.rkey = S2c(k)[1].val  PROVE spc' = "getpeer" /\ k = new_fd'
      BY <2>1
    <3>1. s_ctx'.rkey = s_ctx.rkey  BY <2>2
    <3>2. k = new_fd /\ spc = "getpeer"  BY <2>5, <3>1
    <3>3. conn'[new_fd].s2c # << >>  BY <3>2, <1>4 DEF S2c
    <3> QED  BY <3>1, <3>2, <3>3, <2>2
  <2> QED  BY <2>3, <2>4, <2>6
<1>5. s_ctx'.rkey \in 0 .. last_rkey'  BY <1>1 DEF OneKey
<1> QED  BY <1>2, <1>3, <1>4, <1>5, Zenon DEF OneKey

-----------------------------------------------------------------------------
(* The steps of a client. *)

(* A client leaves its connection, closed or leaked, keeping or dropping   *)
(* its key: the end of rdma_init, well or badly, the end of rdma_exit, a   *)
(* crash.                                                                  *)
LEMMA InvClientLeaves ==
  ASSUME Inv, NEW c \in Client, NEW p \in {"idle", "up"},
         cpc' = [cpc EXCEPT ![c] = p], sock' = [sock EXCEPT ![c] = 0],
         rem_rkey' = rem_rkey \/ rem_rkey' = [rem_rkey EXCEPT ![c] = 0],
         conn' = conn \/ conn' = ClientCloses(sock[c]),
         cqp' \in [Client -> {"RESET", "INIT", "RTR", "RTS"}],
         UNCHANGED <<loads, serverVars, listening, backlog>>
  PROVE  Inv'
<1>1. TypeOK  BY DEF Inv
<1>2. sock[c] \in Conn \cup {0}  BY <1>1 DEF TypeOK
<1>3. \A j \in Conn :
         /\ conn'[j] \in ConnType
         /\ conn'[j].srv <=> conn[j].srv
         /\ j # sock[c] => conn'[j] = conn[j]
         /\ conn'[j].c2s = conn[j].c2s \/ (conn'[j].c2s = << >> /\ ~conn[j].srv)
         /\ conn'[j].s2c = conn[j].s2c \/ (conn'[j].s2c = << >> /\ ~conn[j].srv)
  <2>1. CASE conn' = conn  BY <1>1, <2>1, Zenon DEF TypeOK
  <2>2. CASE conn' = ClientCloses(sock[c])
    <3> TAKE j \in Conn
    <3>1. conn'[j] = ClientCloses(sock[c])[j]  BY <2>2
    <3> QED  BY <1>1, <1>2, <3>1, ClientClosesOne
  <2> QED  BY <2>1, <2>2
<1>4. TypeOK'
  <2>1. conn' \in [Conn -> ConnType]
    <3>1. conn' = [j \in Conn |-> conn'[j]]
      BY <1>1 DEF TypeOK, ClientCloses
    <3> QED  BY <1>3, <3>1
  <2>2. cpc' \in [Client -> {"idle", "size", "boot", "setup", "up", "send", "recv"}]
    BY <1>1 DEF TypeOK
  <2>3. sock' \in [Client -> Conn \cup {0}]  BY <1>1 DEF TypeOK
  <2>4. rem_rkey' \in [Client -> Nat]  BY <1>1 DEF TypeOK
  <2> QED  BY <1>1, <2>1, <2>2, <2>3, <2>4, Zenon DEF TypeOK, serverVars
<1>5. ServerSockets'
  BY <1>1, <1>3 DEF Inv, TypeOK, ServerSockets, S2c, serverVars
<1>6. OneMessage'
  BY SMTT(30), <1>3 DEF Inv, OneMessage, OneMessageAt, C2s, S2c, serverVars
<1>7. OwnConnection'
  BY <1>1, <1>2, <1>3 DEF Inv, TypeOK, OwnConnection, Owner, C2s, S2c, serverVars
<1>8. \A d \in Client : rem_rkey'[d] = rem_rkey[d] \/ rem_rkey'[d] = 0
  BY <1>1 DEF TypeOK
<1>9. \A j \in Conn : S2c(j)' # << >> => S2c(j)' = S2c(j)  BY <1>3 DEF S2c
<1>10. OneKey'
  BY <1>8, <1>9, OneKeyDropped DEF serverVars
<1>11. spc \in Serving => C2s(new_fd)' = C2s(new_fd) /\ S2c(new_fd)' = S2c(new_fd)
  <2>1. spc \in Serving => new_fd \in Conn /\ conn[new_fd].srv
    BY <1>1 DEF Inv, TypeOK, ServerSockets
  <2> QED  BY <2>1, <1>3 DEF C2s, S2c, serverVars
<1>12. SessionOk'
  BY <1>1, <1>8, <1>11 DEF Inv, SessionOk, Serving, MaxRegion, serverVars
<1> QED  BY <1>4, <1>5, <1>6, <1>7, <1>10, <1>12 DEF Inv

(* A client connects, in rdma_init or rdma_exit, or is refused. *)
LEMMA InvConnects ==
  ASSUME Inv, NEW c \in Client, cpc[c] \in {"idle", "up"}, connect(c),
         NEW p \in {"size", "send", "idle"}, cpc' = [cpc EXCEPT ![c] = p],
         listening => p # "idle",
         rem_rkey' = rem_rkey \/ rem_rkey' = [rem_rkey EXCEPT ![c] = 0],
         loads' \in [Client -> 0 .. MAX_LOADS],
         cqp' \in [Client -> {"RESET", "INIT", "RTR", "RTS"}],
         UNCHANGED serverVars
  PROVE  Inv'
<1>1. TypeOK /\ sock[c] = 0  BY DEF Inv, OwnConnection, Owner
<1>2. \A d \in Client : rem_rkey'[d] = rem_rkey[d] \/ rem_rkey'[d] = 0
  BY <1>1 DEF TypeOK
<1>3. /\ cpc' \in [Client -> {"idle", "size", "boot", "setup", "up", "send", "recv"}]
      /\ rem_rkey' \in [Client -> Nat]
      /\ cpc'[c] = p /\ \A d \in Client : d # c => cpc'[d] = cpc[d]
  <2>1. cpc \in [Client -> {"idle", "size", "boot", "setup", "up", "send", "recv"}]
    BY <1>1 DEF TypeOK
  <2>2. rem_rkey' \in [Client -> Nat]  BY <1>1 DEF TypeOK
  <2> QED  BY <2>1, <2>2
<1>4. CASE ~listening
  <2>1. sock' = [sock EXCEPT ![c] = 0] /\ UNCHANGED tcpVars  BY <1>4 DEF connect
  <2>2. sock' = sock  BY <1>1, <2>1 DEF TypeOK
  <2>3. TypeOK'  BY <1>1, <1>3, <2>1, <2>2, Zenon DEF TypeOK, serverVars, tcpVars
  <2>4. ServerSockets' /\ OneMessage'
    BY SMTT(30), <2>1 DEF Inv, ServerSockets, OneMessage, OneMessageAt, C2s, S2c, serverVars, tcpVars
  <2>5. OwnConnection'
    BY SMTT(60), <1>1, <1>3, <2>1, <2>2 DEF Inv, OwnConnection, Owner, C2s, S2c, serverVars, tcpVars
  <2>6. OneKey'
    BY <1>2, <2>1, OneKeyDropped DEF serverVars, tcpVars, S2c
  <2>7. SessionOk'
    BY <1>2, <2>1 DEF Inv, SessionOk, MaxRegion, C2s, S2c, serverVars, tcpVars
  <2> QED  BY <2>3, <2>4, <2>5, <2>6, <2>7 DEF Inv
<1>5. CASE listening
  <2> DEFINE n == NewConn
             new == [cli |-> TRUE, srv |-> TRUE, c2s |-> << >>, s2c |-> << >>]
  <2>1. /\ FreeConn # {} /\ sock' = [sock EXCEPT ![c] = n]
        /\ backlog' = Append(backlog, n) /\ conn' = [conn EXCEPT ![n] = new]
        /\ listening' = listening
    BY <1>5 DEF connect
  <2>2. n \in FreeConn  BY <2>1 DEF NewConn
  <2>3. n \in Conn /\ ~conn[n].cli /\ ~conn[n].srv  BY <2>2 DEF FreeConn
  <2>4. /\ new \in ConnType /\ new.cli /\ new.srv
        /\ new.c2s = << >> /\ new.s2c = << >>
    BY DEF ConnType
  <2> HIDE DEF n, new
  <2>5. /\ conn' \in [Conn -> ConnType] /\ conn'[n] = new
        /\ \A j \in Conn : j # n => conn'[j] = conn[j]
    BY <1>1, <2>1, <2>3, <2>4 DEF TypeOK
  <2>6. /\ sock' \in [Client -> Conn \cup {0}] /\ sock'[c] = n
        /\ \A d \in Client : d # c => sock'[d] = sock[d]
    BY <1>1, <2>1, <2>3 DEF TypeOK
  <2>7. /\ backlog \in Seq(Conn) /\ backlog' \in Seq(Conn) /\ Len(backlog) \in Nat
        /\ Len(backlog') = Len(backlog) + 1 /\ backlog'[Len(backlog) + 1] = n
        /\ \A i \in 1 .. Len(backlog) : backlog'[i] = backlog[i] /\ backlog[i] \in Conn
    BY <1>1, <2>1, <2>3 DEF TypeOK
  <2>8. /\ \A i \in 1 .. Len(backlog) : backlog[i] # n
        /\ \A d \in Client : sock[d] # n
        /\ new_fd = 0 /\ spc \in {"accept1", "accept2"}
    <3>1. \A i \in 1 .. Len(backlog) : backlog[i] # n
      BY <2>3 DEF Inv, ServerSockets
    <3>2. \A d \in Client : sock[d] # n
      <4>1. n # 0  BY <2>3, SessionAssumption DEF Conn
      <4> QED  BY <4>1, <2>3 DEF Inv, OwnConnection, Owner
    <3>3. new_fd = 0 /\ spc \in {"accept1", "accept2"}
      BY <1>5 DEF Inv, ServerSockets, Serving
    <3> QED  BY <3>1, <3>2, <3>3
  <2>9. TypeOK'
    BY <1>1, <1>3, <2>1, <2>5, <2>6, <2>7, Zenon DEF TypeOK, serverVars
  <2>10. ServerSockets'
    <3>1. \A i, j \in 1 .. Len(backlog') : backlog'[i] = backlog'[j] => i = j
      BY <2>7, <2>8 DEF Inv, ServerSockets
    <3>2. \A i \in 1 .. Len(backlog') :
             conn'[backlog'[i]].srv /\ conn'[backlog'[i]].s2c = << >>
      <4> TAKE i \in 1 .. Len(backlog')
      <4>1. CASE i = Len(backlog) + 1  BY <4>1, <2>4, <2>5, <2>7
      <4>2. CASE i \in 1 .. Len(backlog)
        <5>1. conn[backlog[i]].srv /\ S2c(backlog[i]) = << >>
          BY <4>2 DEF Inv, ServerSockets
        <5>2. conn'[backlog'[i]] = conn[backlog[i]]  BY <4>2, <2>5, <2>7, <2>8
        <5> QED  BY <5>1, <5>2, Zenon DEF S2c
      <4> QED  BY <4>1, <4>2, <2>7
    <3>3. new_fd' = 0 /\ spc' = spc /\ listening'  BY <1>5, <2>1, <2>8 DEF serverVars
    <3> QED  BY Zenon, <2>8, <3>1, <3>2, <3>3 DEF ServerSockets, S2c, Serving
  <2>11. OneMessage'
    BY <2>4, <2>5 DEF Inv, OneMessage, OneMessageAt, C2s, S2c, serverVars
  <2>12. OwnConnection'
    <3> SUFFICES ASSUME NEW d \in Client  PROVE Owner(d)'
      BY DEF OwnConnection
    <3>1. CASE d = c
      <4>1. cpc'[d] \notin {"idle", "up"} /\ spc' # "getpeer"
        BY <3>1, <1>3, <1>5, <2>8 DEF serverVars
      <4>2. \A e \in Client : sock'[e] = sock'[d] => e = d
        BY Zenon, <3>1, <2>6, <2>8
      <4>3. /\ conn'[sock'[d]].cli /\ conn'[sock'[d]].c2s = << >>
            /\ conn'[sock'[d]].s2c = << >>
        BY <3>1, <2>4, <2>5, <2>6, Zenon
      <4> QED  BY <4>1, <4>2, <4>3, Zenon DEF Owner, C2s, S2c
    <3>2. CASE d # c
      <4>1. Owner(d) /\ sock'[d] = sock[d] /\ sock[d] # n /\ cpc'[d] = cpc[d]
        BY <3>2, <1>3, <2>6, <2>8 DEF Inv, OwnConnection
      <4>2. sock[d] # 0 => conn'[sock[d]] = conn[sock[d]]
        BY <1>1, <2>5, <4>1 DEF TypeOK
      <4> QED  BY Zenon, <4>1, <4>2, <2>6, <2>8, <3>2 DEF Owner, C2s, S2c, serverVars
    <3> QED  BY <3>1, <3>2
  <2>13. OneKey'
    <3>1. \A j \in Conn : S2c(j)' # << >> => S2c(j)' = S2c(j)
      BY <2>4, <2>5 DEF S2c
    <3> QED  BY <1>2, <3>1, OneKeyDropped DEF serverVars
  <2>14. SessionOk'
    BY <1>2, <2>8 DEF Inv, SessionOk, MaxRegion, serverVars
  <2> QED  BY <2>9, <2>10, <2>11, <2>12, <2>13, <2>14 DEF Inv
<1> QED  BY <1>4, <1>5

(* A client without a connection to the server, or whose connection the    *)
(* server has closed, goes on: what it sends is lost, and it receives      *)
(* nothing.                                                                *)
LEMMA InvClientUnheard ==
  ASSUME Inv, NEW c \in Client, NEW p \in {"boot", "setup", "send", "recv"},
         sock[c] = 0 \/ ~conn[sock[c]].srv, cpc' = [cpc EXCEPT ![c] = p],
         UNCHANGED <<loads, sock, rem_rkey, cqp, serverVars, tcpVars>>
  PROVE  Inv'
<1>1. TypeOK /\ Owner(c)  BY DEF Inv, OwnConnection
<1>2. /\ cpc' \in [Client -> {"idle", "size", "boot", "setup", "up", "send", "recv"}]
      /\ cpc'[c] = p /\ \A d \in Client : d # c => cpc'[d] = cpc[d]
  <2>1. cpc \in [Client -> {"idle", "size", "boot", "setup", "up", "send", "recv"}]
    BY <1>1 DEF TypeOK
  <2> QED  BY <2>1
<1>3. TypeOK'  BY <1>1, <1>2, Zenon DEF TypeOK, serverVars, tcpVars
<1>4. ServerSockets' /\ OneMessage' /\ SessionOk'
  BY DEF Inv, ServerSockets, OneMessage, OneMessageAt, SessionOk, MaxRegion, C2s, S2c,
         serverVars, tcpVars
<1>5. OwnConnection'
  <2> SUFFICES ASSUME NEW d \in Client  PROVE Owner(d)'
    BY Zenon DEF OwnConnection
  <2>1. CASE d = c
    BY Zenon, <2>1, <1>1, <1>2 DEF Owner, C2s, S2c, serverVars, tcpVars
  <2>2. CASE d # c
    BY SMTT(90), <2>2, <1>2 DEF Inv, OwnConnection, Owner, C2s, S2c, serverVars, tcpVars
  <2> QED  BY <2>1, <2>2
<1>6. OneKey'  BY DEF Inv, OneKey, S2c, serverVars, tcpVars
<1> QED  BY <1>3, <1>4, <1>5, <1>6 DEF Inv

(* A client sends its memory size or "teardown": its connection is empty. *)
LEMMA InvClientSends ==
  ASSUME Inv, NEW c \in Client, NEW p, NEW m \in Message,
         \/ cpc[c] = "size" /\ p = "boot" /\ \E n \in Nat : m = Msg("size", n)
         \/ cpc[c] = "send" /\ p = "recv" /\ m = Msg("teardown", 0),
         conn' = ClientSends(sock[c], m), cpc' = [cpc EXCEPT ![c] = p],
         UNCHANGED <<loads, sock, rem_rkey, cqp, serverVars, listening, backlog>>
  PROVE  Inv'
<1> DEFINE k == sock[c]
<1>1. TypeOK /\ Owner(c) /\ k \in Conn \cup {0}
  BY DEF Inv, TypeOK, OwnConnection
<1>2. /\ cpc' \in [Client -> {"idle", "size", "boot", "setup", "up", "send", "recv"}]
      /\ cpc'[c] = p /\ \A d \in Client : d # c => cpc'[d] = cpc[d]
  <2>1. cpc \in [Client -> {"idle", "size", "boot", "setup", "up", "send", "recv"}]
    BY <1>1 DEF TypeOK
  <2> QED  BY <2>1
<1>3. CASE k = 0 \/ ~conn[k].srv
  BY Zenon, <1>3, InvClientUnheard DEF ClientSends, tcpVars
<1>4. CASE k # 0 /\ conn[k].srv
  <2>1. k \in Conn /\ conn \in [Conn -> ConnType] /\ conn[k] \in ConnType
    BY <1>1, <1>4 DEF TypeOK
  <2>2. /\ conn[k].c2s = << >> /\ conn[k].s2c = << >>
        /\ ~(k = new_fd /\ spc = "getpeer")
        /\ \A d \in Client : d # c => sock[d] # k
    BY <1>1, <1>4 DEF Owner, C2s, S2c
  <2>3. /\ conn' = [conn EXCEPT ![k] = conn'[k]]
        /\ conn'[k] = [conn[k] EXCEPT !.c2s = << m >>, !.s2c = << >>]
    <3>1. Append(conn[k].c2s, m) = << m >>  BY <2>2
    <3>2. conn' = [conn EXCEPT ![k].c2s = Append(@, m)]
      BY <1>4, Zenon DEF ClientSends
    <3>3. [conn[k] EXCEPT !.c2s = << m >>, !.s2c = << >>] = [conn[k] EXCEPT !.c2s = << m >>]
      BY Zenon, <2>1, <2>2 DEF ConnType
    <3> QED  BY Zenon, <2>1, <3>1, <3>2, <3>3
  <2>4. /\ conn'[k] \in ConnType /\ conn'[k].c2s = << m >>
        /\ conn'[k].s2c = conn[k].s2c
        /\ conn'[k].srv <=> conn[k].srv
        /\ conn'[k].cli <=> conn[k].cli
    <3>1. << m >> \in Seq(Message) /\ << >> \in Seq(Message)  OBVIOUS
    <3> DEFINE r == conn[k]
               e == conn'[k]
    <3>2. r \in ConnType /\ e = [r EXCEPT !.c2s = << m >>, !.s2c = << >>]
      BY <2>1, <2>3, Zenon
    <3> HIDE DEF r, e
    <3>3. e \in ConnType /\ e.c2s = << m >> /\ e.s2c = << >>
      BY Zenon, <3>1, <3>2 DEF ConnType
    <3>4. e.srv = r.srv /\ e.cli = r.cli  BY <3>2 DEF ConnType
    <3> QED  BY <3>3, <3>4, <2>2, Zenon DEF r, e
  <2>5. conn' \in [Conn -> ConnType] /\ \A j \in Conn : j # k => conn'[j] = conn[j]
    BY ZenonT(30), <2>1, <2>3, <2>4
  <2>6. \A j \in Conn : /\ conn'[j].srv <=> conn[j].srv
                        /\ conn'[j].cli <=> conn[j].cli
                        /\ conn'[j].s2c = conn[j].s2c
    <3> TAKE j \in Conn
    <3>1. CASE j = k  BY <3>1, <2>4, Zenon
    <3>2. CASE j # k  BY <3>2, <2>5, Zenon
    <3> QED  BY <3>1, <3>2
  <2>7. TypeOK'  BY <1>1, <1>2, <2>5, Zenon DEF TypeOK, serverVars
  <2>8. ServerSockets'
    BY <2>6, ServerSocketsKept DEF serverVars
  <2>9. OneMessage'
    <3>1. /\ m.type = "size" => m.val \in Nat
          /\ m.type # "peer"
      BY SessionAssumption DEF Msg
    <3>2. Len(<< m >>) = 1 /\ << m >>[1] = m  OBVIOUS
    <3> SUFFICES ASSUME NEW j \in Conn  PROVE OneMessageAt(j)'
      BY DEF OneMessage
    <3>3. CASE j = k
      BY <3>1, <3>2, <3>3, <2>2, <2>4, <1>4 DEF Inv, OneMessage, OneMessageAt, C2s, S2c, serverVars
    <3>4. CASE j # k
      BY <3>4, <2>5 DEF Inv, OneMessage, OneMessageAt, C2s, S2c, serverVars
    <3> QED  BY <3>3, <3>4
  <2>10. OwnConnection'
    <3> SUFFICES ASSUME NEW d \in Client  PROVE Owner(d)'
      BY Zenon DEF OwnConnection
    <3>1. CASE d = c
      <4>1. << m >>[1] = m  BY Zenon, OneEntry
      <4>2. m.type = "size" \/ m.type = "teardown"
        <5>1. ASSUME NEW n \in Nat, m = Msg("size", n)  PROVE m.type = "size"
          <6>1. Msg("size", n).type = "size"  BY Zenon, MsgFields
          <6> QED  BY Zenon, <5>1, <6>1
        <5>2. CASE m = Msg("teardown", 0)
          <6>1. Msg("teardown", 0).type = "teardown"  BY Zenon, MsgFields
          <6> QED  BY Zenon, <5>2, <6>1
        <5> QED  BY Zenon, <5>1, <5>2
      <4> QED
        BY <3>1, <4>1, <4>2, <1>1, <1>2, <2>2, <2>4 DEF Owner, C2s, S2c, serverVars, Msg
    <3>2. CASE d # c
      <4>1. Owner(d)  BY DEF Inv, OwnConnection
      <4>2. sock[d] # 0 => conn'[sock[d]] = conn[sock[d]]
        BY Zenon, <3>2, <1>1, <2>2, <2>5 DEF TypeOK
      <4> QED  BY Zenon, <3>2, <4>1, <4>2, <1>2 DEF Owner, C2s, S2c, serverVars
    <3> QED  BY <3>1, <3>2
  <2>11. OneKey'  BY SMTT(30), <2>6 DEF Inv, OneKey, S2c, serverVars
  <2>12. SessionOk'
    <3>1. spc \in Serving => new_fd \in Conn
      BY <1>1 DEF Inv, TypeOK, ServerSockets
    <3>2. spc = "getpeer" => conn'[new_fd] = conn[new_fd]
      BY <3>1, <2>2, <2>5 DEF Serving
    <3>3. spc \in {"getsize", "waittd"} => conn'[new_fd].s2c = conn[new_fd].s2c
      BY <3>1, <2>6 DEF Serving
    <3> QED  BY <3>2, <3>3 DEF Inv, SessionOk, MaxRegion, C2s, S2c, serverVars
  <2> QED  BY <2>7, <2>8, <2>9, <2>10, <2>11, <2>12 DEF Inv
<1> QED  BY <1>3, <1>4

(* A client receives the server's bootstrap data, with the key of the      *)
(* session, and answers.                                                   *)
LEMMA InvRecvBoot ==
  ASSUME Inv, NEW c \in Client, NEW m \in Received(sock[c]), cpc[c] = "boot",
         rem_rkey' = [rem_rkey EXCEPT ![c] = m.val],
         conn' = [conn EXCEPT
                    ![sock[c]].s2c = Tail(@),
                    ![sock[c]].c2s = IF conn[sock[c]].srv
                                     THEN Append(@, OwnData(c)) ELSE @],
         cpc' = [cpc EXCEPT ![c] = "setup"],
         UNCHANGED <<loads, sock, cqp, serverVars, listening, backlog>>
  PROVE  Inv'
<1> DEFINE k == sock[c]
           q == IF conn[k].srv THEN << OwnData(c) >> ELSE conn[k].c2s
<1>1. /\ TypeOK /\ Owner(c) /\ k \in Conn /\ S2c(k) # << >> /\ m = S2c(k)[1]
  <2>1. TypeOK /\ Owner(c) /\ k \in Conn \cup {0}
    BY DEF Inv, TypeOK, OwnConnection
  <2>2. k # 0 /\ S2c(k) # << >> /\ m = Head(S2c(k))  BY DEF Received, S2c
  <2> QED  BY <2>1, <2>2
<1>2. /\ OneMessageAt(k) /\ conn[k] \in ConnType /\ conn \in [Conn -> ConnType]
      /\ k # 0 /\ last_rkey \in Nat
  BY SMTT(30), <1>1 DEF Inv, OneMessage, TypeOK, Received
<1>3. /\ m.val \in 0 .. last_rkey /\ Tail(S2c(k)) = << >>
      /\ conn[k].srv => C2s(k) = << >>
  BY <1>1, <1>2 DEF OneMessageAt, S2c, ConnType
<1>4. OwnData(c) \in Message /\ OwnData(c).type = "peer" /\ OwnData(c).val = c
  BY DEF OwnData, Msg, Message
<1>5. /\ q \in Seq(Message) /\ Len(q) <= 1
      /\ << >> \in Seq(Message) /\ Len(<< >>) = 0
  BY SMTT(30), <1>2, <1>4 DEF ConnType, OneMessageAt, C2s
<1>6. /\ conn' = [conn EXCEPT ![k] = conn'[k]]
      /\ conn'[k] = [conn[k] EXCEPT !.s2c = << >>, !.c2s = q]
  <2>1. ASSUME conn[k].srv  PROVE Append(conn[k].c2s, OwnData(c)) = << OwnData(c) >>
    <3>1. conn[k].c2s = << >>  BY <2>1, <1>3, Zenon DEF C2s
    <3> QED  BY <3>1
  <2> QED  BY Zenon, <2>1, <1>1, <1>2, <1>3 DEF S2c
<1>7. /\ conn'[k] \in ConnType /\ conn'[k].s2c = << >> /\ conn'[k].c2s = q
      /\ conn'[k].srv <=> conn[k].srv
      /\ conn'[k].cli <=> conn[k].cli
  <2> DEFINE r == conn[k]
             e == conn'[k]
  <2>1. r \in ConnType /\ e = [r EXCEPT !.s2c = << >>, !.c2s = q]
    BY <1>2, <1>6, Zenon
  <2> HIDE DEF r, e, q
  <2>2. e \in ConnType /\ e.c2s = q /\ e.s2c = << >>  BY Zenon, <1>5, <2>1 DEF ConnType
  <2>3. e.srv = r.srv /\ e.cli = r.cli  BY <2>1 DEF ConnType
  <2> QED  BY <2>2, <2>3, Zenon DEF r, e
<1>8. conn' \in [Conn -> ConnType] /\ \A j \in Conn : j # k => conn'[j] = conn[j]
  BY Zenon, <1>1, <1>2, <1>6, <1>7
<1>9. \A j \in Conn : /\ conn'[j].srv <=> conn[j].srv
                      /\ conn[j].s2c = << >> => conn'[j].s2c = << >>
  <2> TAKE j \in Conn
  <2>1. CASE j = k  BY <2>1, <1>7, Zenon
  <2>2. CASE j # k  BY <2>2, <1>8, Zenon
  <2> QED  BY <2>1, <2>2
<1>10. /\ cpc' \in [Client -> {"idle", "size", "boot", "setup", "up", "send", "recv"}]
       /\ cpc'[c] = "setup" /\ \A d \in Client : d # c => cpc'[d] = cpc[d]
  <2>1. cpc \in [Client -> {"idle", "size", "boot", "setup", "up", "send", "recv"}]
    BY <1>1 DEF TypeOK
  <2> QED  BY <2>1
<1>11. /\ rem_rkey' \in [Client -> Nat] /\ rem_rkey'[c] = m.val
       /\ \A d \in Client : d # c => rem_rkey'[d] = rem_rkey[d]
  <2>1. rem_rkey \in [Client -> Nat] /\ m.val \in Nat  BY <1>1, <1>2, <1>3 DEF TypeOK
  <2> QED  BY <2>1
<1>12. TypeOK'  BY <1>1, <1>8, <1>10, <1>11, Zenon DEF TypeOK, serverVars
<1>13. ServerSockets'  BY Zenon, <1>9, ServerSocketsKept DEF serverVars
<1> HIDE DEF q
<1>14. OneMessage'
  <2> SUFFICES ASSUME NEW j \in Conn  PROVE OneMessageAt(j)'
    BY Zenon DEF OneMessage
  <2>1. CASE j = k
    <3>1. q # << >> => /\ q[1].type = "size" => q[1].val \in Nat
                       /\ q[1].type = "peer" => q[1].val \in Client
      BY <1>2, <1>4 DEF q, OneMessageAt, C2s
    <3>2. Len(q) <= 1 /\ Len(<< >>) <= 1  BY <1>5
    <3> QED  BY Zenon, <2>1, <3>1, <3>2, <1>7 DEF OneMessageAt, C2s, S2c
  <2>2. CASE j # k
    BY Zenon, <2>2, <1>8 DEF Inv, OneMessage, OneMessageAt, C2s, S2c, serverVars
  <2> QED  BY <2>1, <2>2
<1>15. OwnConnection'
  <2> SUFFICES ASSUME NEW d \in Client  PROVE Owner(d)'
    BY Zenon DEF OwnConnection
  <2>1. CASE d = c
    <3>1. conn[k].srv => q = << OwnData(c) >> /\ q[1] = OwnData(c)  BY SMTT(30), <1>4 DEF q
    <3> QED  BY Zenon, <2>1, <3>1, <1>1, <1>2, <1>4, <1>7, <1>10 DEF Owner, C2s, S2c, serverVars
  <2>2. CASE d # c
    <3>1. Owner(d) /\ sock[d] \in Conn \cup {0}
      BY <1>1 DEF Inv, OwnConnection, TypeOK
    <3>2. sock[d] # k  BY <2>2, <1>1, <1>2 DEF Owner
    <3>3. sock[d] # 0 => conn'[sock[d]] = conn[sock[d]]  BY <3>1, <3>2, <1>8
    <3> QED  BY Zenon, <2>2, <3>1, <3>3, <1>10 DEF Owner, C2s, S2c, serverVars
  <2> QED  BY <2>1, <2>2
<1>16. OneKey /\ SessionOk  BY DEF Inv
<1>17. m.val # 0 =>
         /\ \A d \in Client : rem_rkey[d] # m.val
         /\ \A j \in Conn : S2c(j) # << >> /\ S2c(j)[1].val = m.val => j = k
         /\ s_ctx.rkey = m.val => spc = "getpeer" /\ k = new_fd
  BY <1>1, <1>16 DEF OneKey
<1>18. OneKey'
  <2>1. \A d \in Client : rem_rkey'[d] \in 0 .. last_rkey
    BY <1>3, <1>11, <1>16 DEF OneKey
  <2>2. \A d, e \in Client : rem_rkey'[d] # 0 /\ rem_rkey'[e] = rem_rkey'[d] => e = d
    BY <1>11, <1>16, <1>17 DEF OneKey
  <2>3. ASSUME NEW j \in Conn, S2c(j)' # << >>, S2c(j)'[1].val # 0
        PROVE  /\ \A d \in Client : rem_rkey'[d] # S2c(j)'[1].val
               /\ \A i \in Conn : S2c(i)' # << >> /\ S2c(i)'[1].val = S2c(j)'[1].val => i = j
               /\ s_ctx'.rkey = S2c(j)'[1].val => spc' = "getpeer" /\ j = new_fd'
    <3>1. j # k /\ S2c(j)' = S2c(j)  BY Zenon, <2>3, <1>7, <1>8 DEF S2c
    <3>2. \A i \in Conn : S2c(i)' # << >> => S2c(i)' = S2c(i)  BY SMTT(90), <1>7, <1>8 DEF S2c
    <3>3. \A d \in Client : rem_rkey'[d] # S2c(j)[1].val
      BY <2>3, <3>1, <1>11, <1>16, <1>17 DEF OneKey
    <3>4. s_ctx.rkey = S2c(j)[1].val => spc = "getpeer" /\ j = new_fd
      BY <2>3, <3>1, <1>16 DEF OneKey
    <3>5. \A i \in Conn : S2c(i)' # << >> /\ S2c(i)'[1].val = S2c(j)[1].val => i = j
      BY SMTT(30), <2>3, <3>1, <3>2, <1>16 DEF OneKey
    <3> QED  BY Zenon, <3>1, <3>3, <3>4, <3>5 DEF serverVars
  <2> QED  BY <2>1, <2>2, <2>3, <1>16, Zenon DEF OneKey, serverVars
<1>19. SessionOk'
  <2>1. spc \in Serving => new_fd \in Conn  BY <1>1 DEF Inv, TypeOK, ServerSockets
  <2>2. spc \in {"getsize", "waittd"} => conn'[new_fd].s2c = << >>
    BY Zenon, <2>1, <1>9, <1>16 DEF SessionOk, S2c, Serving
  <2>3. s_ctx.rkey # 0 /\ s_ctx.qp = "RTS" =>
          \A d \in Client : rem_rkey'[d] = s_ctx.rkey => s_ctx.rem_qpn = d
    BY <1>11, <1>16, <1>17 DEF SessionOk
  <2>4. ASSUME spc = "getpeer"
        PROVE  IF conn'[new_fd].c2s = << >>
               THEN \A d \in Client : rem_rkey'[d] # s_ctx.rkey
               ELSE /\ conn'[new_fd].c2s[1].type = "peer"
                    /\ \A d \in Client :
                         rem_rkey'[d] = s_ctx.rkey => conn'[new_fd].c2s[1].val = d
    <3>1. new_fd \in Conn /\ conn[new_fd].srv /\ s_ctx.rkey # 0
      BY <2>1, <2>4, <1>2, <1>16 DEF Inv, ServerSockets, Serving, SessionOk
    <3>2. CASE k = new_fd
      <4>1. q = << OwnData(c) >> /\ q # << >> /\ q[1] = OwnData(c)
        BY <3>1, <3>2, <1>4 DEF q
      <4>2. C2s(new_fd) = << >>  BY <3>1, <3>2, <1>3
      <4>3. \A d \in Client : rem_rkey[d] # s_ctx.rkey
        BY <4>2, <2>4, <1>16 DEF SessionOk
      <4>4. \A d \in Client : rem_rkey'[d] = s_ctx.rkey => d = c  BY <4>3, <1>11
      <4> QED  BY Zenon, <4>1, <4>4, <3>2, <1>4, <1>7
    <3>3. CASE k # new_fd
      <4>1. conn'[new_fd] = conn[new_fd]  BY <3>1, <3>3, <1>8
      <4>2. rem_rkey'[c] # s_ctx.rkey  BY <3>1, <3>3, <1>11, <1>17
      <4> QED  BY Zenon, <4>1, <4>2, <2>4, <1>11, <1>16 DEF SessionOk, C2s
    <3> QED  BY Zenon, <3>2, <3>3
  <2> QED  BY Zenon, <2>2, <2>3, <2>4, <1>16 DEF SessionOk, MaxRegion, C2s, S2c, serverVars
<1> QED  BY <1>12, <1>13, <1>14, <1>15, <1>18, <1>19 DEF Inv

-----------------------------------------------------------------------------
(* The steps of the server. *)

(* Before the server's process is started, and after the memset. *)
LEMMA NoSessionType ==
  NoSession \in [rdma_mem_size : Nat, rkey : Nat, qp : {"none", "INIT", "RTS"},
                 rem_qpn : Client \cup {NoClient}]
  /\ NoSession.rkey = 0
  BY DEF NoSession

(* The server exits: all its sockets are closed, its session is gone. *)
LEMMA InvExit ==
  ASSUME Inv, Exit
  PROVE  Inv'
<1>1. /\ TypeOK /\ conn \in [Conn -> ConnType]
      /\ spc' = "exited" /\ new_fd' = 0 /\ s_ctx' = NoSession
      /\ listening' = FALSE /\ backlog' = << >>
      /\ conn' = ServerCloses(conn, Conn)
      /\ UNCHANGED <<clientVars, last_rkey>>
  BY DEF Inv, TypeOK, Exit
<1>2. \A j \in Conn :
         /\ conn'[j] \in ConnType
         /\ conn'[j].cli <=> conn[j].cli
         /\ ~conn'[j].srv
         /\ conn'[j].c2s = conn[j].c2s \/ (conn'[j].c2s = << >> /\ ~conn[j].cli)
         /\ conn'[j].s2c = conn[j].s2c \/ (conn'[j].s2c = << >> /\ ~conn[j].cli)
  <2> TAKE j \in Conn
  <2>1. conn'[j] = ServerCloses(conn, Conn)[j]  BY <1>1
  <2> QED  BY <1>1, <2>1, ServerClosesOne
<1>3. TypeOK'
  <2>1. conn' \in [Conn -> ConnType]  BY <1>1, <1>2 DEF ServerCloses
  <2>2. s_ctx' \in [rdma_mem_size : Nat, rkey : Nat, qp : {"none", "INIT", "RTS"},
                    rem_qpn : Client \cup {NoClient}]
    BY <1>1, NoSessionType, Zenon
  <2>3. backlog' \in Seq(Conn) /\ new_fd' \in Conn \cup {0}  BY <1>1
  <2>4. spc' \in {"listen1", "accept1", "getsize", "getpeer", "listen2", "accept2",
                  "waittd", "shutdown", "exited"}
    BY <1>1
  <2>5. listening' \in BOOLEAN  BY <1>1, Zenon
  <2> QED  BY <1>1, <2>1, <2>2, <2>3, <2>4, <2>5, Zenon DEF TypeOK, clientVars
<1>4. ServerSockets'
  <2>1. Len(backlog') = 0  BY Zenon, <1>1
  <2> QED  BY <1>1, <2>1 DEF ServerSockets, Serving
<1>5. OneMessage'
  BY SMTT(30), <1>1, <1>2 DEF Inv, OneMessage, OneMessageAt, C2s, S2c
<1>6. OwnConnection'
  BY <1>1, <1>2 DEF Inv, TypeOK, OwnConnection, Owner, clientVars
<1>7. OneKey'
  <2>1. \A j \in Conn : S2c(j)' # << >> => S2c(j)' = S2c(j)  BY <1>2 DEF S2c
  <2>2. \A d \in Client : rem_rkey'[d] = rem_rkey[d]  BY <1>1 DEF clientVars
  <2> QED  BY <1>1, <2>1, <2>2, NoSessionType, OneKeyDropped
<1>8. SessionOk'  BY <1>1, NoSessionType DEF SessionOk
<1> QED  BY <1>3, <1>4, <1>5, <1>6, <1>7, <1>8 DEF Inv

(* The server listens, or is started again: no connection is open. *)
LEMMA InvListens ==
  ASSUME Inv, NEW p, \/ spc \in {"listen1", "listen2"} /\ p \in {"accept1", "accept2"}
                     \/ spc = "exited" /\ p = "listen1",
         spc' = p, listening' = (p # "listen1"), s_ctx' = NoSession \/ s_ctx' = s_ctx,
         UNCHANGED <<clientVars, new_fd, last_rkey, backlog, conn>>
  PROVE  Inv'
<1>1. TypeOK /\ OneKey /\ SessionOk  BY DEF Inv
<1>2. new_fd = 0 /\ backlog = << >>
  BY DEF Inv, ServerSockets, Serving
<1>3. s_ctx' \in [rdma_mem_size : Nat, rkey : Nat, qp : {"none", "INIT", "RTS"},
                  rem_qpn : Client \cup {NoClient}]
  BY <1>1, NoSessionType, Zenon DEF TypeOK
<1>4. TypeOK'
  <2>1. spc' \in {"listen1", "accept1", "getsize", "getpeer", "listen2", "accept2",
                  "waittd", "shutdown", "exited"}
    OBVIOUS
  <2>2. listening' \in BOOLEAN  BY Zenon
  <2> QED  BY <1>1, <1>3, <2>1, <2>2, Zenon DEF TypeOK, clientVars
<1>5. ServerSockets'
  <2>1. Len(backlog') = 0 /\ backlog' = << >> /\ new_fd' = 0  BY <1>2
  <2>2. listening' => p # "listen1"  BY Zenon
  <2>3. p \in {"listen1", "accept1", "accept2"}  OBVIOUS
  <2> QED  BY <2>1, <2>2, <2>3 DEF ServerSockets, Serving
<1>6. OneMessage'  BY Zenon DEF Inv, OneMessage, OneMessageAt, C2s, S2c
<1>7. OwnConnection'
  BY <1>1 DEF Inv, OwnConnection, Owner, C2s, S2c, clientVars
<1>8. OneKey'
  <2>1. s_ctx'.rkey = 0 \/ (s_ctx'.rkey = s_ctx.rkey /\ spc # "getpeer")
    BY NoSessionType
  <2> QED  BY <2>1, OneKeyDropped DEF S2c, clientVars
<1>9. SessionOk'
  <2>1. s_ctx'.rkey = 0 \/ s_ctx' = s_ctx  BY NoSessionType
  <2> QED  BY <1>1, <2>1 DEF SessionOk, MaxRegion, clientVars
<1> QED  BY <1>4, <1>5, <1>6, <1>7, <1>8, <1>9 DEF Inv

(* The server accepts the first connection of its backlog and resets the   *)
(* others.                                                                 *)
LEMMA InvAccept ==
  ASSUME Inv, Accept
  PROVE  Inv'
<1> DEFINE n == Head(backlog)
           K == {backlog[i] : i \in 2 .. Len(backlog)}
<1>1. /\ TypeOK /\ conn \in [Conn -> ConnType] /\ backlog \in Seq(Conn) /\ backlog # << >>
      /\ new_fd' = n /\ conn' = ServerCloses(conn, K)
      /\ backlog' = << >> /\ listening' = FALSE
      /\ spc \in {"accept1", "accept2"} /\ spc' \in {"getsize", "waittd"}
      /\ UNCHANGED <<clientVars, s_ctx, last_rkey>>
  BY DEF Inv, TypeOK, Accept
<1>2. /\ n \in Conn /\ n # 0 /\ n \notin K /\ conn[n].srv /\ S2c(n) = << >>
  <2>1. 1 \in 1 .. Len(backlog) /\ n = backlog[1] /\ n \in Conn  BY <1>1
  <2>2. n \notin K
    <3>1. \A i \in 2 .. Len(backlog) : i \in 1 .. Len(backlog) /\ i # 1  BY <1>1
    <3> QED  BY <2>1, <3>1 DEF Inv, ServerSockets
  <2>3. n # 0  BY <2>1, SessionAssumption DEF Conn
  <2> QED  BY <2>1, <2>2, <2>3 DEF Inv, ServerSockets
<1> HIDE DEF n, K
<1>3. \A j \in Conn :
         /\ conn'[j] \in ConnType
         /\ conn'[j].cli <=> conn[j].cli
         /\ j \notin K => conn'[j] = conn[j]
         /\ j \in K => ~conn'[j].srv
         /\ conn'[j].c2s = conn[j].c2s \/ (conn'[j].c2s = << >> /\ ~conn[j].cli)
         /\ conn'[j].s2c = conn[j].s2c \/ (conn'[j].s2c = << >> /\ ~conn[j].cli)
  <2> TAKE j \in Conn
  <2> DEFINE c == conn'[j]
  <2>1. c = ServerCloses(conn, K)[j] /\ conn \in [Conn -> ConnType]  BY <1>1
  <2> HIDE DEF c
  <2>2. /\ c \in ConnType
        /\ c.cli <=> conn[j].cli
        /\ j \notin K => c = conn[j]
        /\ j \in K => ~c.srv
        /\ c.c2s = conn[j].c2s \/ (c.c2s = << >> /\ ~conn[j].cli)
        /\ c.s2c = conn[j].s2c \/ (c.s2c = << >> /\ ~conn[j].cli)
    BY <2>1, ServerClosesOne
  <2> QED  BY <2>2 DEF c
<1>4. TypeOK'
  <2>1. conn' \in [Conn -> ConnType]  BY <1>1, <1>3 DEF ServerCloses
  <2>2. backlog' \in Seq(Conn) /\ new_fd' \in Conn \cup {0}  BY <1>1, <1>2
  <2>3. spc' \in {"listen1", "accept1", "getsize", "getpeer", "listen2", "accept2",
                  "waittd", "shutdown", "exited"}
    BY <1>1
  <2>4. listening' \in BOOLEAN  BY <1>1, Zenon
  <2> QED  BY <1>1, <2>1, <2>2, <2>3, <2>4, Zenon DEF TypeOK, clientVars
<1>5. conn'[n] = conn[n]  BY <1>2, <1>3
<1>6. ServerSockets'
  <2>1. Len(backlog') = 0  BY <1>1
  <2> QED  BY <1>1, <1>2, <1>5, <2>1 DEF ServerSockets, Serving
<1>7. OneMessage'
  <2> SUFFICES ASSUME NEW j \in Conn  PROVE OneMessageAt(j)'
    BY DEF OneMessage
  <2>1. OneMessageAt(j)  BY Zenon DEF Inv, OneMessage
  <2>2. CASE j \notin K
    BY Zenon, <1>1, <1>3, <2>1, <2>2 DEF OneMessageAt, C2s, S2c
  <2>3. CASE j \in K
    BY <1>1, <1>3, <2>1, <2>3 DEF OneMessageAt, C2s, S2c
  <2> QED  BY <2>2, <2>3
<1>8. OwnConnection'
  <2> SUFFICES ASSUME NEW d \in Client  PROVE Owner(d)'
    BY DEF OwnConnection
  <2>1. Owner(d) /\ sock[d] \in Conn \cup {0} /\ spc' # "getpeer"
    BY Zenon, <1>1 DEF Inv, OwnConnection, TypeOK
  <2>2. CASE sock[d] \in K /\ sock[d] # 0
    BY Zenon, <1>1, <1>3, <2>1, <2>2 DEF Owner, clientVars
  <2>3. CASE sock[d] \notin K /\ sock[d] # 0
    <3>1. conn'[sock[d]] = conn[sock[d]]  BY Zenon, <1>3, <2>1, <2>3
    <3> QED  BY Zenon, <1>1, <2>1, <2>3, <3>1 DEF Owner, C2s, S2c, clientVars
  <2>4. CASE sock[d] = 0
    BY <1>1, <2>1, <2>4 DEF Owner, clientVars
  <2> QED  BY <2>2, <2>3, <2>4
<1>9. OneKey'
  <2>1. \A j \in Conn : S2c(j)' # << >> => S2c(j)' = S2c(j)  BY <1>3 DEF S2c
  <2>2. \A d \in Client : rem_rkey'[d] = rem_rkey[d]  BY SMTT(30), <1>1 DEF clientVars
  <2> QED  BY <1>1, <2>1, <2>2, OneKeyDropped
<1>10. SessionOk'
  BY <1>1, <1>2, <1>5 DEF Inv, SessionOk, MaxRegion, S2c, clientVars
<1> QED  BY <1>4, <1>6, <1>7, <1>8, <1>9, <1>10 DEF Inv

(* The server receives a message on a connection on which nothing is on    *)
(* its way back, and sends out.                                            *)
LEMMA ServerTurnOne ==
  ASSUME Inv, new_fd \in Conn, NEW m \in ServerGets, S2c(new_fd) = << >>,
         NEW out \in Seq(Message), NEW cs, cs = ServerTurn(out)
  PROVE  /\ C2s(new_fd) # << >> /\ m = C2s(new_fd)[1]
         /\ cs \in [Conn -> ConnType]
         /\ \A j \in Conn : j # new_fd => cs[j] = conn[j]
         /\ cs[new_fd].c2s = << >>
         /\ cs[new_fd].s2c = IF conn[new_fd].cli THEN out ELSE << >>
         /\ cs[new_fd].srv <=> conn[new_fd].srv
         /\ cs[new_fd].cli <=> conn[new_fd].cli
<1> DEFINE k == new_fd
           q == IF conn[k].cli THEN out ELSE << >>
           r == conn[k]
           e == cs[k]
<1>1. /\ TypeOK /\ conn \in [Conn -> ConnType] /\ r \in ConnType /\ OneMessageAt(k)
  BY DEF Inv, TypeOK, OneMessage
<1>2. C2s(k) # << >> /\ m = Head(C2s(k))  BY DEF ServerGets, C2s
<1>3. m = C2s(k)[1] /\ Tail(C2s(k)) = << >>
  BY <1>1, <1>2 DEF C2s, OneMessageAt, ConnType
<1>4. << >> \o out = out /\ q \in Seq(Message) /\ << >> \in Seq(Message)  OBVIOUS
<1>5. /\ cs = [conn EXCEPT ![k] = e]
      /\ e = [r EXCEPT !.c2s = << >>, !.s2c = q]
  BY Zenon, <1>1, <1>3, <1>4 DEF ServerTurn, C2s, S2c
<1> HIDE DEF q, r, e
<1>6. e \in ConnType /\ e.c2s = << >> /\ e.s2c = q
  BY Zenon, <1>1, <1>4, <1>5 DEF ConnType
<1>7. e.srv = r.srv /\ e.cli = r.cli  BY <1>1, <1>5 DEF ConnType
<1>8. cs \in [Conn -> ConnType] /\ \A j \in Conn : j # k => cs[j] = conn[j]
  BY SMTT(30), <1>1, <1>5, <1>6
<1> QED  BY <1>2, <1>3, <1>6, <1>7, <1>8, Zenon DEF q, r, e

(* What a turn of the server at its accepted connection keeps, when it     *)
(* sends at most one message.                                              *)
LEMMA ServerTurnKeeps ==
  ASSUME Inv, new_fd \in Conn, NEW m \in ServerGets, S2c(new_fd) = << >>,
         NEW out \in Seq(Message), Len(out) <= 1,
         out # << >> => out[1].val \in 0 .. last_rkey',
         conn' = ServerTurn(out), last_rkey' \in Nat, last_rkey <= last_rkey',
         spc' \in Serving, spc' = "getpeer" => m.type = "size",
         UNCHANGED <<clientVars, new_fd, listening, backlog>>
  PROVE  /\ conn' \in [Conn -> ConnType]
         /\ ServerSockets' /\ OneMessage' /\ OwnConnection'
<1>1. /\ TypeOK /\ ServerSockets /\ OneMessage /\ OwnConnection /\ new_fd # 0
  BY SMTT(30), SessionAssumption DEF Inv, Conn
<1>2. /\ C2s(new_fd) # << >> /\ m = C2s(new_fd)[1]
      /\ conn' \in [Conn -> ConnType]
      /\ \A j \in Conn : j # new_fd => conn'[j] = conn[j]
      /\ conn'[new_fd].c2s = << >>
      /\ conn'[new_fd].s2c = IF conn[new_fd].cli THEN out ELSE << >>
      /\ conn'[new_fd].srv <=> conn[new_fd].srv
      /\ conn'[new_fd].cli <=> conn[new_fd].cli
  <2> DEFINE cs == conn'
  <2>1. cs = ServerTurn(out)  BY SMTT(30)
  <2> HIDE DEF cs
  <2>2. /\ C2s(new_fd) # << >> /\ m = C2s(new_fd)[1]
        /\ cs \in [Conn -> ConnType]
        /\ \A j \in Conn : j # new_fd => cs[j] = conn[j]
        /\ cs[new_fd].c2s = << >>
        /\ cs[new_fd].s2c = IF conn[new_fd].cli THEN out ELSE << >>
        /\ cs[new_fd].srv <=> conn[new_fd].srv
        /\ cs[new_fd].cli <=> conn[new_fd].cli
    BY <2>1, ServerTurnOne
  <2> QED  BY <2>2 DEF cs
<1>3. spc \in Serving /\ ~listening /\ backlog = << >>
  <2>1. spc \in Serving  BY <1>1 DEF ServerSockets
  <2>2. ~listening  BY SMTT(30), <1>1, <2>1 DEF ServerSockets, Serving
  <2> QED  BY <1>1, <2>1, <2>2 DEF ServerSockets
<1>4. ServerSockets'
  <2>1. Len(backlog') = 0 /\ backlog' = << >>  BY <1>3
  <2>2. ~listening'  BY <1>3, Zenon
  <2>3. conn'[new_fd].srv  BY <1>1, <1>2 DEF ServerSockets
  <2> QED  BY <1>1, <2>1, <2>2, <2>3 DEF ServerSockets
<1>5. OneMessage'
  <2> SUFFICES ASSUME NEW j \in Conn  PROVE OneMessageAt(j)'
    BY DEF OneMessage
  <2>1. OneMessageAt(j) /\ last_rkey \in Nat  BY Zenon, <1>1 DEF OneMessage, TypeOK
  <2>2. CASE j # new_fd
    <3>1. conn'[j] = conn[j]  BY Zenon, <1>2, <2>2
    <3> QED  BY SMTT(30), <2>1, <3>1 DEF OneMessageAt, C2s, S2c
  <2>3. CASE j = new_fd
    <3>1. conn'[j].c2s = << >> /\ (conn'[j].s2c = out \/ conn'[j].s2c = << >>)
      BY <1>2, <2>3
    <3> QED  BY <3>1 DEF OneMessageAt, C2s, S2c
  <2> QED  BY <2>2, <2>3
<1>6. OwnConnection'
  <2> SUFFICES ASSUME NEW d \in Client  PROVE Owner(d)'
    BY DEF OwnConnection
  <2>1. Owner(d) /\ sock[d] \in Conn \cup {0}  BY Zenon, <1>1 DEF OwnConnection, TypeOK
  <2>2. CASE sock[d] = 0
    BY Zenon, <2>1, <2>2 DEF Owner, clientVars
  <2>3. CASE sock[d] # 0 /\ sock[d] # new_fd
    <3>1. conn'[sock[d]] = conn[sock[d]]  BY Zenon, <1>2, <2>1, <2>3
    <3> QED  BY Zenon, <2>1, <2>3, <3>1 DEF Owner, C2s, S2c, clientVars
  <2>4. CASE sock[d] = new_fd
    <3>1. conn[new_fd].srv  BY Zenon, <1>1 DEF ServerSockets
    <3>2. /\ conn[new_fd].cli /\ (\A e \in Client : sock[e] = sock[d] => e = d)
          /\ cpc[d] \notin {"idle", "up", "size", "send"}
      BY Zenon, <1>1, <1>2, <2>1, <2>4, <3>1 DEF Owner
    <3>3. m.type = "size" => cpc[d] = "boot"
      BY Zenon, <1>1, <1>2, <2>1, <2>4, <3>1 DEF Owner
    <3>4. spc' = "getpeer" => cpc[d] \in {"boot", "setup"}  BY <3>3
    <3> QED  BY Zenon, <1>1, <1>2, <2>4, <3>1, <3>2, <3>4 DEF Owner, C2s, S2c, clientVars
  <2> QED  BY <2>2, <2>3, <2>4
<1> QED  BY <1>2, <1>4, <1>5, <1>6

(* The server registers a region and sends its key. *)
LEMMA InvGetSize ==
  ASSUME Inv, spc = "getsize", NEW m \in ServerGets,
         NEW size \in handshake_get_memsize(m), size > 0, size <= MaxRegion,
         last_rkey' = NewKey, s_ctx' = setup_rdma_1(size),
         conn' = ServerTurn(<<BootstrapData>>), spc' = "getpeer",
         UNCHANGED <<clientVars, new_fd, listening, backlog>>
  PROVE  Inv'
<1> DEFINE out == <<BootstrapData>>
<1>1. /\ TypeOK /\ OneKey /\ SessionOk /\ new_fd \in Conn /\ S2c(new_fd) = << >>
      /\ last_rkey \in Nat /\ last_rkey' = last_rkey + 1
  BY DEF Inv, ServerSockets, SessionOk, Serving, TypeOK, NewKey
<1>2. /\ out \in Seq(Message) /\ Len(out) = 1 /\ out # << >>
      /\ out[1].val = last_rkey + 1
  BY <1>1 DEF BootstrapData, Msg, Message, NewKey
<1>3. m.type = "size" /\ size \in ScannedSizes(m.val)
  BY SMT DEF handshake_get_memsize
<1>4. C2s(new_fd) # << >> /\ m = C2s(new_fd)[1] /\ OneMessageAt(new_fd)
  <2>1. C2s(new_fd) # << >> /\ m = Head(C2s(new_fd))  BY DEF ServerGets, C2s
  <2>2. C2s(new_fd) \in Seq(Message)  BY SMTT(30), <1>1 DEF TypeOK, C2s, ConnType
  <2> QED  BY <1>1, <2>1, <2>2 DEF Inv, OneMessage
<1>5. size \in Nat
  <2>1. m.val \in Nat  BY <1>3, <1>4 DEF OneMessageAt
  <2>2. PICK d \in Stale : size = m.val * d.scale + d.digits  BY <1>3 DEF ScannedSizes
  <2>3. d.scale \in Nat /\ d.digits \in Nat  BY SessionAssumption
  <2> QED  BY <2>1, <2>2, <2>3
<1> HIDE DEF out
<1>6. conn' \in [Conn -> ConnType] /\ ServerSockets' /\ OneMessage' /\ OwnConnection'
  <2>1. conn' = ServerTurn(out)  BY DEF out
  <2>2. last_rkey' \in Nat /\ last_rkey <= last_rkey' /\ out[1].val \in 0 .. last_rkey'
    BY <1>1, <1>2
  <2>3. spc' \in Serving /\ Len(out) <= 1  BY <1>2 DEF Serving
  <2> QED  BY Zenon, <1>1, <1>2, <1>3, <2>1, <2>2, <2>3, ServerTurnKeeps
<1>7. /\ s_ctx' \in [rdma_mem_size : Nat, rkey : Nat, qp : {"none", "INIT", "RTS"},
                     rem_qpn : Client \cup {NoClient}]
      /\ s_ctx'.rkey = last_rkey + 1 /\ s_ctx'.qp = "INIT"
      /\ s_ctx'.rdma_mem_size = size
  <2> DEFINE r == s_ctx
             e == s_ctx'
             k == last_rkey + 1
  <2>1. r \in [rdma_mem_size : Nat, rkey : Nat, qp : {"none", "INIT", "RTS"},
               rem_qpn : Client \cup {NoClient}]
    BY <1>1 DEF TypeOK
  <2>2. e = [r EXCEPT !.rdma_mem_size = size, !.rkey = k, !.qp = "INIT"]
    BY DEF setup_rdma_1, NewKey
  <2>3. k \in Nat  BY <1>1
  <2> HIDE DEF r, e, k
  <2>4. /\ e \in [rdma_mem_size : Nat, rkey : Nat, qp : {"none", "INIT", "RTS"},
                  rem_qpn : Client \cup {NoClient}]
        /\ e.rkey = k /\ e.qp = "INIT" /\ e.rdma_mem_size = size
    BY Zenon, <1>5, <2>1, <2>2, <2>3
  <2> QED  BY <2>4 DEF e, k
<1>8. TypeOK'
  <2>1. last_rkey' \in Nat  BY <1>1
  <2>2. spc' \in {"listen1", "accept1", "getsize", "getpeer", "listen2", "accept2",
                  "waittd", "shutdown", "exited"}
    OBVIOUS
  <2> QED  BY <1>1, <1>6, <1>7, <2>1, <2>2, Zenon DEF TypeOK, clientVars
<1>9. /\ conn'[new_fd].c2s = << >>
      /\ conn'[new_fd].s2c = out \/ conn'[new_fd].s2c = << >>
      /\ \A j \in Conn : j # new_fd => conn'[j] = conn[j]
  <2>1. conn' = ServerTurn(out)  BY DEF out
  <2> DEFINE cs == conn'
  <2>2. cs = ServerTurn(out)  BY Zenon, <2>1
  <2> HIDE DEF cs
  <2>3. /\ \A j \in Conn : j # new_fd => cs[j] = conn[j]
        /\ cs[new_fd].c2s = << >>
        /\ cs[new_fd].s2c = IF conn[new_fd].cli THEN out ELSE << >>
    BY <1>1, <1>2, <2>2, ServerTurnOne
  <2> QED  BY <2>3 DEF cs
<1>10. OneKey'
  <2>1. /\ s_ctx'.rkey \in 0 .. last_rkey'
        /\ \A d \in Client : rem_rkey'[d] \in 0 .. last_rkey' /\ rem_rkey'[d] # last_rkey + 1
    BY <1>1, <1>7 DEF OneKey, clientVars
  <2>2. \A d, e \in Client : rem_rkey'[d] # 0 /\ rem_rkey'[e] = rem_rkey'[d] => e = d
    BY Zenon, <1>1 DEF OneKey, clientVars
  <2>3. \A j \in Conn : j # new_fd /\ S2c(j)' # << >> =>
          /\ S2c(j)' = S2c(j) /\ S2c(j)'[1].val # last_rkey + 1
    BY <1>1, <1>9 DEF Inv, OneMessage, OneMessageAt, S2c
  <2>4. S2c(new_fd)' # << >> => S2c(new_fd)'[1].val = last_rkey + 1
    BY SMTT(30), <1>2, <1>9 DEF S2c
  <2>5. ASSUME NEW k \in Conn, S2c(k)' # << >>, S2c(k)'[1].val # 0
        PROVE  /\ \A d \in Client : rem_rkey'[d] # S2c(k)'[1].val
               /\ \A j \in Conn : S2c(j)' # << >> /\ S2c(j)'[1].val = S2c(k)'[1].val => j = k
               /\ s_ctx'.rkey = S2c(k)'[1].val => spc' = "getpeer" /\ k = new_fd'
    <3>1. CASE k = new_fd
      BY Zenon, <2>1, <2>3, <2>4, <2>5, <3>1
    <3>2. CASE k # new_fd
      BY Zenon, <1>1, <1>7, <2>1, <2>3, <2>4, <2>5, <3>2 DEF OneKey, clientVars
    <3> QED  BY SMTT(30), <3>1, <3>2
  <2> QED  BY Zenon, <2>1, <2>2, <2>5 DEF OneKey
<1>11. SessionOk'
  <2>1. \A d \in Client : rem_rkey'[d] # s_ctx'.rkey
    BY <1>1, <1>7 DEF OneKey, clientVars
  <2>2. s_ctx'.rkey # 0  BY <1>1, <1>7
  <2> QED  BY SMTT(30), <1>7, <1>9, <2>1, <2>2 DEF SessionOk, MaxRegion, C2s
<1> QED  BY Zenon, <1>6, <1>8, <1>10, <1>11 DEF Inv

(* The server receives while it waits for "teardown". *)
LEMMA InvWaitTeardown ==
  ASSUME Inv, spc = "waittd", NEW m \in ServerGets,
         conn' = ServerTurn(Answer(m)),
         spc' = IF m.type = "teardown" THEN "shutdown" ELSE "waittd",
         UNCHANGED <<clientVars, new_fd, s_ctx, last_rkey, listening, backlog>>
  PROVE  Inv'
<1> DEFINE out == Answer(m)
<1>1. /\ TypeOK /\ SessionOk /\ new_fd \in Conn /\ S2c(new_fd) = << >>
      /\ last_rkey \in Nat
  BY SMTT(30) DEF Inv, ServerSockets, SessionOk, Serving, TypeOK
<1>2. /\ out \in Seq(Message) /\ Len(out) <= 1
      /\ out # << >> => out[1].val = 0 /\ spc' = "shutdown"
  <2>1. CASE m.type = "teardown"
    BY <2>1 DEF Answer, Msg, Message
  <2>2. CASE m.type # "teardown"
    BY <2>2 DEF Answer
  <2> QED  BY <2>1, <2>2
<1> HIDE DEF out
<1>3. conn' = ServerTurn(out)  BY SMTT(30) DEF out
<1>4. conn' \in [Conn -> ConnType] /\ ServerSockets' /\ OneMessage' /\ OwnConnection'
  <2>1. spc' \in Serving /\ spc' # "getpeer"  BY DEF Serving
  <2>2. out # << >> => out[1].val \in 0 .. last_rkey'  BY <1>1, <1>2
  <2> QED  BY <1>1, <1>2, <1>3, <2>1, <2>2, ServerTurnKeeps
<1>5. /\ conn'[new_fd].s2c = out \/ conn'[new_fd].s2c = << >>
      /\ \A j \in Conn : j # new_fd => conn'[j] = conn[j]
  <2> DEFINE cs == conn'
  <2>1. cs = ServerTurn(out)  BY SMTT(30), <1>3
  <2> HIDE DEF cs
  <2>2. /\ \A j \in Conn : j # new_fd => cs[j] = conn[j]
        /\ cs[new_fd].s2c = IF conn[new_fd].cli THEN out ELSE << >>
    BY <1>1, <1>2, <2>1, ServerTurnOne
  <2> QED  BY <2>2 DEF cs
<1>6. TypeOK'
  <2>1. spc' \in {"listen1", "accept1", "getsize", "getpeer", "listen2", "accept2",
                  "waittd", "shutdown", "exited"}
    BY SMTT(30)
  <2> QED  BY <1>1, <1>4, <2>1, Zenon DEF TypeOK, clientVars
<1>7. OneKey'
  <2>1. \A j \in Conn : S2c(j)' # << >> => S2c(j)' = S2c(j) \/ S2c(j)'[1].val = 0
    BY <1>2, <1>5 DEF S2c
  <2>2. \A d \in Client : rem_rkey'[d] = rem_rkey[d]  BY Zenon DEF clientVars
  <2> QED  BY <2>1, <2>2, OneKeyDropped
<1>8. SessionOk'
  <2>1. spc' = "waittd" => conn'[new_fd].s2c = << >>  BY <1>2, <1>5
  <2>2. spc' \in {"waittd", "shutdown"}  BY SMTT(30)
  <2> QED  BY <1>1, <2>1, <2>2 DEF SessionOk, MaxRegion, S2c, clientVars
<1> QED  BY Zenon, <1>4, <1>6, <1>7, <1>8 DEF Inv

(* The server closes the connection it serves. *)
LEMMA InvServerCloses ==
  ASSUME Inv, new_fd \in Conn, NEW cs \in [Conn -> ConnType],
         conn' = ServerCloses(cs, {new_fd}),
         \A j \in Conn : j # new_fd => cs[j] = conn[j],
         cs[new_fd].cli <=> conn[new_fd].cli,
         cs[new_fd] = conn[new_fd] \/ (cs[new_fd].c2s = << >> /\ cs[new_fd].s2c = << >>),
         spc = "getpeer" => cs[new_fd].s2c = << >>,
         new_fd' = 0, spc' \in {"listen1", "listen2"},
         s_ctx' \in [rdma_mem_size : Nat, rkey : Nat, qp : {"none", "INIT", "RTS"},
                     rem_qpn : Client \cup {NoClient}],
         s_ctx'.rkey = 0 \/ s_ctx'.rkey = s_ctx.rkey, SessionOk',
         UNCHANGED <<clientVars, last_rkey, listening, backlog>>
  PROVE  Inv'
<1>1. /\ TypeOK /\ ServerSockets /\ OneMessage /\ OwnConnection /\ new_fd # 0
  BY SMTT(30), SessionAssumption DEF Inv, Conn
<1>2. \A j \in Conn :
         /\ conn'[j] \in ConnType
         /\ conn'[j].cli <=> cs[j].cli
         /\ j # new_fd => conn'[j] = cs[j]
         /\ j = new_fd => ~conn'[j].srv
         /\ conn'[j].c2s = cs[j].c2s \/ conn'[j].c2s = << >>
         /\ conn'[j].s2c = cs[j].s2c \/ conn'[j].s2c = << >>
  <2> TAKE j \in Conn
  <2> DEFINE c == conn'[j]
             K == {new_fd}
  <2>1. c = ServerCloses(cs, K)[j]  BY SMTT(30)
  <2>2. j \in K <=> j = new_fd  BY Zenon
  <2> HIDE DEF c, K
  <2>3. /\ c \in ConnType
        /\ c.cli <=> cs[j].cli
        /\ j \notin K => c = cs[j]
        /\ j \in K => ~c.srv
        /\ c.c2s = cs[j].c2s \/ (c.c2s = << >> /\ ~cs[j].cli)
        /\ c.s2c = cs[j].s2c \/ (c.s2c = << >> /\ ~cs[j].cli)
    BY SMTT(30), <2>1, ServerClosesOne
  <2> QED  BY SMTT(30), <2>2, <2>3 DEF c
<1>3. \A j \in Conn : j # new_fd => conn'[j] = conn[j]  BY Zenon, <1>2
<1>4. /\ conn'[new_fd].cli <=> conn[new_fd].cli
      /\ ~conn'[new_fd].srv
      /\ conn'[new_fd].c2s = C2s(new_fd) \/ conn'[new_fd].c2s = << >>
      /\ conn'[new_fd].s2c = S2c(new_fd) \/ conn'[new_fd].s2c = << >>
      /\ spc = "getpeer" => conn'[new_fd].s2c = << >>
  BY Zenon, <1>2 DEF C2s, S2c
<1>5. TypeOK'
  <2>1. conn' \in [Conn -> ConnType]  BY <1>2 DEF ServerCloses
  <2>2. spc' \in {"listen1", "accept1", "getsize", "getpeer", "listen2", "accept2",
                  "waittd", "shutdown", "exited"} /\ new_fd' \in Conn \cup {0}
    OBVIOUS
  <2> QED  BY <1>1, <2>1, <2>2, Zenon DEF TypeOK, clientVars
<1>6. ~listening /\ backlog = << >>
  <2>1. spc \in Serving  BY SMTT(30), <1>1 DEF ServerSockets
  <2>2. ~listening  BY SMTT(30), <1>1, <2>1 DEF ServerSockets, Serving
  <2> QED  BY <1>1, <2>1, <2>2 DEF ServerSockets
<1>7. ServerSockets'
  <2>1. Len(backlog') = 0 /\ backlog' = << >>  BY <1>6
  <2>2. ~listening'  BY <1>6, Zenon
  <2> QED  BY SMTT(30), <2>1, <2>2 DEF ServerSockets, Serving
<1>8. OneMessage'
  <2> SUFFICES ASSUME NEW j \in Conn  PROVE OneMessageAt(j)'
    BY SMTT(30) DEF OneMessage
  <2>1. OneMessageAt(j)  BY Zenon, <1>1 DEF OneMessage
  <2>2. CASE j # new_fd
    <3>1. conn'[j] = conn[j]  BY Zenon, <1>3, <2>2
    <3> QED  BY Zenon, <2>1, <3>1 DEF OneMessageAt, C2s, S2c
  <2>3. CASE j = new_fd
    <3>1. /\ C2s(j)' = C2s(j) \/ C2s(j)' = << >>
          /\ S2c(j)' = S2c(j) \/ S2c(j)' = << >>
          /\ ~conn'[j].srv /\ last_rkey' = last_rkey
      BY Zenon, <1>4, <2>3 DEF C2s, S2c
    <3>2. Len(<< >>) = 0 /\ 0 <= 1  OBVIOUS
    <3>3. Len(C2s(j)') <= 1 /\ Len(S2c(j)') <= 1
      BY Zenon, <2>1, <3>1, <3>2 DEF OneMessageAt
    <3> QED  BY Zenon, <2>1, <3>1, <3>3 DEF OneMessageAt
  <2> QED  BY SMTT(30), <2>2, <2>3
<1>9. OwnConnection'
  <2> SUFFICES ASSUME NEW d \in Client  PROVE Owner(d)'
    BY Zenon DEF OwnConnection
  <2>1. Owner(d) /\ sock[d] \in Conn \cup {0} /\ spc' # "getpeer"
    BY Zenon, <1>1 DEF OwnConnection, TypeOK
  <2>2. CASE sock[d] = 0
    BY SMTT(90), <2>1, <2>2 DEF Owner, clientVars
  <2>3. CASE sock[d] # 0 /\ sock[d] # new_fd
    <3>1. conn'[sock[d]] = conn[sock[d]]  BY Zenon, <1>3, <2>1, <2>3
    <3> QED  BY ZenonT(30), <2>1, <2>3, <3>1 DEF Owner, C2s, S2c, clientVars
  <2>4. CASE sock[d] = new_fd
    BY Zenon, <1>1, <1>4, <2>1, <2>4 DEF Owner, clientVars
  <2> QED  BY Zenon, <2>2, <2>3, <2>4
<1>10. OneKey'
  <2>1. \A j \in Conn : S2c(j)' # << >> => S2c(j)' = S2c(j)
    BY Zenon, <1>3, <1>4 DEF S2c
  <2>2. \A d \in Client : rem_rkey'[d] = rem_rkey[d]  BY DEF clientVars
  <2>3. \A d \in Client : rem_rkey'[d] = rem_rkey[d] \/ rem_rkey'[d] = 0
    BY Zenon, <2>2
  <2>4. \A j \in Conn : S2c(j)' # << >> => S2c(j)' = S2c(j) \/ S2c(j)'[1].val = 0
    BY Zenon, <2>1
  <2>5. \/ s_ctx'.rkey = 0
        \/ /\ s_ctx'.rkey = s_ctx.rkey
           /\ \/ spc # "getpeer"
              \/ spc' = "getpeer" /\ new_fd' = new_fd
              \/ conn'[new_fd].s2c = << >>
    BY Zenon, <1>4
  <2>6. last_rkey' = last_rkey  OBVIOUS
  <2> QED  BY Zenon, <2>3, <2>4, <2>5, <2>6, OneKeyDropped
<1> QED  BY Zenon, <1>5, <1>7, <1>8, <1>9, <1>10 DEF Inv

(* The server learns the client's queue pair and connects its own to it. *)
LEMMA InvGetPeer ==
  ASSUME Inv, spc = "getpeer", NEW m \in ServerGets,
         s_ctx' = [s_ctx EXCEPT !.rem_qpn = m.val, !.qp = setup_rdma_2],
         conn' = ServerCloses(ServerTurn(<< >>), {new_fd}),
         new_fd' = 0, spc' = "listen2",
         UNCHANGED <<clientVars, last_rkey, listening, backlog>>
  PROVE  Inv'
<1> DEFINE cs == ServerTurn(<< >>)
<1>1. /\ TypeOK /\ SessionOk /\ new_fd \in Conn /\ conn[new_fd].srv
      /\ OneMessageAt(new_fd)
  BY DEF Inv, ServerSockets, Serving, TypeOK, OneMessage
<1>2. C2s(new_fd) # << >> /\ m = C2s(new_fd)[1]
  <2>1. C2s(new_fd) # << >> /\ m = Head(C2s(new_fd))  BY DEF ServerGets, C2s
  <2>2. C2s(new_fd) \in Seq(Message)  BY <1>1 DEF TypeOK, C2s, ConnType
  <2> QED  BY <2>1, <2>2
<1>3. S2c(new_fd) = << >>  BY <1>1, <1>2 DEF OneMessageAt
<1>4. conn' = ServerCloses(cs, {new_fd}) /\ cs = ServerTurn(<< >>)  OBVIOUS
<1> HIDE DEF cs
<1>5. /\ cs \in [Conn -> ConnType]
      /\ \A j \in Conn : j # new_fd => cs[j] = conn[j]
      /\ cs[new_fd].c2s = << >> /\ cs[new_fd].s2c = << >>
      /\ cs[new_fd].cli <=> conn[new_fd].cli
  <2> DEFINE out == << >>
  <2>1. out \in Seq(Message) /\ cs = ServerTurn(out)  BY <1>4
  <2>2. out = << >>  OBVIOUS
  <2> HIDE DEF out
  <2>3. /\ cs \in [Conn -> ConnType]
        /\ \A j \in Conn : j # new_fd => cs[j] = conn[j]
        /\ cs[new_fd].c2s = << >>
        /\ cs[new_fd].s2c = IF conn[new_fd].cli THEN out ELSE << >>
        /\ cs[new_fd].cli <=> conn[new_fd].cli
    BY <1>1, <1>3, <2>1, ServerTurnOne
  <2> QED  BY <2>2, <2>3
<1>6. m.type = "peer" /\ m.val \in Client
  BY <1>1, <1>2 DEF SessionOk, OneMessageAt
<1>7. /\ s_ctx' \in [rdma_mem_size : Nat, rkey : Nat, qp : {"none", "INIT", "RTS"},
                     rem_qpn : Client \cup {NoClient}]
      /\ s_ctx'.rkey = s_ctx.rkey /\ s_ctx'.rdma_mem_size = s_ctx.rdma_mem_size
      /\ s_ctx'.rem_qpn = m.val
  <2> DEFINE r == s_ctx
             e == s_ctx'
             v == m.val
  <2>1. r \in [rdma_mem_size : Nat, rkey : Nat, qp : {"none", "INIT", "RTS"},
               rem_qpn : Client \cup {NoClient}]
    BY <1>1 DEF TypeOK
  <2>2. e = [r EXCEPT !.rem_qpn = v, !.qp = "RTS"] /\ v \in Client
    BY <1>6 DEF setup_rdma_2
  <2> HIDE DEF r, e, v
  <2>3. /\ e \in [rdma_mem_size : Nat, rkey : Nat, qp : {"none", "INIT", "RTS"},
                  rem_qpn : Client \cup {NoClient}]
        /\ e.rkey = r.rkey /\ e.rdma_mem_size = r.rdma_mem_size /\ e.rem_qpn = v
    BY Zenon, <2>1, <2>2
  <2> QED  BY <2>3 DEF r, e, v
<1>8. SessionOk'
  <2>1. \A c \in Client : rem_rkey[c] = s_ctx.rkey => m.val = c
    BY <1>1, <1>2 DEF SessionOk
  <2> QED  BY <1>1, <1>7, <2>1 DEF SessionOk, MaxRegion, clientVars
<1> QED  BY <1>1, <1>4, <1>5, <1>7, <1>8, InvServerCloses

(* The session ends. *)
LEMMA InvShutdown ==
  ASSUME Inv, Shutdown
  PROVE  Inv'
<1>1. /\ TypeOK /\ SessionOk /\ new_fd \in Conn /\ spc = "shutdown"
      /\ conn \in [Conn -> ConnType]
  BY DEF Inv, ServerSockets, Serving, TypeOK, Shutdown
<1>2. /\ conn' = ServerCloses(conn, {new_fd}) /\ new_fd' = 0 /\ spc' = "listen1"
      /\ UNCHANGED <<clientVars, last_rkey, listening, backlog>>
  BY DEF Shutdown
<1>3. /\ s_ctx' \in [rdma_mem_size : Nat, rkey : Nat, qp : {"none", "INIT", "RTS"},
                     rem_qpn : Client \cup {NoClient}]
      /\ s_ctx'.rkey = 0
  <2> DEFINE r == s_ctx
             e == s_ctx'
  <2>1. r \in [rdma_mem_size : Nat, rkey : Nat, qp : {"none", "INIT", "RTS"},
               rem_qpn : Client \cup {NoClient}]
    BY <1>1 DEF TypeOK
  <2>2. e = [r EXCEPT !.rkey = 0, !.qp = "none"]  BY DEF Shutdown
  <2> HIDE DEF r, e
  <2>3. /\ e \in [rdma_mem_size : Nat, rkey : Nat, qp : {"none", "INIT", "RTS"},
                  rem_qpn : Client \cup {NoClient}]
        /\ e.rkey = 0
    BY Zenon, <2>1, <2>2
  <2> QED  BY <2>3 DEF e
<1>4. SessionOk'  BY <1>2, <1>3 DEF SessionOk
<1> QED  BY <1>1, <1>2, <1>3, <1>4, InvServerCloses

-----------------------------------------------------------------------------
(* The invariant holds. *)

LEMMA InvInit ==
  ASSUME Init
  PROVE  Inv
<1>1. NoConn \in ConnType /\ NoConn.c2s = << >> /\ NoConn.s2c = << >>
  BY DEF NoConn, ConnType
<1>2. conn = [k \in Conn |-> NoConn]  BY DEF Init
<1> HIDE DEF NoConn
<1>3. conn \in [Conn -> ConnType] /\ \A k \in Conn : C2s(k) = << >> /\ S2c(k) = << >>
  BY <1>1, <1>2 DEF C2s, S2c
<1>4. TypeOK
  <2>1. /\ cpc \in [Client -> {"idle", "size", "boot", "setup", "up", "send", "recv"}]
        /\ loads \in [Client -> 0 .. MAX_LOADS]
        /\ sock \in [Client -> Conn \cup {0}]
        /\ rem_rkey \in [Client -> Nat]
        /\ cqp \in [Client -> {"RESET", "INIT", "RTR", "RTS"}]
    BY SessionAssumption DEF Init
  <2>2. /\ spc = "listen1" /\ new_fd \in Conn \cup {0} /\ last_rkey \in Nat
        /\ backlog \in Seq(Conn)
    BY DEF Init
  <2>3. listening \in BOOLEAN  BY Zenon DEF Init
  <2>4. s_ctx = NoSession  BY DEF Init
  <2> QED  BY <1>3, <2>1, <2>2, <2>3, <2>4, NoSessionType DEF TypeOK
<1>5. ServerSockets
  <2>1. Len(backlog) = 0  BY SMTT(30) DEF Init
  <2> QED  BY <2>1 DEF Init, ServerSockets, Serving
<1>6. OneMessage  BY SMTT(30), <1>3 DEF OneMessage, OneMessageAt
<1>7. OwnConnection  BY Zenon DEF Init, OwnConnection, Owner
<1>8. OneKey  BY <1>3, NoSessionType DEF Init, OneKey
<1>9. SessionOk  BY NoSessionType DEF Init, SessionOk
<1> QED  BY <1>4, <1>5, <1>6, <1>7, <1>8, <1>9 DEF Inv

(* The client's steps. *)
LEMMA InvClient ==
  ASSUME Inv, NEW c \in Client,
         \/ InitConnect(c) \/ ClientGoesOn(c) \/ ExitConnect(c)
         \/ InitFails(c) \/ ClientCrash(c)
         \/ \E q \in {"RESET", "INIT", "RTR"} : Setup(c, q)
  PROVE  Inv'
<1>1. /\ TypeOK /\ Owner(c) /\ loads \in [Client -> 0 .. MAX_LOADS]
      /\ cqp \in [Client -> {"RESET", "INIT", "RTR", "RTS"}] /\ MAX_LOADS \in Nat
      /\ sock[c] \in Conn \cup {0}
  BY SMTT(30), SessionAssumption DEF Inv, TypeOK, OwnConnection
<1>2. ASSUME NEW q \in {"RESET", "INIT", "RTR", "RTS"}, Setup(c, q)
      PROVE  Inv'
  <2>1. cqp' \in [Client -> {"RESET", "INIT", "RTR", "RTS"}]
    BY <1>1, <1>2 DEF Setup
  <2> QED  BY Zenon, <1>2, <2>1, InvClientLeaves DEF Setup
<1>3. CASE InitConnect(c)
  <2>1. loads' \in [Client -> 0 .. MAX_LOADS]
    <3>1. loads' = [loads EXCEPT ![c] = loads[c] + 1] /\ loads[c] < MAX_LOADS
      BY <1>3 DEF InitConnect
    <3>2. loads[c] + 1 \in 0 .. MAX_LOADS  BY Zenon, <1>1, <3>1, OneMore
    <3> QED  BY <1>1, <3>1, <3>2, Zenon
  <2>2. cqp' \in [Client -> {"RESET", "INIT", "RTR", "RTS"}]
    BY Zenon, <1>1, <1>3 DEF InitConnect
  <2>3. CASE listening
    BY Zenon, <1>3, <2>1, <2>2, <2>3, InvConnects DEF InitConnect
  <2>4. CASE ~listening
    BY Zenon, <1>3, <2>1, <2>2, <2>4, InvConnects DEF InitConnect
  <2> QED  BY <2>3, <2>4
<1>4. CASE ExitConnect(c)
  BY Zenon, <1>1, <1>4, InvConnects DEF ExitConnect
<1>5. CASE SendSize(c)
  <2>1. PICK n \in MemSize[c] : conn' = ClientSends(sock[c], Msg("size", n))
    BY Zenon, <1>5 DEF SendSize
  <2>2. n \in Nat  BY <2>1, SessionAssumption
  <2>3. Msg("size", n) \in Message  BY <2>2 DEF Msg, Message
  <2> QED  BY Zenon, <1>5, <2>1, <2>2, <2>3, InvClientSends DEF SendSize
<1>6. CASE TeardownSend(c)
  <2>1. Msg("teardown", 0) \in Message  BY DEF Msg, Message
  <2> QED  BY Zenon, <1>6, <2>1, InvClientSends DEF TeardownSend
<1>7. Received(sock[c]) = {} /\ CanReceive(sock[c]) =>
        sock[c] = 0 \/ ~conn[sock[c]].srv
  BY Zenon, <1>1 DEF Received, CanReceive
<1>8. CASE RecvBoot(c)
  <2>1. CASE Received(sock[c]) = {} /\ UNCHANGED <<rem_rkey, conn>>
    BY Zenon, <1>7, <1>8, <2>1, InvClientUnheard DEF RecvBoot, tcpVars
  <2>2. ASSUME NEW m \in Received(sock[c]),
               rem_rkey' = [rem_rkey EXCEPT ![c] = m.val],
               conn' = [conn EXCEPT
                          ![sock[c]].s2c = Tail(@),
                          ![sock[c]].c2s = IF conn[sock[c]].srv
                                           THEN Append(@, OwnData(c)) ELSE @]
        PROVE  Inv'
    BY Zenon, <1>8, <2>2, InvRecvBoot DEF RecvBoot
  <2> QED  BY Zenon, <1>8, <2>1, <2>2 DEF RecvBoot
<1>9. CASE TeardownRecv(c)
  <2>1. CASE Received(sock[c]) = {}
    BY <1>7, <1>9, <2>1, InvClientUnheard DEF TeardownRecv, tcpVars
  <2>2. CASE Received(sock[c]) # {}
    BY <1>1, <1>9, <2>2, InvClientLeaves DEF TeardownRecv
  <2> QED  BY <2>1, <2>2
<1>10. CASE InitFails(c)
  BY Zenon, <1>1, <1>10, InvClientLeaves DEF InitFails, tcpVars
<1>11. CASE ClientCrash(c)
  <2>1. cqp' \in [Client -> {"RESET", "INIT", "RTR", "RTS"}]
    BY <1>1, <1>11 DEF ClientCrash
  <2> QED  BY Zenon, <1>11, <2>1, InvClientLeaves DEF ClientCrash
<1> QED
  BY Zenon, <1>2, <1>3, <1>4, <1>5, <1>6, <1>8, <1>9, <1>10, <1>11 DEF ClientGoesOn

(* The server's steps. *)
LEMMA InvServer ==
  ASSUME Inv, Server \/ ServerFails \/ ServerStarts
  PROVE  Inv'
<1>1. CASE Listen
  <2>1. listening' = (spc' # "listen1")
    <3>1. listening' = TRUE /\ spc' # "listen1"  BY <1>1 DEF Listen
    <3> QED  BY <3>1, Zenon
  <2>2. /\ spc \in {"listen1", "listen2"} /\ spc' \in {"accept1", "accept2"}
        /\ s_ctx' = NoSession \/ s_ctx' = s_ctx
        /\ UNCHANGED <<clientVars, new_fd, last_rkey, backlog, conn>>
    BY <1>1 DEF Listen
  <2> QED  BY <2>1, <2>2, InvListens
<1>2. CASE ServerStarts
  <2>1. listening' = (spc' # "listen1")
    <3>1. ~listening /\ spc' = "listen1" /\ listening' = listening /\ listening \in BOOLEAN
      BY <1>2 DEF ServerStarts, Inv, TypeOK, ServerSockets, tcpVars
    <3> QED  BY <3>1, Zenon
  <2>2. /\ spc = "exited" /\ spc' = "listen1" /\ s_ctx' = s_ctx
        /\ UNCHANGED <<clientVars, new_fd, last_rkey, backlog, conn>>
    BY <1>2 DEF ServerStarts, tcpVars
  <2> QED  BY <2>1, <2>2, InvListens
<1>3. CASE Accept  BY <1>3, InvAccept
<1>4. CASE GetSize
  <2>1. CASE Exit  BY <2>1, InvExit
  <2>2. ASSUME NEW m \in ServerGets, NEW size \in handshake_get_memsize(m),
               size > 0, size <= MaxRegion,
               last_rkey' = NewKey, s_ctx' = setup_rdma_1(size),
               conn' = ServerTurn(<<BootstrapData>>), spc' = "getpeer",
               UNCHANGED <<clientVars, new_fd, listening, backlog>>
        PROVE  Inv'
    BY SMTT(30), <1>4, <2>2, InvGetSize DEF GetSize
  <2> QED  BY SMTT(30), <1>4, <2>1, <2>2 DEF GetSize
<1>5. CASE GetPeer
  <2>1. CASE Exit  BY <2>1, InvExit
  <2>2. ASSUME NEW m \in ServerGets,
               s_ctx' = [s_ctx EXCEPT !.rem_qpn = m.val, !.qp = setup_rdma_2],
               conn' = ServerCloses(ServerTurn(<< >>), {new_fd}),
               new_fd' = 0, spc' = "listen2",
               UNCHANGED <<clientVars, last_rkey, listening, backlog>>
        PROVE  Inv'
    BY Zenon, <1>5, <2>2, InvGetPeer DEF GetPeer
  <2> QED  BY ZenonT(30), <1>5, <2>1, <2>2 DEF GetPeer
<1>6. CASE WaitTeardown
  <2>1. CASE Exit  BY <2>1, InvExit
  <2>2. ASSUME NEW m \in ServerGets, conn' = ServerTurn(Answer(m)),
               spc' = IF m.type = "teardown" THEN "shutdown" ELSE "waittd",
               UNCHANGED <<clientVars, new_fd, s_ctx, last_rkey, listening, backlog>>
        PROVE  Inv'
    BY <1>6, <2>2, InvWaitTeardown DEF WaitTeardown
  <2> QED  BY <1>6, <2>1, <2>2 DEF WaitTeardown
<1>7. CASE Shutdown  BY <1>7, InvShutdown
<1>8. CASE ServerFails  BY <1>8, InvExit DEF ServerFails
<1> QED  BY SMTT(30), <1>1, <1>2, <1>3, <1>4, <1>5, <1>6, <1>7, <1>8 DEF Server

LEMMA InvNext ==
  ASSUME Inv, [FaultyNext]_vars
  PROVE  Inv'
<1>1. CASE FaultyNext
  BY SMTT(30), <1>1, InvClient, InvServer DEF FaultyNext, Next
<1>2. CASE UNCHANGED vars
  <2>1. UNCHANGED <<cpc, loads, sock, rem_rkey, cqp, spc, new_fd, s_ctx, last_rkey,
                    listening, backlog, conn>>
    BY <1>2 DEF vars, clientVars, serverVars, tcpVars
  <2>2. TypeOK'  BY <2>1, Zenon DEF Inv, TypeOK
  <2>3. ServerSockets'  BY Zenon, <2>1 DEF Inv, ServerSockets, S2c
  <2>4. OneMessage'  BY Zenon, <2>1 DEF Inv, OneMessage, OneMessageAt, C2s, S2c
  <2>5. OwnConnection'  BY Zenon, <2>1 DEF Inv, OwnConnection, Owner, C2s, S2c
  <2>6. OneKey'  BY Zenon, <2>1 DEF Inv, OneKey, S2c
  <2>7. SessionOk'  BY <2>1, SMTT(30) DEF Inv, SessionOk, MaxRegion, C2s, S2c
  <2> QED  BY <2>2, <2>3, <2>4, <2>5, <2>6, <2>7 DEF Inv
<1> QED  BY <1>1, <1>2

LEMMA FaultyInv == FaultySpec => []Inv
<1>1. Init => Inv  BY InvInit
<1>2. Inv /\ [FaultyNext]_vars => Inv'  BY InvNext
<1> QED  BY <1>1, <1>2, PTL DEF FaultySpec

(* rdma_init, rdma_exit and main keep their variables in their types,      *)
(* whatever crashes, restarts or fails.                                    *)
THEOREM SessionTypeOK == FaultySpec => []TypeOK
<1>1. Inv => TypeOK  BY DEF Inv
<1> QED  BY <1>1, FaultyInv, PTL

(* However large the buffer and the region a client asks for, the region   *)
(* setup_rdma_1 registers lies in the buffer main allocated.               *)
THEOREM SessionRegionInBuffer == FaultySpec => []RegionInBuffer
<1>1. Inv => RegionInBuffer
  BY RegionFits, SessionAssumption DEF Inv, TypeOK, SessionOk, RegionInBuffer
<1> QED  BY <1>1, FaultyInv, PTL

(* For any number of clients that come, crash and go, and any number of    *)
(* failures of the server, no two clients hold the key of one region, and  *)
(* the server's queue pair, once up, is connected to the client that holds *)
(* the key of the session.                                                 *)
THEOREM SessionOneClientPerRegion == FaultySpec => []OneClientPerRegion
<1>1. Inv => OneClientPerRegion
  BY DEF Inv, OneKey, SessionOk, OneClientPerRegion
<1> QED  BY <1>1, FaultyInv, PTL
=============================================================================
