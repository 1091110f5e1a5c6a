-------------------------- MODULE RmemModuleProofs --------------------------
(***************************************************************************)
(* For any number of servers, any size of devices[] and any sequence of    *)
(* failures, rmem_init and rmem_exit free every context exactly once, and  *)
(* rmem_exit undoes what rmem_init has made.                               *)
(*                                                                         *)
(* SessionsEnded is not inductive: what the clean-up loops do depends on   *)
(* devices[] holding exactly the devices that have a session, in the slot  *)
(* of their queue's id, up to the one rmem_init is working on.             *)
(***************************************************************************)
EXTENDS RmemModule, TLAPS

(* Server x has a device in slot k of devices[] or a later one. *)
From(k, x) == \E i \in Slot : k <= i /\ devices[i] = x

(* The server rmem_init is working on is out of devices[], or in the slot  *)
(* of its queue, which the label out will clear.                           *)
OnlyAtQueue ==
  /\ s \in Server
  /\ queue \in Slot => devices[queue] = s
  /\ \A i \in Slot : devices[i] = s => i = queue

(* What devices[] and the sessions have to do with each other at each      *)
(* place of rmem_init and rmem_exit.                                       *)
Sessions ==
  /\ pc \in {"unloaded", "failed"} => \A x \in Server : ~ctx[x]
  /\ pc = "wait" => /\ s = 1
                    /\ \A x \in Server : ~ctx[x]
                    /\ \A i \in Slot : devices[i] = NoneAt
  /\ pc \in {"server", "rdma_init", "loaded"} =>
       /\ \A x \in Server : ctx[x] <=> From(0, x)
       /\ \A i \in Slot : devices[i] < s
  /\ pc = "rdma_init" => queue = NULL /\ s \in Server
  /\ pc \in {"queue", "register", "disk", "out_unregister", "out_rdma_exit"} =>
       /\ s \in Server /\ ctx[s]
       /\ \A x \in Server : x # s => (ctx[x] <=> From(0, x))
       /\ \A i \in Slot : devices[i] <= s
  /\ pc = "queue" => queue = NULL /\ \A i \in Slot : devices[i] < s
  /\ pc \in {"register", "disk", "out_unregister"} => queue \in Slot /\ devices[queue] = s
  /\ pc \in {"out_rdma_exit", "out"} => OnlyAtQueue
  /\ pc = "out" => /\ ~ctx[s]
                   /\ \A x \in Server : x # s => (ctx[x] <=> From(0, x))
  /\ pc \in {"out_others", "exit", "exit_ctx"} =>
       \A x \in Server : ctx[x] <=> From(c, x)
  /\ pc = "exit_ctx" => c \in Slot /\ devices[c] # NoneAt

(* A server is in a session only while rmem_init has a context for it, or  *)
(* after its rdma_init failed.                                             *)
Occupied ==
  \A x \in Server :
    sess[x] => ctx[x] \/ (x = s /\ pc \in {"out", "out_others", "failed", "undefined"})

(* A device is in one slot only: that of its queue, until rmem_exit has    *)
(* cleaned up the queue.                                                   *)
OneSlot == \A i, j \in Slot : devices[i] = devices[j] /\ devices[i] # NoneAt => i = j
InQueueSlot ==
  pc \notin {"exit", "exit_ctx", "unloaded", "failed", "undefined"} =>
    \A i \in Slot : devices[i] # NoneAt => queues[devices[i]] = i

IInv == TypeOK /\ ~bug /\ Sessions /\ Occupied /\ OneSlot /\ InQueueSlot

-----------------------------------------------------------------------------
LEMMA InitIInv == Init => IInv
  <1> SUFFICES ASSUME Init PROVE IInv
    OBVIOUS
  <1> USE ModuleAssumption DEF Init, NULL, NoneAt
  <1>1. TypeOK /\ ~bug
    <2>1. s \in 1 .. N + 1 /\ c \in 0 .. DEVICE_BOUND
      OBVIOUS
    <2>2. devices \in [Slot -> Server \cup {NoneAt}] /\ queues \in [Server -> QueueId \cup {NULL}]
      OBVIOUS
    <2>3. /\ ctx \in [Server -> BOOLEAN] /\ sess \in [Server -> BOOLEAN] /\ cqs \subseteq Server
          /\ major \in [Server -> BOOLEAN] /\ disk \in [Server -> BOOLEAN]
      BY Zenon
    <2>4. /\ client \in BOOLEAN /\ ready \in BOOLEAN
          /\ added \subseteq IbDevice /\ ieh \subseteq IbDevice
          /\ dev \in IbDevice \cup {NoDevice}
          /\ bug \in BOOLEAN /\ ~bug
      BY Zenon
    <2> QED BY <2>1, <2>2, <2>3, <2>4 DEF TypeOK
  <1>2. Sessions /\ Occupied
    BY DEF Sessions, Occupied
  <1>3. OneSlot /\ InQueueSlot
    BY DEF OneSlot, InQueueSlot
  <1> QED BY <1>1, <1>2, <1>3 DEF IInv

(* add_device touches the library's state only. *)
LEMMA AddDeviceIInv ==
  ASSUME IInv, NEW d \in IbDevice, add_device(d)
  PROVE  IInv'
  BY ModuleAssumption DEF add_device, IInv, TypeOK, Sessions, Occupied, OneSlot, InQueueSlot, OnlyAtQueue, From, Server, Slot, NULL, NoneAt, sesVars, devVars, libVars

LEMMA InsmodIInv == IInv /\ Insmod => IInv'
  <1> SUFFICES ASSUME IInv, Insmod PROVE IInv'
    OBVIOUS
  <1> USE ModuleAssumption DEF Insmod, NULL, NoneAt, sesVars, devVars, libVars
  <1>1. TypeOK' /\ ~bug'
    <2>1. s' \in 1 .. N + 1 /\ c' \in 0 .. DEVICE_BOUND
      OBVIOUS
    <2>2. devices' \in [Slot -> Server \cup {NoneAt}]
      OBVIOUS
    <2>3. client' \in BOOLEAN /\ ready' \in BOOLEAN /\ dev' \in IbDevice \cup {NoDevice}
      BY Zenon
    <2> QED BY <2>1, <2>2, <2>3 DEF IInv, TypeOK
  <1>2. Sessions' /\ Occupied'
    BY DEF IInv, TypeOK, Sessions, Occupied, OneSlot, InQueueSlot, OnlyAtQueue, From, Server, Slot
  <1>3. OneSlot' /\ InQueueSlot'
    BY DEF IInv, TypeOK, Sessions, Occupied, OneSlot, InQueueSlot, OnlyAtQueue, Server, Slot
  <1> QED BY <1>1, <1>2, <1>3 DEF IInv

LEMMA ReadyIInv == IInv /\ Ready => IInv'
  BY ModuleAssumption DEF Ready, IInv, TypeOK, Sessions, Occupied, OneSlot, InQueueSlot, OnlyAtQueue, From, Server, Slot, NULL, NoneAt, sesVars, devVars, libVars

LEMMA NextServerIInv == IInv /\ NextServer => IInv'
  BY ModuleAssumption DEF NextServer, IInv, TypeOK, Sessions, Occupied, OneSlot, InQueueSlot, OnlyAtQueue, From, Server, Slot, NULL, NoneAt, sesVars, devVars, libVars

LEMMA LoadedIInv == IInv /\ Loaded => IInv'
  BY ModuleAssumption DEF Loaded, IInv, TypeOK, Sessions, Occupied, OneSlot, InQueueSlot, OnlyAtQueue, From, Server, Slot, NULL, NoneAt, sesVars, devVars, libVars

LEMMA RdmaInitIInv == IInv /\ RdmaInit => IInv'
  <1> SUFFICES ASSUME IInv, RdmaInit PROVE IInv'
    OBVIOUS
  <1> USE ModuleAssumption DEF NULL, NoneAt, devVars, libVars
  <1>0. PICK joined \in BOOLEAN : sess' = [sess EXCEPT ![s] = joined]
    BY DEF RdmaInit
  <1>1. TypeOK' /\ ~bug'
    <2>1. s \in Server
      BY DEF RdmaInit, IInv, Sessions
    <2>2. ctx' \in [Server -> BOOLEAN] /\ sess' \in [Server -> BOOLEAN] /\ cqs' \subseteq Server
      BY <1>0, <2>1 DEF RdmaInit, IInv, TypeOK
    <2> QED BY <2>2 DEF RdmaInit, IInv, TypeOK
  <1>2. Sessions'
    <2>1. /\ pc = "rdma_init" /\ pc' = "queue" /\ s' = s /\ queue' = queue /\ devices' = devices
          /\ ctx' = [ctx EXCEPT ![s] = TRUE]
      BY DEF RdmaInit
    <2>2. s \in Server /\ ctx'[s] /\ \A x \in Server : x # s => ctx'[x] = ctx[x]
      BY <2>1 DEF IInv, TypeOK, Sessions
    <2>3. \A i \in Slot : devices[i] \in Int
      BY DEF IInv, TypeOK, Server
    <2> QED BY <2>1, <2>2, <2>3 DEF IInv, Sessions, From, Server
  <1>3. Occupied'
    <2>1. \A x \in Server : x # s => sess'[x] = sess[x] /\ ctx'[x] = ctx[x]
      BY <1>0 DEF RdmaInit, IInv, TypeOK
    <2>2. s \in Server /\ ctx'[s]
      BY DEF RdmaInit, IInv, TypeOK, Sessions
    <2> QED BY <2>1, <2>2 DEF RdmaInit, IInv, Occupied
  <1>4. OneSlot' /\ InQueueSlot'
    BY DEF RdmaInit, IInv, OneSlot, InQueueSlot
  <1> QED BY <1>1, <1>2, <1>3, <1>4 DEF IInv

LEMMA RdmaInitFailsIInv == IInv /\ RdmaInitFails => IInv'
  <1> SUFFICES ASSUME IInv, RdmaInitFails PROVE IInv'
    OBVIOUS
  <1> USE ModuleAssumption DEF NULL, NoneAt, devVars, libVars
  <1>0. /\ pc = "rdma_init" /\ pc' = "out" /\ s' = s /\ queue' = queue
        /\ UNCHANGED <<c, ctx, devices, major, disk, queues, libVars, bug>>
    BY DEF RdmaInitFails
  <1>1. s \in Server /\ queue = NULL
    BY <1>0 DEF IInv, Sessions
  <1>2. \/ sess' = sess
        \/ \E joined \in BOOLEAN : sess' = [sess EXCEPT ![s] = joined]
    BY DEF RdmaInitFails
  <1>3. TypeOK' /\ ~bug'
    <2>1. sess' \in [Server -> BOOLEAN]
      BY <1>1, <1>2 DEF IInv, TypeOK
    <2>2. cqs' \subseteq Server
      BY <1>1 DEF RdmaInitFails, IInv, TypeOK
    <2> QED BY <1>0, <2>1, <2>2 DEF IInv, TypeOK
  <1>4. Sessions'
    <2>1. \A i \in Slot : devices[i] \in Int /\ devices[i] < s
      BY <1>0 DEF IInv, TypeOK, Sessions, Server
    <2>2. OnlyAtQueue'
      BY <1>0, <1>1, <2>1 DEF OnlyAtQueue, Slot, Server
    <2>3. ~ctx[s] /\ \A x \in Server : ctx[x] <=> From(0, x)
      BY <1>0, <1>1, <2>1 DEF IInv, Sessions, From, Server
    <2> QED BY <1>0, <2>2, <2>3 DEF Sessions, From
  <1>5. Occupied'
    <2>1. \A x \in Server : x # s => sess'[x] = sess[x]
      BY <1>2 DEF IInv, TypeOK
    <2> QED BY <1>0, <2>1 DEF IInv, Occupied
  <1>6. OneSlot' /\ InQueueSlot'
    BY <1>0 DEF IInv, OneSlot, InQueueSlot
  <1> QED BY <1>3, <1>4, <1>5, <1>6 DEF IInv

LEMMA RegisterBlkdevIInv == IInv /\ RegisterBlkdev => IInv'
  BY ModuleAssumption DEF RegisterBlkdev, IInv, TypeOK, Sessions, Occupied, OneSlot, InQueueSlot, OnlyAtQueue, From, Server, Slot, NULL, NoneAt, sesVars, devVars, libVars

LEMMA AddDiskIInv == IInv /\ AddDisk => IInv'
  <1> SUFFICES ASSUME IInv, AddDisk PROVE IInv'
    OBVIOUS
  <1> USE ModuleAssumption DEF AddDisk, NULL, NoneAt, sesVars, devVars, libVars
  <1>1. TypeOK' /\ ~bug'
    BY DEF IInv, TypeOK, Sessions, Server, Slot, From
  <1>2. Sessions' /\ Occupied'
    BY SMTT(90) DEF IInv, TypeOK, Sessions, Occupied, OneSlot, InQueueSlot, OnlyAtQueue, From, Server, Slot
  <1>3. OneSlot' /\ InQueueSlot'
    BY DEF IInv, TypeOK, Sessions, Occupied, OneSlot, InQueueSlot, OnlyAtQueue, Server, Slot
  <1> QED BY <1>1, <1>2, <1>3 DEF IInv

LEMMA FailIInv == IInv /\ Fail => IInv'
  BY ModuleAssumption DEF Fail, OnFailure, IInv, TypeOK, Sessions, Occupied, OneSlot, InQueueSlot, OnlyAtQueue, From, Server, Slot, NULL, NoneAt, sesVars, devVars, libVars

LEMMA OutUnregisterIInv == IInv /\ OutUnregister => IInv'
  BY ModuleAssumption DEF OutUnregister, IInv, TypeOK, Sessions, Occupied, OneSlot, InQueueSlot, OnlyAtQueue, From, Server, Slot, NULL, NoneAt, sesVars, devVars, libVars

LEMMA OutRdmaExitIInv == IInv /\ OutRdmaExit => IInv'
  BY ModuleAssumption DEF OutRdmaExit, rdma_exit, IInv, TypeOK, Sessions, Occupied, OneSlot, InQueueSlot, OnlyAtQueue, From, Server, Slot, NULL, NoneAt, sesVars, devVars, libVars

LEMMA OutIInv == IInv /\ Out => IInv'
  <1> SUFFICES ASSUME IInv, Out PROVE IInv'
    OBVIOUS
  <1> USE ModuleAssumption DEF Out, NULL, NoneAt, sesVars, devVars, libVars
  <1>1. TypeOK' /\ ~bug'
    BY DEF IInv, TypeOK, Sessions, Server, Slot, From
  <1>2. Sessions' /\ Occupied'
    BY SMTT(90) DEF IInv, TypeOK, Sessions, Occupied, OneSlot, InQueueSlot, OnlyAtQueue, From, Server, Slot
  <1>3. OneSlot' /\ InQueueSlot'
    BY DEF IInv, TypeOK, Sessions, Occupied, OneSlot, InQueueSlot, OnlyAtQueue, Server, Slot
  <1> QED BY <1>1, <1>2, <1>3 DEF IInv

LEMMA OutPastEndIInv == IInv /\ OutPastEnd => IInv'
  BY ModuleAssumption DEF OutPastEnd, IInv, TypeOK, Sessions, Occupied, OneSlot, InQueueSlot, OnlyAtQueue, From, Server, Slot, NULL, NoneAt, sesVars, devVars, libVars

LEMMA OutSkipIInv == IInv /\ OutSkip => IInv'
  BY ModuleAssumption DEF OutSkip, IInv, TypeOK, Sessions, Occupied, OneSlot, InQueueSlot, OnlyAtQueue, From, Server, Slot, NULL, NoneAt, sesVars, devVars, libVars

LEMMA OutOtherIInv == IInv /\ OutOther => IInv'
  <1> SUFFICES ASSUME IInv, OutOther PROVE IInv'
    OBVIOUS
  <1> USE ModuleAssumption DEF OutOther, rdma_exit, NULL, NoneAt, sesVars, devVars, libVars
  <1>1. TypeOK' /\ ~bug'
    <2>2. devices[c] # NoneAt
      OBVIOUS
    <2> QED
      <3>1. c \in Slot /\ devices[c] \in Server
        BY <2>2 DEF IInv, TypeOK, Slot
      <3>2. ctx[devices[c]]
        BY <3>1 DEF IInv, Sessions, From, TypeOK, Slot
      <3>3. /\ ctx' = [ctx EXCEPT ![devices[c]] = FALSE]
            /\ sess' = [sess EXCEPT ![devices[c]] = FALSE]
            /\ major' = [major EXCEPT ![devices[c]] = FALSE]
            /\ bug' = (bug \/ ~ctx[devices[c]])
        BY <2>2
      <3>4. ~bug' /\ bug' \in BOOLEAN
        BY <3>2, <3>3, Zenon DEF IInv, TypeOK
      <3>5. /\ ctx' \in [Server -> BOOLEAN] /\ sess' \in [Server -> BOOLEAN]
            /\ major' \in [Server -> BOOLEAN]
        BY <3>1, <3>3 DEF IInv, TypeOK
      <3>6. c' \in 0 .. DEVICE_BOUND
        BY <3>1 DEF IInv, TypeOK, Slot
      <3> QED BY <3>4, <3>5, <3>6 DEF IInv, TypeOK
  <1>2. Sessions' /\ Occupied'
    BY SMTT(30) DEF IInv, TypeOK, Sessions, Occupied, OneSlot, InQueueSlot, OnlyAtQueue, From, Server, Slot
  <1>3. OneSlot' /\ InQueueSlot'
    BY DEF IInv, TypeOK, Sessions, Occupied, OneSlot, InQueueSlot, OnlyAtQueue, Server, Slot
  <1> QED BY <1>1, <1>2, <1>3 DEF IInv

LEMMA OutReturnIInv == IInv /\ OutReturn => IInv'
  <1> SUFFICES ASSUME IInv, OutReturn PROVE IInv'
    OBVIOUS
  <1> USE ModuleAssumption DEF OutReturn, rdma_library_exit, NULL, NoneAt, sesVars, devVars, libVars
  <1>1. TypeOK' /\ ~bug'
    BY Zenon DEF IInv, TypeOK, Sessions, Server, Slot, From
  <1>2. Sessions' /\ Occupied'
    BY DEF IInv, TypeOK, Sessions, Occupied, OneSlot, InQueueSlot, OnlyAtQueue, From, Server, Slot
  <1>3. OneSlot' /\ InQueueSlot'
    BY DEF IInv, TypeOK, Sessions, Occupied, OneSlot, InQueueSlot, OnlyAtQueue, Server, Slot
  <1> QED BY <1>1, <1>2, <1>3 DEF IInv

LEMMA RmmodIInv == IInv /\ Rmmod => IInv'
  BY ModuleAssumption DEF Rmmod, IInv, TypeOK, Sessions, Occupied, OneSlot, InQueueSlot, OnlyAtQueue, From, Server, Slot, NULL, NoneAt, sesVars, devVars, libVars

LEMMA ExitSkipIInv == IInv /\ ExitSkip => IInv'
  BY ModuleAssumption DEF ExitSkip, IInv, TypeOK, Sessions, Occupied, OneSlot, InQueueSlot, OnlyAtQueue, From, Server, Slot, NULL, NoneAt, sesVars, devVars, libVars

LEMMA ExitDiskIInv == IInv /\ ExitDisk => IInv'
  BY ModuleAssumption DEF ExitDisk, IInv, TypeOK, Sessions, Occupied, OneSlot, InQueueSlot, OnlyAtQueue, From, Server, Slot, NULL, NoneAt, sesVars, devVars, libVars

LEMMA ExitDiskReusedIInv == IInv /\ ExitDiskReused => IInv'
  BY ModuleAssumption DEF ExitDiskReused, IInv, TypeOK, Sessions, Occupied, OneSlot, InQueueSlot, OnlyAtQueue, From, Server, Slot, NULL, NoneAt, sesVars, devVars, libVars

LEMMA ExitCtxIInv == IInv /\ ExitCtx => IInv'
  BY SMTT(30), ModuleAssumption DEF ExitCtx, rdma_exit, IInv, TypeOK, Sessions, Occupied, OneSlot, InQueueSlot, OnlyAtQueue, From, Server, Slot, NULL, NoneAt, sesVars, devVars, libVars

LEMMA ExitReturnIInv == IInv /\ ExitReturn => IInv'
  <1> SUFFICES ASSUME IInv, ExitReturn PROVE IInv'
    OBVIOUS
  <1> USE ModuleAssumption DEF ExitReturn, rdma_library_exit, NULL, NoneAt, sesVars, devVars, libVars
  <1>1. TypeOK' /\ ~bug'
    BY Zenon DEF IInv, TypeOK, Sessions, Server, Slot, From
  <1>2. Sessions' /\ Occupied'
    BY DEF IInv, TypeOK, Sessions, Occupied, OneSlot, InQueueSlot, OnlyAtQueue, From, Server, Slot
  <1>3. OneSlot' /\ InQueueSlot'
    BY DEF IInv, TypeOK, Sessions, Occupied, OneSlot, InQueueSlot, OnlyAtQueue, Server, Slot
  <1> QED BY <1>1, <1>2, <1>3 DEF IInv

LEMMA BlkInitQueueIInv ==
  ASSUME IInv, NEW id \in QueueId, BlkInitQueue(id)
  PROVE  IInv'
  <1> USE ModuleAssumption DEF BlkInitQueue, NULL, NoneAt, sesVars, devVars, libVars
  <1>1. TypeOK' /\ ~bug'
    BY DEF IInv, TypeOK, Sessions, Server, Slot, From
  <1>2. Sessions' /\ Occupied'
    BY SMTT(30) DEF IInv, TypeOK, Sessions, Occupied, OneSlot, InQueueSlot, OnlyAtQueue, From, Server, Slot
  <1>3. OneSlot' /\ InQueueSlot'
    BY SMTT(30) DEF IInv, TypeOK, Sessions, Occupied, OneSlot, InQueueSlot, OnlyAtQueue, Server, Slot
  <1> QED BY <1>1, <1>2, <1>3 DEF IInv

LEMMA NextIInv == IInv /\ [Next]_vars => IInv'
  <1> SUFFICES ASSUME IInv, [Next]_vars PROVE IInv'
    OBVIOUS
  <1>1. ASSUME NEW d \in IbDevice, add_device(d) PROVE IInv'
    BY <1>1, AddDeviceIInv
  <1>2. ASSUME NEW id \in QueueId, BlkInitQueue(id) PROVE IInv'
    BY <1>2, BlkInitQueueIInv
  <1>3. CASE \/ Insmod \/ Ready \/ NextServer \/ Loaded \/ RdmaInit \/ RdmaInitFails
             \/ RegisterBlkdev \/ AddDisk \/ Fail
    BY <1>3, InsmodIInv, ReadyIInv, NextServerIInv, LoadedIInv, RdmaInitIInv,
       RdmaInitFailsIInv, RegisterBlkdevIInv, AddDiskIInv, FailIInv
  <1>4. CASE \/ OutUnregister \/ OutRdmaExit \/ Out \/ OutPastEnd \/ OutOther
             \/ OutSkip \/ OutReturn
    BY <1>4, OutUnregisterIInv, OutRdmaExitIInv, OutIInv, OutPastEndIInv, OutOtherIInv,
       OutSkipIInv, OutReturnIInv
  <1>5. CASE rmem_exit
    BY <1>5, RmmodIInv, ExitSkipIInv, ExitDiskIInv, ExitDiskReusedIInv, ExitCtxIInv,
       ExitReturnIInv DEF rmem_exit
  <1>6. CASE UNCHANGED vars
    BY <1>6 DEF vars, sesVars, devVars, libVars, IInv, TypeOK, Sessions, Occupied, OneSlot, InQueueSlot,
         OnlyAtQueue, From
  <1> QED BY <1>1, <1>2, <1>3, <1>4, <1>5, <1>6 DEF Next, rmem_init, LocalStep, ServerCall

LEMMA ModuleIInv == Spec => []IInv
  BY InitIInv, NextIInv, PTL DEF Spec

(* Every variable keeps its type: a slot of devices[] holds a server or    *)
(* NULL, and c stays between 0 and DEVICE_BOUND.  Nothing bounds the id of *)
(* a queue: at the label out it may lie past the end of devices[].         *)
THEOREM ModuleTypeOK == Spec => []TypeOK
  <1>1. IInv => TypeOK
    BY DEF IInv
  <1> QED BY <1>1, ModuleIInv, PTL

(* Whatever steps of rmem_init fail, for any number of servers and any     *)
(* queue ids, rdma_exit is called exactly once for every context that      *)
(* rdma_init returned: when rmmod has returned no server is left in a      *)
(* session, and when insmod has failed at most the one whose rdma_init     *)
(* failed.                                                                 *)
THEOREM ModuleSessionsEnded == Spec => []SessionsEnded
  <1>1. IInv => SessionsEnded
    BY SMTT(30) DEF IInv, Sessions, Occupied, SessionsEnded
  <1> QED BY <1>1, ModuleIInv, PTL

-----------------------------------------------------------------------------
(* The server rmem_init is working on has no disk yet, so that its session *)
(* may end; rmem_exit takes a disk away before it ends the session.        *)
DisksInv ==
  /\ LiveDiskHasSession
  /\ pc \in {"server", "rdma_init", "queue", "register", "disk", "out_unregister",
             "out_rdma_exit", "out"} => \A x \in Server : disk[x] => x < s
  /\ pc = "exit_ctx" => ~disk[devices[c]]

LEMMA NextDisksInv ==
  ASSUME IInv, DisksInv, [Next]_vars
  PROVE  DisksInv'
  <1> USE DEF DisksInv, LiveDiskHasSession, sesVars, devVars, libVars
  <1>1. ASSUME NEW d \in IbDevice, add_device(d) PROVE DisksInv'
    BY <1>1 DEF add_device
  <1>2. ASSUME NEW id \in QueueId, BlkInitQueue(id) PROVE DisksInv'
    BY <1>2, ModuleAssumption DEF BlkInitQueue, Slot
  <1>3. CASE Insmod \/ NextServer \/ Loaded \/ RegisterBlkdev \/ Fail
    BY <1>3 DEF Insmod, NextServer, Loaded, RegisterBlkdev, Fail, OnFailure
  <1>4. CASE Ready \/ RdmaInit
    BY SMTT(30), <1>4 DEF Ready, RdmaInit, IInv, TypeOK, Sessions
  <1>5. CASE AddDisk
    BY SMTT(30), <1>5, ModuleAssumption DEF AddDisk, IInv, TypeOK, Sessions, Server
  <1>6. CASE \/ OutUnregister \/ Out \/ OutPastEnd \/ OutOther \/ OutSkip \/ OutReturn
             \/ RdmaInitFails
    BY <1>6 DEF OutUnregister, Out, OutPastEnd, OutOther, OutSkip, OutReturn, RdmaInitFails
  <1>7. CASE OutRdmaExit
    BY SMTT(30), <1>7, ModuleAssumption
       DEF OutRdmaExit, rdma_exit, IInv, TypeOK, Sessions, Server
  <1>8. CASE Rmmod \/ ExitSkip \/ ExitReturn
    BY <1>8 DEF Rmmod, ExitSkip, ExitReturn
  <1>9. CASE ExitDisk
    <2>1. devices[c] \in Server
      BY <1>9, ModuleAssumption DEF ExitDisk, IInv, TypeOK, Slot, NoneAt
    <2>2. disk' = [disk EXCEPT ![devices[c]] = FALSE] /\ UNCHANGED <<c, devices, ctx>>
      BY <1>9 DEF ExitDisk
    <2>3. ~disk'[devices[c]]
      BY <2>1, <2>2 DEF IInv, TypeOK
    <2>4. \A x \in Server : disk'[x] => disk[x]
      BY <2>1, <2>2 DEF IInv, TypeOK
    <2> QED BY <1>9, <2>2, <2>3, <2>4 DEF ExitDisk
  <1>9a. CASE ExitDiskReused
    <2>1. devices[c] \in Server
      BY <1>9a, ModuleAssumption DEF ExitDiskReused, IInv, TypeOK, Slot, NoneAt
    <2>2. disk' = [disk EXCEPT ![devices[c]] = FALSE] /\ UNCHANGED <<c, devices, ctx>>
      BY <1>9a DEF ExitDiskReused
    <2>3. \A x \in Server : disk'[x] => disk[x]
      BY <2>1, <2>2 DEF IInv, TypeOK
    <2> QED BY <1>9a, <2>2, <2>3 DEF ExitDiskReused
  <1>10. CASE ExitCtx
    BY SMTT(30), <1>10 DEF ExitCtx, rdma_exit, IInv, TypeOK, Sessions
  <1>11. CASE UNCHANGED vars
    BY <1>11 DEF vars
  <1> QED BY <1>1, <1>2, <1>3, <1>4, <1>5, <1>6, <1>7, <1>8, <1>9, <1>9a, <1>10, <1>11
          DEF Next, rmem_init, LocalStep, ServerCall, rmem_exit

(* Whatever fails, a disk that is there has its session, up to the loop at *)
(* the label out that undoes the devices made before the one that failed:  *)
(* until then the request function never sees a context that rdma_exit has *)
(* freed.                                                                  *)
THEOREM ModuleLiveDisks == Spec => []LiveDiskHasSession
  <1>1. Init => DisksInv
    BY DEF Init, DisksInv, LiveDiskHasSession
  <1>2. IInv /\ DisksInv /\ [Next]_vars => DisksInv'
    BY NextDisksInv
  <1>3. DisksInv => LiveDiskHasSession
    BY DEF DisksInv
  <1> QED BY <1>1, <1>2, <1>3, ModuleIInv, PTL DEF Spec

-----------------------------------------------------------------------------
(* What has been made for a server, besides its session.  On the way to    *)
(* rmmod it belongs to a device in devices[] that the loop of rmem_exit    *)
(* still comes to, or to the server rmem_init is working on.               *)
Made(x) == disk[x] \/ major[x] \/ queues[x] # NULL

LeftInv ==
  /\ ieh \subseteq Right
  /\ pc = "unloaded" => ~client /\ dev \notin ieh
  /\ pc \in {"unloaded", "wait"} => \A x \in Server : ~Made(x)
  /\ pc \in {"server", "rdma_init", "loaded"} => \A x \in Server : Made(x) => From(0, x)
  /\ pc \in {"queue", "register", "disk"} =>
       \A x \in Server : x # s /\ Made(x) => From(0, x)
  /\ pc = "exit" => \A x \in Server : Made(x) => From(c, x)
  /\ pc = "exit_ctx" => \A x \in Server : Made(x) => From(c + 1, x)

LEMMA NextLeftInv ==
  ASSUME IInv, IInv', LeftInv, [Next]_vars
  PROVE  LeftInv'
  <1> USE DEF sesVars, devVars, libVars
  <1>1. ASSUME NEW d \in IbDevice, add_device(d) PROVE LeftInv'
    BY <1>1 DEF add_device, LeftInv, Made, From
  <1>2. ASSUME NEW id \in QueueId, BlkInitQueue(id) PROVE LeftInv'
    <2>1. /\ pc = "queue" /\ pc' \in {"register", "out_rdma_exit"} /\ s' = s
          /\ UNCHANGED <<ctx, major, disk, libVars>>
          /\ queues' = [queues EXCEPT ![s] = id]
      BY <1>2 DEF BlkInitQueue
    <2>2. \A x \in Server : x # s => (Made(x)' <=> Made(x))
      BY <2>1 DEF IInv, TypeOK, Made
    <2>3. \A x \in Server : x # s => (From(0, x)' <=> From(0, x))
      BY <2>1 DEF IInv, Sessions
    <2> QED BY <2>1, <2>2, <2>3 DEF LeftInv
  <1>3. CASE Insmod \/ Ready \/ NextServer \/ Loaded \/ RdmaInit \/ RdmaInitFails \/ Rmmod
    BY <1>3 DEF Insmod, Ready, NextServer, Loaded, RdmaInit, RdmaInitFails, Rmmod,
         LeftInv, Made, From
  <1>4. CASE RegisterBlkdev
    <2>1. /\ pc = "register" /\ pc' = "disk" /\ s' = s
          /\ UNCHANGED <<devices, disk, queues, libVars>>
          /\ major' = [major EXCEPT ![s] = TRUE]
      BY <1>4 DEF RegisterBlkdev
    <2>2. \A x \in Server : x # s => (Made(x)' <=> Made(x))
      BY <2>1 DEF IInv, TypeOK, Made
    <2> QED BY <2>1, <2>2 DEF LeftInv, From
  <1>5. CASE AddDisk
    <2>1. /\ pc = "disk" /\ pc' = "server"
          /\ UNCHANGED <<devices, major, queues, libVars>>
          /\ disk' = [disk EXCEPT ![s] = TRUE]
      BY <1>5 DEF AddDisk
    <2>2. \A x \in Server : x # s => (Made(x)' <=> Made(x))
      BY <2>1 DEF IInv, TypeOK, Made
    <2>3. From(0, s)
      BY <2>1, ModuleAssumption DEF IInv, Sessions, From, Slot
    <2> QED BY <2>1, <2>2, <2>3 DEF LeftInv, From
  <1>6. CASE \/ Fail \/ OutUnregister \/ OutRdmaExit \/ Out \/ OutPastEnd \/ OutOther
             \/ OutSkip \/ ExitDiskReused
    <2>1. pc' \in {"out_rdma_exit", "out_unregister", "out", "out_others", "undefined"}
      BY <1>6 DEF Fail, OnFailure, OutUnregister, OutRdmaExit, Out, OutPastEnd, OutOther,
           OutSkip, ExitDiskReused
    <2>2. ieh' = ieh
      BY <1>6 DEF Fail, OutUnregister, OutRdmaExit, Out, OutPastEnd, OutOther,
           OutSkip, ExitDiskReused
    <2> QED BY <2>1, <2>2 DEF LeftInv
  <1>7. CASE OutReturn
    BY <1>7 DEF OutReturn, rdma_library_exit, LeftInv
  <1>8. CASE ExitSkip
    <2>1. \A x \in Server : From(c, x) => From(c + 1, x)
      BY <1>8, ModuleAssumption DEF ExitSkip, IInv, TypeOK, From, Slot, Server, NoneAt
    <2> QED BY <1>8, <2>1 DEF ExitSkip, LeftInv, Made, From
  <1>9. CASE ExitDisk
    <2>1. devices[c] \in Server /\ c \in Slot
      BY <1>9, ModuleAssumption DEF ExitDisk, IInv, TypeOK, Slot, NoneAt
    <2>2. /\ pc = "exit" /\ pc' = "exit_ctx" /\ UNCHANGED <<c, devices, libVars>>
          /\ disk' = [disk EXCEPT ![devices[c]] = FALSE]
          /\ major' = [major EXCEPT ![devices[c]] = FALSE]
          /\ queues' = [queues EXCEPT ![devices[c]] = NULL]
      BY <1>9 DEF ExitDisk
    <2>3. ~Made(devices[c])'
      BY <2>1, <2>2 DEF IInv, TypeOK, Made
    <2>4. \A x \in Server : x # devices[c] /\ Made(x)' => Made(x)
      BY <2>1, <2>2 DEF IInv, TypeOK, Made
    <2>5. \A x \in Server : x # devices[c] /\ From(c, x) => From(c + 1, x)
      BY <2>1, ModuleAssumption DEF From, Slot
    <2> QED BY <2>1, <2>2, <2>3, <2>4, <2>5 DEF LeftInv, From
  <1>10. CASE ExitCtx
    <2>1. c \in Slot
      BY <1>10 DEF ExitCtx, IInv, Sessions
    <2>2. /\ pc = "exit_ctx" /\ pc' = "exit" /\ c' = c + 1
          /\ UNCHANGED <<major, disk, queues, libVars>>
          /\ devices' = [devices EXCEPT ![c] = NoneAt]
      BY <1>10 DEF ExitCtx
    <2>3. \A x \in Server : From(c + 1, x) => From(c, x)'
      BY <2>1, <2>2, ModuleAssumption DEF IInv, TypeOK, From, Slot
    <2> QED BY <2>2, <2>3 DEF LeftInv, Made
  <1>11. CASE ExitReturn
    <2>1. \A x \in Server : ~From(c, x)
      BY <1>11, ModuleAssumption DEF ExitReturn, From, Slot
    <2> QED BY <1>11, <2>1 DEF ExitReturn, rdma_library_exit, LeftInv, Made
  <1>12. CASE UNCHANGED vars
    BY <1>12 DEF vars, LeftInv, Made, From
  <1> QED BY <1>1, <1>2, <1>3, <1>4, <1>5, <1>6, <1>7, <1>8, <1>9, <1>10, <1>11, <1>12
          DEF Next, rmem_init, LocalStep, ServerCall, rmem_exit

(* For any number of servers, slots and InfiniBand devices: after rmmod no *)
(* disk, queue, major or client is left, and no event handler on the       *)
(* device in use.                                                          *)
THEOREM ModuleNothingLeft == Spec => []NothingLeft
  <1>1. Init => LeftInv
    BY DEF Init, LeftInv, Made, NULL
  <1>2. IInv /\ IInv' /\ LeftInv /\ [Next]_vars => LeftInv'
    BY NextLeftInv
  <1>3. LeftInv => NothingLeft
    BY DEF LeftInv, NothingLeft, Made
  <1> QED BY <1>1, <1>2, <1>3, ModuleIInv, PTL DEF Spec
=============================================================================
