----------------------------- MODULE RmemModule -----------------------------
(***************************************************************************)
(* Loading and unloading rmem_rdma: rmem_init and rmem_exit, with the      *)
(* part of rdma_library.c that registers with the InfiniBand core.         *)
(*                                                                         *)
(* rmem_init registers the library as a client of the InfiniBand core,     *)
(* waits until add_device has found the right device, and then makes, for  *)
(* every server of the module parameter, a session (rdma_init), a queue,   *)
(* a block device major and a disk.  When a step fails, the labels out*    *)
(* undo what was made.  What a session is is the subject of Session: here  *)
(* rdma_init and rdma_exit are one step each, which may never come, since  *)
(* both wait for the server.                                               *)
(*                                                                         *)
(* pc = "undefined" is where the code has read or written memory that is   *)
(* not its own with an effect: the model says nothing of what follows.     *)
(***************************************************************************)
EXTENDS Integers, FiniteSets

CONSTANTS
  N,              \* servers the module parameter names
  DEVICE_BOUND,   \* conf.h: entries of devices[]
  QueueId,        \* the ids blk_init_queue may give to a queue
  IbDevice,       \* the host's InfiniBand devices
  Right,          \* those whose port has the MTU the driver looks for
  NoDevice        \* NULL, as a pointer to an InfiniBand device

Server == 1 .. N
Slot   == 0 .. DEVICE_BOUND - 1
NULL   == -1
NoneAt == 0      \* the entry of devices[] that is NULL

ASSUME ModuleAssumption ==
  /\ N \in Nat
  /\ DEVICE_BOUND \in Nat \ {0}
  /\ QueueId \subseteq Nat
  /\ Right \subseteq IbDevice
  /\ NoDevice \notin IbDevice

VARIABLES
  pc,         \* where rmem_init or rmem_exit is
  s,          \* the server rmem_init is at
  c,          \* the slot the clean-up loops are at
  queue,      \* rmem_init's variable: the id of the queue, or NULL
  devices,    \* Slot -> the server whose device it holds, or NoneAt
  ctx,        \* Server -> whether rmem_init has a context for it
  sess,       \* Server -> whether it is in a session with this client
  cqs,        \* the servers for which completion queues have been made
  major,      \* Server -> whether its block device is registered
  disk,       \* Server -> whether its disk has been added
  queues,     \* Server -> the id of its queue, or NULL
  client,     \* whether the library is a client of the InfiniBand core
  added,      \* the devices add_device has been called for
  dev,        \* rdma_ib_device.dev
  ready,      \* rdma_ib_device.ready_to_use
  ieh,        \* the devices that have our event handler
  bug         \* rdma_exit has been called without a context

sesVars == <<ctx, sess, cqs>>
devVars == <<devices, major, disk, queues>>
libVars == <<client, added, dev, ready, ieh>>
vars    == <<pc, s, c, queue, sesVars, devVars, libVars, bug>>

Init ==
  /\ pc = "unloaded"
  /\ s = 1 /\ c = 0 /\ queue = NULL
  /\ devices = [i \in Slot |-> NoneAt]
  /\ ctx = [x \in Server |-> FALSE]
  /\ sess = [x \in Server |-> FALSE]
  /\ cqs = {}
  /\ major = [x \in Server |-> FALSE]
  /\ disk = [x \in Server |-> FALSE]
  /\ queues = [x \in Server |-> NULL]
  /\ client = FALSE /\ added = {} /\ dev = NoDevice /\ ready = FALSE /\ ieh = {}
  /\ bug = FALSE

-----------------------------------------------------------------------------
(* rdma_library.c *)

(* Mutant: ready_to_use is not set. *)
add_device_NotReady(d) ==
  /\ client /\ d \notin added
  /\ added' = added \cup {d}
  /\ dev' = IF d \in Right THEN d ELSE dev
  /\ ieh' = IF d \in Right THEN ieh \cup {d} ELSE ieh
  /\ UNCHANGED <<pc, s, c, queue, sesVars, devVars, client, ready, bug>>

(* The InfiniBand core calls add_device for every device there is when the *)
(* client registers, and for one that appears later.                       *)
add_device(d) ==
  /\ client /\ d \notin added
  /\ added' = added \cup {d}
  /\ dev' = IF d \in Right THEN d ELSE dev
  /\ ieh' = IF d \in Right THEN ieh \cup {d} ELSE ieh
  /\ ready' = (ready \/ d \in Right)
  /\ UNCHANGED <<pc, s, c, queue, sesVars, devVars, client, bug>>

(* Mutant: the event handler stays registered. *)
rdma_library_exit_Handler ==
  /\ client' = FALSE
  /\ added' = {}
  /\ UNCHANGED <<dev, ready, ieh>>

(* rdma_library_exit: the event handler is removed from the device it was  *)
(* registered with last.                                                   *)
rdma_library_exit ==
  /\ ieh' = ieh \ {dev}
  /\ client' = FALSE
  /\ added' = {}
  /\ UNCHANGED <<dev, ready>>

(* rdma_exit returns: the server has answered, so the session is over, and *)
(* the context is freed.  Neither the completion queues nor the queue pair *)
(* are destroyed.                                                          *)
rdma_exit(x) ==
  /\ ctx' = [ctx EXCEPT ![x] = FALSE]
  /\ sess' = [sess EXCEPT ![x] = FALSE]
  /\ bug' = (bug \/ ~ctx[x])
  /\ UNCHANGED cqs

-----------------------------------------------------------------------------
(* rmem_init *)

(* devices[] is cleared, and rdma_library_init clears the library's state  *)
(* and registers the client.                                               *)
Insmod ==
  /\ pc = "unloaded"
  /\ pc' = "wait"
  /\ s' = 1 /\ c' = 0
  /\ devices' = [i \in Slot |-> NoneAt]
  /\ client' = TRUE /\ dev' = NoDevice /\ ready' = FALSE
  /\ UNCHANGED <<queue, sesVars, major, disk, queues, added, ieh, bug>>

(* while(!rdma_library_ready()); *)
Ready ==
  /\ pc = "wait" /\ ready
  /\ pc' = "server"
  /\ UNCHANGED <<s, c, queue, sesVars, devVars, libVars, bug>>

(* Mutant: queue keeps its value of the previous server. *)
NextServer_KeepQueue ==
  /\ pc = "server" /\ s <= N
  /\ pc' = "rdma_init"
  /\ UNCHANGED <<s, c, queue, sesVars, devVars, libVars, bug>>

(* The next server of the parameter.  simple_strtol sets tmp_end_p to the  *)
(* first character that is no digit, which is never NULL: a port that is   *)
(* no number is taken.                                                     *)
NextServer ==
  /\ pc = "server" /\ s <= N
  /\ queue' = NULL
  /\ pc' = "rdma_init"
  /\ UNCHANGED <<s, c, sesVars, devVars, libVars, bug>>

(* There is no other server. *)
Loaded ==
  /\ pc = "server" /\ s = N + 1
  /\ queue' = NULL
  /\ pc' = "loaded"
  /\ UNCHANGED <<s, c, sesVars, devVars, libVars, bug>>

(* rdma_init returns a context.  The server need not be in the session:    *)
(* Session shows a client whose connection was reset.                      *)
RdmaInit ==
  /\ pc = "rdma_init"
  /\ ctx' = [ctx EXCEPT ![s] = TRUE]
  /\ \E joined \in BOOLEAN : sess' = [sess EXCEPT ![s] = joined]
  /\ cqs' = cqs \cup {s}
  /\ pc' = "queue"
  /\ UNCHANGED <<s, c, queue, devVars, libVars, bug>>

(* rdma_init returns NULL and leaves what it has made: the completion      *)
(* queues, if it got that far, and the socket, on which the server stays   *)
(* in the session.                                                         *)
RdmaInitFails ==
  /\ pc = "rdma_init"
  /\ \/ UNCHANGED <<cqs, sess>>
     \/ /\ cqs' = cqs \cup {s}
        /\ \E joined \in BOOLEAN : sess' = [sess EXCEPT ![s] = joined]
  /\ pc' = "out"
  /\ UNCHANGED <<s, c, queue, ctx, devVars, libVars, bug>>

(* blk_init_queue; the queue's id is the index into devices[]. *)
BlkInitQueue(id) ==
  /\ pc = "queue" /\ \A x \in Server : queues[x] # id
  /\ queue' = id
  /\ queues' = [queues EXCEPT ![s] = id]
  /\ \/ /\ id < DEVICE_BOUND
        /\ devices' = [devices EXCEPT ![id] = s]
        /\ pc' = "register"
     \/ /\ id >= DEVICE_BOUND
        /\ pc' = "out_rdma_exit"
        /\ UNCHANGED devices
  /\ UNCHANGED <<s, c, sesVars, major, disk, libVars, bug>>

RegisterBlkdev ==
  /\ pc = "register"
  /\ major' = [major EXCEPT ![s] = TRUE]
  /\ pc' = "disk"
  /\ UNCHANGED <<s, c, queue, sesVars, devices, disk, queues, libVars, bug>>

(* Mutant: the loop consumes the words of two servers. *)
AddDisk_Two ==
  /\ pc = "disk"
  /\ disk' = [disk EXCEPT ![s] = TRUE]
  /\ s' = s + 2
  /\ pc' = "server"
  /\ UNCHANGED <<c, queue, sesVars, devices, major, queues, libVars, bug>>

AddDisk ==
  /\ pc = "disk"
  /\ disk' = [disk EXCEPT ![s] = TRUE]
  /\ s' = s + 1
  /\ pc' = "server"
  /\ UNCHANGED <<c, queue, sesVars, devices, major, queues, libVars, bug>>

(* A later step of rmem_init fails: where it goes to. *)
OnFailure ==
  [queue |-> "out_rdma_exit", register |-> "out_rdma_exit", disk |-> "out_unregister"]

Fail ==
  /\ pc \in DOMAIN OnFailure
  /\ pc' = OnFailure[pc]
  /\ UNCHANGED <<s, c, queue, sesVars, devVars, libVars, bug>>

OutUnregister ==
  /\ pc = "out_unregister"
  /\ major' = [major EXCEPT ![s] = FALSE]
  /\ pc' = "out_rdma_exit"
  /\ UNCHANGED <<s, c, queue, sesVars, devices, disk, queues, libVars, bug>>

OutRdmaExit ==
  /\ pc = "out_rdma_exit"
  /\ rdma_exit(s)
  /\ pc' = "out"
  /\ UNCHANGED <<s, c, queue, devVars, libVars>>

(* The device that failed is taken out of devices[].  *)
Out ==
  /\ pc = "out" /\ queue \in Slot \cup {NULL}
  /\ devices' = [i \in Slot |-> IF i = queue THEN NoneAt ELSE devices[i]]
  /\ c' = 0
  /\ pc' = "out_others"
  /\ UNCHANGED <<s, queue, sesVars, major, disk, queues, libVars, bug>>

(* The same for an id past the end of devices[], which led here from the   *)
(* check of the id.  The word at that place is read, and cleared unless it *)
(* happens to be 0.                                                        *)
OutPastEnd ==
  /\ pc = "out" /\ queue \notin Slot \cup {NULL}
  /\ c' = 0
  /\ pc' \in {"out_others", "undefined"}
  /\ UNCHANGED <<s, queue, sesVars, devVars, libVars, bug>>

(* The devices made before it lose their majors and sessions; their disks  *)
(* and queues stay.                                                        *)
OutOther ==
  /\ pc = "out_others" /\ c < DEVICE_BOUND
  /\ c' = c + 1
  /\ devices[c] # NoneAt
  /\ major' = [major EXCEPT ![devices[c]] = FALSE]
  /\ rdma_exit(devices[c])
  /\ UNCHANGED <<pc, s, queue, devices, disk, queues, libVars>>

OutSkip ==
  /\ pc = "out_others" /\ c < DEVICE_BOUND
  /\ c' = c + 1
  /\ devices[c] = NoneAt
  /\ UNCHANGED <<pc, s, queue, sesVars, devVars, libVars, bug>>

OutReturn ==
  /\ pc = "out_others" /\ c = DEVICE_BOUND
  /\ rdma_library_exit
  /\ pc' = "failed"
  /\ UNCHANGED <<s, c, queue, sesVars, devVars, bug>>

-----------------------------------------------------------------------------
(* rmem_exit.  No disk is open: an open block device holds a reference to  *)
(* the module (rmem_ops.owner).                                            *)

Rmmod ==
  /\ pc = "loaded"
  /\ c' = 0
  /\ pc' = "exit"
  /\ UNCHANGED <<s, queue, sesVars, devVars, libVars, bug>>

ExitSkip ==
  /\ pc = "exit" /\ c < DEVICE_BOUND /\ devices[c] = NoneAt
  /\ c' = c + 1
  /\ UNCHANGED <<pc, s, queue, sesVars, devVars, libVars, bug>>

(* Mutant: the session ends first. *)
ExitDisk_Session ==
  /\ pc = "exit" /\ c < DEVICE_BOUND /\ devices[c] # NoneAt
  /\ rdma_exit(devices[c])
  /\ pc' = "exit_ctx"
  /\ UNCHANGED <<s, c, queue, devVars, libVars>>

(* del_gendisk, put_disk, unregister_blkdev, blk_cleanup_queue.  The last  *)
(* two take the name and the queue from the gendisk that put_disk has      *)
(* freed: this is what happens when the memory still holds them.           *)
ExitDisk ==
  /\ pc = "exit" /\ c < DEVICE_BOUND /\ devices[c] # NoneAt
  /\ disk' = [disk EXCEPT ![devices[c]] = FALSE]
  /\ major' = [major EXCEPT ![devices[c]] = FALSE]
  /\ queues' = [queues EXCEPT ![devices[c]] = NULL]
  /\ pc' = "exit_ctx"
  /\ UNCHANGED <<s, c, queue, sesVars, devices, libVars, bug>>

(* The same when the memory of the gendisk has been reused. *)
ExitDiskReused ==
  /\ pc = "exit" /\ c < DEVICE_BOUND /\ devices[c] # NoneAt
  /\ disk' = [disk EXCEPT ![devices[c]] = FALSE]
  /\ pc' = "undefined"
  /\ UNCHANGED <<s, c, queue, sesVars, devices, major, queues, libVars, bug>>

ExitCtx ==
  /\ pc = "exit_ctx"
  /\ rdma_exit(devices[c])
  /\ devices' = [devices EXCEPT ![c] = NoneAt]
  /\ c' = c + 1
  /\ pc' = "exit"
  /\ UNCHANGED <<s, queue, major, disk, queues, libVars>>

ExitReturn ==
  /\ pc = "exit" /\ c = DEVICE_BOUND
  /\ rdma_library_exit
  /\ pc' = "unloaded"
  /\ UNCHANGED <<s, c, queue, sesVars, devVars, bug>>

-----------------------------------------------------------------------------
(* The steps of rmem_init in which it waits for a server. *)
ServerCall ==
  \/ RdmaInit
  \/ RdmaInitFails
  \/ OutRdmaExit
  \/ OutOther

(* Its other steps, which return. *)
LocalStep ==
  \/ Ready
  \/ NextServer
  \/ Loaded
  \/ \E id \in QueueId : BlkInitQueue(id)
  \/ RegisterBlkdev
  \/ AddDisk
  \/ Fail
  \/ OutUnregister
  \/ Out
  \/ OutPastEnd
  \/ OutSkip
  \/ OutReturn

rmem_init == Insmod \/ LocalStep \/ ServerCall

rmem_exit ==
  \/ Rmmod
  \/ ExitSkip
  \/ ExitDisk
  \/ ExitDiskReused
  \/ ExitCtx
  \/ ExitReturn

Next ==
  \/ \E d \in IbDevice : add_device(d)
  \/ rmem_init
  \/ rmem_exit

Spec == Init /\ [][Next]_vars

(* The thread that runs insmod keeps going, but rdma_init and rdma_exit    *)
(* may wait for a server for ever.  The InfiniBand core calls add_device   *)
(* for the devices there are.                                              *)
FairSpec ==
  Spec /\ WF_vars(LocalStep) /\ \A d \in IbDevice : WF_vars(add_device(d))

-----------------------------------------------------------------------------
(* Properties. *)

TypeOK ==
  /\ pc \in {"unloaded", "wait", "server", "rdma_init", "queue", "register", "disk",
             "loaded", "out_unregister", "out_rdma_exit", "out", "out_others",
             "failed", "exit", "exit_ctx", "undefined"}
  /\ s \in 1 .. N + 1
  /\ c \in 0 .. DEVICE_BOUND
  /\ queue \in QueueId \cup {NULL}
  /\ devices \in [Slot -> Server \cup {NoneAt}]
  /\ ctx \in [Server -> BOOLEAN]
  /\ sess \in [Server -> BOOLEAN]
  /\ cqs \subseteq Server
  /\ major \in [Server -> BOOLEAN]
  /\ disk \in [Server -> BOOLEAN]
  /\ queues \in [Server -> QueueId \cup {NULL}]
  /\ client \in BOOLEAN /\ ready \in BOOLEAN
  /\ added \subseteq IbDevice /\ ieh \subseteq IbDevice
  /\ dev \in IbDevice \cup {NoDevice}
  /\ bug \in BOOLEAN

(* Whatever step of rmem_init fails, and after rmmod, rdma_exit has been   *)
(* called exactly once for every context rdma_init returned.  So when      *)
(* rmmod returns no server is left in a session, and when insmod returns   *)
(* an error at most the one whose rdma_init failed is: it failed after     *)
(* connect, and nothing tells the server.                                  *)
SessionsEnded ==
  /\ ~bug
  /\ pc \in {"failed", "unloaded"} =>
       \A x \in Server : ~ctx[x] /\ (sess[x] => pc = "failed" /\ x = s)

(* What rmem_init has made and rmem_exit is to undo is gone when rmmod has *)
(* returned: disks, queues, majors, the client of the InfiniBand core, and *)
(* the event handler of the device in use.  Two things stay that refer to  *)
(* the module's code: the completion queues (cqs), and the event handler   *)
(* of a right device that add_device has replaced by another.              *)
NothingLeft ==
  pc = "unloaded" =>
    /\ ~client /\ ieh \subseteq Right \ {dev}
    /\ \A x \in Server : ~disk[x] /\ ~major[x] /\ queues[x] = NULL

(* A disk that has been added has a context, so its request function never *)
(* runs on one that rdma_exit has freed: while other servers are being     *)
(* added, when adding one of them fails, up to the loop that undoes the    *)
(* devices made before it, and during rmmod.  (That loop ends their        *)
(* sessions and leaves the disks.)                                         *)
LiveDiskHasSession ==
  pc \notin {"out_others", "failed"} => \A x \in Server : disk[x] => ctx[x]

(* rmem_init is waiting for a server, in rdma_init or rdma_exit. *)
AtServer ==
  \/ pc \in {"rdma_init", "out_rdma_exit"}
  \/ pc = "out_others" /\ c < DEVICE_BOUND /\ devices[c] # NoneAt

(* When there is a right device, the busy wait of insmod ends, and insmod  *)
(* returns unless one call of rdma_init or rdma_exit waits for its server  *)
(* for ever (or the write past the end of devices[] has broken something). *)
InitReturns ==
  pc = "wait" ~> (pc \in {"loaded", "failed", "undefined"} \/ []AtServer)
=============================================================================
