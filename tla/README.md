# Verification of rmem_rdma

`rmem_rdma` is a Linux block device whose pages live in the memory of another
machine. A kernel module (`src/rmem.c`, with the RDMA client library
`src/rdma_library.c`) turns block requests into RDMA reads and writes; a user
process (`src/server/server.c`) lends its memory and is otherwise idle while
data moves. This directory holds TLA+ specifications of the code, their TLC
configurations, and TLAPS proofs.

## The system and its modules

| part | source | modules | what runs concurrently |
|---|---|---|---|
| block interface | `rmem.c` 642-803 | `BlockLayer`, `BlockDevice` | submitters, under the queue lock |
| synchronous data path (default build) | `rmem.c` 218-360, `rdma_library.c` 514-532, 632-682, 806-858 | `RmemSync`, `RmemSyncProofs`, `RmemSyncArrays` | the NIC |
| the same without `COPY_LESS` | `rmem.c` 303-353, `rdma_library.c` 819-908 | `RmemCopy` | the NIC |
| asynchronous data path (`MODE_ASYNC`) | `rmem.c` 75-214, `rdma_library.c` 561-622 | `BatchedIo`, `RmemAsync` | NIC, completion handler, other callers |
| one-by-one data path (`MODE_ONE`) | `rmem.c` 364-463, `rdma_library.c` 561-622 | `BatchedIo`, `RmemOne` | NIC, completion handler, other callers |
| pool of batch requests | `rdma_library.c` 41-170 | `Ring`, `BatchPool`, `FreeList`, `BatchPoolProofs` | request functions, completion handler |
| session, client side | `rdma_library.c` 292-557, 703-804 | `Session`, `SessionProofs` | the server, other clients |
| memory server | `server.c` | `Session`, `SessionProofs` | clients |
| module lifecycle | `rmem.c` 642-833, `rdma_library.c` 178-249 | `RmemModule`, `RmemModuleProofs` | `ib_core` callbacks |
| `/proc` file | `rmem.c` 484-640 | `BatchPool` (the outstanding batch requests) | - |
| server address, geometry, logging, scripts | `rdma_library.c` 251-290, `rmem.c` 471-482, `log.c`, `log.h`, `*.sh` | none | - |

`MCRmemSync`, `MCRmemCopy`, `MCRmemAsync`, `MCRmemOne` and `MCSession` are the
small instances TLC checks; `BatchPool` and `RmemModule` are checked as they are. `PROJECT.json` gives the source
lines of every definition, and the hazards of the code with the properties that
would notice them.

Operators whose name is that of a definition plus a suffix, under a comment
that starts with "Mutant", are wrong variants of that definition; `PROJECT.json`
says which property notices each of them. No specification uses them.

The modules are joined in three places. `RmemSync`, `RmemCopy`, `RmemAsync` and
`RmemOne` each implement `BlockDevice`. `BatchedIo` uses the pool as a plain
sequence of free objects, which is justified by the theorem that the ring of
`BatchPool` implements `FreeList`. `RmemModule` treats `rdma_init` and `rdma_exit`
as one step each, which may fail or never come; `Session` says what goes on
inside them.

`conf.h` builds `MODE_SYNC` with `COPY_LESS` and `SIMPLE_MAKE_WR`. `MODE_ASYNC`
and `MODE_ONE` compile only with both switched off, and are modelled so.

### BlockLayer, BlockDevice

`BlockDevice` says what the file system relies on: each page of a request is
moved between the page frame and its page on the device, and only then is the
request reported as done. The models map its `disk` to the registered part of
the server's memory, `[p \in Page |-> mem[rem_vaddr + p]]`. `xfer` is a history
variable that only the specification reads: the segments of each request that
have been moved, in the direction of the request and between its own pages.

The unit is a page. `rmem_init` sets the logical block size to `PAGE_SIZE`, so
segments are whole pages. (`bio_cur_bytes` returns the length of a bio's *first*
segment for all of them; with other segment lengths the code would go wrong in
a way these models do not show.) The bios of a request are contiguous on the
device, so the loops over bios and segments are one loop over pages.

### RmemSync and RmemCopy

The variables are the fields of `struct rmem_device` and `rdma_ctx` the function
works on (`wrs` stands for `wrs` and `sges` together), the locals
`rdma_req_count`, `blk_req` with its count, the position in the function (`pc`,
`seg`, and `ret`, where `poll_cq` returns to), and the NIC's send queue and
completion queue.

| action | code |
|---|---|
| `SubmitRequest`, `RunQueue` | the block layer, under the queue lock (external) |
| `FetchFs`, `FetchNonFs` | one turn of the `blk_fetch_request` loop, `rmem.c` 246-255 |
| `SegmentMapped`, `SegmentMapError` | one turn of the segment loop with mapping, merging, linking and flush, 257-331 |
| `QueueEmpty` | after the loop, 335-353 |
| `PollSome`, `PollDone` | `poll_cq` |
| `EndRequests` | 355-360 |
| `NicMove`, `NicComplete`, `NicFail`, `NicFlush` | the queue pair (external) |
| `CopySegment`, `CopyQueueEmpty`, `send_wr` (in `RmemCopy`) | the segment loop, the rest of the queue, and `rdma_op`'s loop when `COPY_LESS` is 0 |

* The function holds the queue lock with interrupts off from beginning to end,
  so submission happens only in `pc = "idle"`. A call with an empty queue does
  nothing and is left out.
* With `COPY_LESS` the NIC has nothing to do between two `ib_post_send`, so one
  loop iteration up to and including the post is one step. Without it `rdma_op`
  posts one entry at a time, each post is a step, and the NIC works in between.
* `outstanding_requests` keeps its unsigned arithmetic (`ULONG` is its modulus).
* The assumptions on the constants are `MAX_REQ <= CQE_SIZE` (1024 and 4096 in
  `conf.h`) and that the queue holds no more than `MAX_REQ` requests (the
  kernel's default is 128 for each direction).
* The NIC moves work requests in order, except that a write may overtake an
  earlier read, since no work request is fenced. In the error state it
  completes everything with an error status.

### BatchedIo, RmemAsync, RmemOne

In these modes the request function drops the queue lock and returns before its
work requests are done; the completion handler ends the requests. So several
threads are inside the function at once, requests enter the queue meanwhile, and
the handler runs beside all of them.

| action | code |
|---|---|
| `Call`, `ReturnArray` (`RmemAsync`) | `get_rdma_request_arr`, `return_rdma_request_arr` |
| `Fetch` | the `blk_fetch_request` loop |
| `Insert` | `debug_pool_insert`, with `DEBUG_OUT_REQ` |
| `NextBatch` | `get_batch_request`, and the fields the function then sets |
| `Build` (`RmemAsync`) | the segment loop of one request, and the link to the request it shares its work request with |
| `QueueEmpty`, `Post` (`RmemAsync`) | after the loop: `rdma_op`, one work request at a time, under the queue lock |
| `Segment`, `Flush`, `LastPost`, `Relock` (`RmemOne`) | one segment; the post of a finished work request; `all_request_sent` and the last post; the lock taken again |
| `HandlerCalled` ... `HandlerNotify` | `comp_handler_send`: poll, count, end, return to the pool, follow `next`, arm again |

`bug` names the `BUG` or invalid access that stopped the machine, and no step
follows it; `"status"` is the handler's deliberate `BUG` on a failed work
request. A completion raises an event only if the completion queue is armed, and
`ib_req_notify_cq` reports completions it missed. A free batch request forgets
its fields when the handler has left it, since `GetBatch` sets every field
before any is read. `MAP_FAILS` is the set of page frames whose mapping may fail.

### Ring, BatchPool, FreeList

`Ring` is the ring buffer as the code indexes it. `BatchPool` adds
`get_batch_request` and `return_batch_request` with their error paths (one of
which leaves the lock held), and what `debug_show_out_req` reports. `FreeList` is
the first-in first-out list the users rely on: an object that has been returned
is not given out before another has been returned. `comp_handler_send` depends
on that order, because it reads `curr->next` after it has returned `curr`.

### Session

The client actions follow `rdma_init` (`InitConnect`, `SendSize`, `RecvBoot`,
`Setup`, and `InitFails` for its error returns) and `rdma_exit` (`ExitConnect`,
`TeardownSend`, `TeardownRecv`). The server actions follow `main`: `Listen` and
`Accept` (each used at both calls of `wait_for_tcp_connection`), `GetSize`,
`GetPeer`, `WaitTeardown`, `Shutdown`; a failed `CHECK` is `ServerFails`.
Messages carry their kind and the one value that matters: the memory size, the
key of the region, the identity of the queue pair. `rem_rkey = 0` is a client
that parsed something else than the server's data. TCP delivers in order; each
end can close, closing the listening socket resets what is in its backlog, and
the backlog (10 in the code) does not fill up with the clients of a run. Keys of
regions are never reused (`last_rkey`). `handshake_get_memsize` neither clears nor
terminates its buffer, so digits left on the stack may follow the size it reads:
`Stale` is the set of such tails, each as a factor and an addend, and the server
takes any of the numbers that result. (The client's `handshake` has the same
defect in its last field, the lid, which is not modelled.)

### RmemModule

`RmemModule` has one action for each step of `rmem_init`, of its labels
`out_unregister`, `out_rdma_exit` and `out`, and of `rmem_exit`; `Fail` is any
of the later steps failing, and `add_device` the callback of the InfiniBand core.
Three variables say what there is of a session: `ctx` is the context `rmem_init`
holds, `sess` whether the server is in a session, `cqs` the servers for which
completion queues were made. They differ: `rdma_init` may return a context
without the server, or fail and leave the server in the session, and `rdma_exit`
destroys neither completion queues nor queue pair.

`pc = "undefined"` is where the code has used memory that is not its own with an
effect, and the model says nothing of what follows: the entry behind the end of
`devices[]` at label `out` (`OutPastEnd`), and the gendisk that `rmem_exit` reads
after `put_disk` (`ExitDiskReused`). In both places the other outcome, that
nothing happens, is there as well. A failed insmod ends the behaviour: what a
second insmod does to the disks it left is not modelled.

## Runs

| run | instance | result |
|---|---|---|
| `sync` | no faults; merging; 2 requests of up to 3 pages, 2 work requests, 2 data values | `TypeOK`, `OutstandingExact`, `RemoteInBounds`, `ArraysInBounds`; `BlockDevice` is refined |
| `sync_faulty` | merging, failing work requests and mappings | `OutstandingExact`; every page still to be moved is one that a live request asked for, with bus address 0 in place of a page whose mapping failed (`PostedPagesLive`); every file-system request ends |
| `sync_loss` | no merging, failing work requests | `OkMeansMoved` is violated |
| `copy` | `COPY_LESS` 0, merging, 2 data values | `CopyTypeOK`, `CopyCountExact`; `BlockDevice` is refined |
| `pool` | a ring of 4 | `TypeOK`, `NoErrorPath`, `RefusedOnlyWhenOut`, `ShownAreOut`; `FreeList` is refined |
| `async` | 2 threads, reads and writes, merging, 2 data values, the debug table, exhausted pools, a failing connection | `TypeOK`, `CallsStopOnlyAtLimit`, `OutstandingExact`, `DebugTableExact`, `LinkStillValid`; `BlockDevice` is refined |
| `async_live` | 2 threads, 3 requests submitted once each, a failing mapping, fairness | `OutstandingExact`; every file-system request ends |
| `one` | 2 threads, a read and a write that overlap, 2 data values, exhausted pools | `TypeOK`, `StopsOnlyAtLimit`, `CountsExact`, `NoneForgotten`; `BlockDevice` is refined |
| `module` | 3 servers, 4 slots, 2 right InfiniBand devices of 3, any step failing | `TypeOK`, `SessionsEnded`, `NothingLeft`, `LiveDiskHasSession`, `InitReturns` |
| `session` | two clients, 2 loads each, one of which may ask for too much | `TypeOK`, `SessionLasts`, `QueuePairComesUp`, `TeardownCompletes` |
| `session_faulty` | two clients; crashes, restarts, failing steps | `OneClientPerRegion`, `RegionInBuffer` |
| `session_bootstrap` | two clients, 1 load each | `UpMeansBootstrapped` is violated |

**Bounds.** `RmemSync`: two work-request slots against requests of three pages
make a request span two chains, leave a chain shorter than the one before it
(stale links), and fill the array exactly at the end of a request. Two requests
in flight overlap in one chain and merge across requests; in some pairs of
adjacent segments only the frames or only the pages continue, and in some the
operations differ. `rem_vaddr = 1` puts a
page below the region. `CQE_SIZE` equals `MAX_REQ`, its smallest legal value, so
a post to a queue that is not empty would not fit.

`BatchedIo`: two requests and two threads reach every interleaving of a call, a
second call and the handler; a write of two work requests and one that continues
it make links and shared work requests, and a read that would continue it but
for its operation must not be merged. The server's memory holds one value at
first and every write stores the other, so that a page moved in the wrong
direction, or one nobody asked for, changes something. The pool has three batch
requests, the array three entries and the send queue two, so that each of them
is exhausted in some behaviours: `StopsOnlyAtLimit` and `CallsStopOnlyAtLimit` say
that the machine is stopped there and nowhere earlier. The ring of arrays is one
larger than the number of threads and is not exhausted; for it the property says
that every array is in the ring or with a caller. `async_live` has three requests,
so that two are linked in a row behind a third, and each struct request is used
once, with fixed contents, because liveness without symmetry is expensive. Its
constants stay below the limits, as a stopped machine ends no request. The
asynchronous modes fail mappings only in `async_live`, and the connection only in
`async`; `RmemOne` is checked without failures and without liveness.

`RmemModule`: three servers on four slots leave one slot empty and give a failure
something before it, and queue id 4 lies past the end of `devices[]`. Two of the
three InfiniBand devices are right ones, so that one replaces the other.

`Session`: two clients and three or four connections reach the resets of the
backlog, the capture of a client by the wrong accept, and a socket that
`rdma_init` leaks; two loads let a client come back after a session that went
wrong. A buffer of one and a half GB has a fraction that must be cut. One digit
may follow a size.

Symmetry is used in requests, data values, threads, and clients that ask for the
same sizes, and never in a run that checks liveness.

**Deadlock** is checked in `sync`, `copy` and `pool`. It is not in the faulty runs of `RmemSync`, where a request that is not of file-system
type and has two segments is left started for ever (`rmem.c` 251), nor in
`async` and `one`, where a `BUG` stops the machine, nor in `async_live`, where every
request is submitted once, nor in the runs of
`Session`, where clients stop after `MAX_LOADS` loads, nor in `module`, where a
failed insmod is the end.

**Fairness.** `RmemSync`: the driver spins without giving up the processor and
the NIC processes what was posted or flushes it, so both are weakly fair; nobody
has to submit. `RmemAsync`: threads, handler and NIC are weakly fair; the steps
that wait for the queue lock are strongly fair, because the kernel's spin locks
are ticket locks that admit every waiter, and so is fetching a request, because
the elevator starves none. `RmemModule`: the thread that runs insmod goes on,
except that `rdma_init` and `rdma_exit`, which wait for a server, need not return
(`InitReturns` allows for that); the InfiniBand core calls `add_device` for every
device. `Session`: the kernel
schedules the server process and a client inside `rdma_init` or `rdma_exit`;
loading and unloading is the user's choice. `session_faulty`, `async` and `one`
check safety only and assume no fairness.

## Where code and comments disagree

* `sync_loss`: `poll_cq` counts failed completions as done, so a request ends
  with success though its pages never moved (`rdma_library.c` 651). The handler
  of the other modes stops the machine instead.
* `session_bootstrap`: `receive_data` hides a reset connection, and `handshake`
  parses its own message as the server's (`rdma_library.c` 418).

`PROJECT.json` quotes the comments.

### Limits and oversights seen while modelling

No run is about these; most of them are visible in a line or two of the source.

* `rdma_exit` ignores a refused `reconnect` and loops for ever in `teardown`
  (`rdma_library.c` 705); `rdma_setup` ignores a failed `modify_qp` (555).
* `MODE_ASYNC` stops the kernel when one call collects `MAX_REQ` work requests
  (`rmem.c` 193), or when `REQ_ARR_SIZE` callers are inside at once (82); neither
  asynchronous mode keeps its work requests within the send queue
  (`rdma_library.c` 871). The kernel's default queue (128 requests for each
  direction, about 31 pages each) allows the first and the last.
* A failed DMA mapping is used as address 0 (`rmem.c` 418 and elsewhere); only a
  property like `OkMeansMoved` would notice. `rmem_request_one` maps a new segment
  with the length of the work request before it (418), which merging may have
  made longer than a page; how much is mapped is not modelled.
* The check of the port compares a pointer that is never NULL (`rmem.c` 672), and
  an address with fewer than four numbers is accepted (`rdma_library.c` 262).
* A failed insmod ends the sessions of earlier servers and leaves their disks
  (`rmem.c` 795); with two InfiniBand devices of the right MTU the first keeps
  its event handler after rmmod (`rdma_library.c` 201).
* A queue id of `DEVICE_BOUND` or more makes label `out` index `devices[]` past its
  end (`rmem.c` 793). `rmem_exit` uses the gendisk after `put_disk` (812-814).
* `rdma_exit` destroys neither the completion queues nor the queue pair
  (`rdma_library.c` 703), so their handler outlives the module. When `rdma_init`
  fails after `connect`, nothing tells the server, which stays in the session.
* The server may read a larger size than the client sent, and exit because of it
  (`server.c` 76).
* `rmem_getgeo` multiplies by the page size twice, so that the low 16 bits of the
  number of cylinders, all that `geo->cylinders` holds, are 0 (`rmem.c` 476);
  `debug_show_out_req` prints its list of block requests with the wrong index (602).

## Proofs

All theorems hold for every value of the constants that satisfies the
assumptions of the module (`BlockLayerAssumption` and those of the module
itself). The last step of each is temporal; everything else is the proof that an
invariant is inductive, one lemma or step per action.

**`RmemSyncProofs`**: `FaultyTypeOK`, `FaultyOutstandingExact`,
`FaultyRemoteInBounds` with failing work requests and mappings, with and without
merging; `SpecSafe` for `Spec`. `OutstandingExact` is not inductive: that as many
work requests are posted as are counted depends on the links inside `wrs`. `Inv`
adds that live requests are not empty and lie on the device (`RequestsFit`), that
in the segment loop the current request is a live file-system request
(`InsideRequest`), that entries `0 .. rdma_req_count - 1` of `wrs` are linked one
to the next and each lies in the registered region (`ChainBuilt`), and that so
does the rest of every posted entry (`PostedOk`). The links beyond the last entry
are arbitrary, left from earlier chains, which is why `EndChain` matters:
`ChainLength` shows that the chain from entry 0 then has exactly
`rdma_req_count` entries, and `PostSendPosts` that all of them fit into the send
queue, which `OutstandingExact` says is empty.

**`RmemSyncArrays`**: `FaultyArraysInBounds`. `blk_req` is not reset by a flush, so
its bound is a counting argument: `FetchedOnce` says that the requests of one
call are distinct and no longer in the queue, hence at most `Cardinality(Req)`.

**`BatchPoolProofs`**: `PoolNoErrorPath`, `PoolRefusedOnlyWhenOut`,
`PoolShownAreOut` and `PoolRefinesFreeList`, for a ring of any size. `IInv` says
that exactly the slots from head to tail, going round, are filled, that no object
is in two slots or both in a slot and out, and that the objects out and the
filled slots add up to the size. That none is missing follows by counting. For
the refinement, `FreeSeq` reads the ring from head to tail.

**`RmemModuleProofs`**: `ModuleTypeOK`, `ModuleSessionsEnded`, `ModuleLiveDisks` and
`ModuleNothingLeft`, for any number of servers, slots, queue ids and InfiniBand
devices, whatever fails. `Sessions` relates `devices[]` and the contexts at each
place of `rmem_init` and `rmem_exit`; it needs that a device is in one slot only
(`OneSlot`), that of its queue (`InQueueSlot`). `DisksInv` adds that disks belong to
servers already done. `LeftInv` says that whatever has a disk, a major or a queue
is in `devices[]`, which is why the loop of `rmem_exit` misses none, and that the
event handlers are those of right devices.

**`SessionProofs`**: `SessionTypeOK`, `SessionRegionInBuffer` and
`SessionOneClientPerRegion`, for any clients, sizes, connections, loads and
crashes. The invariant says which sockets the server has at each place
(`ServerSockets`), that a connection carries one message at a time
(`OneMessage`), that a client has its connection for itself and the message on
its way is the one it sent last (`OwnConnection`), and that a key is in one
place: in a message on its way, or with one client (`OneKey`). Clients that are
accepted by the wrong accept, sockets that `rdma_init` leaks, and crashes between
any two steps are what makes `OwnConnection` needed.

Only model-checked: that the four data paths implement `BlockDevice`,
`PostedPagesLive`, everything about `RmemCopy`, `RmemAsync` and `RmemOne`,
`SessionLasts`, and all liveness properties, which are beyond the prover.

## Not modelled

* The `make_request` function that is commented out (`CUSTOM_MAKE_REQ_FN`).
* `MEASURE_LATENCY`: time stamps that only the report reads.
* `rmem_getgeo`: one arithmetic expression that changes no state; `translate_ip` and
  `create_address`, which turn the text of an address into four bytes.
* The block-request list of `debug_show_out_req`, logging, scripts, makefiles.
* `async_event_handler` and `remove_device`, which only log.
* Segments of unequal length, and a parameter with an incomplete last server.
* A provider that refuses a post for other reasons than a full queue, and a
  failing `ib_req_notify_cq`, which the handler only logs.
* Memory models weaker than sequential consistency; NIC timeouts and retries.
* A data path on top of a session that is coming up or going away: `Session` and
  the data paths are checked separately, the latter on a session that is up.
