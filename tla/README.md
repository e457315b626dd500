# Verification of checkpoint-engine

checkpoint-engine replaces the weights of a running LLM inference engine. One `ParameterServer`
process per device holds checkpoints in pinned host memory; `update` streams a checkpoint, bucket by
bucket, through a device buffer that each server shares with the inference worker on its device.
This directory holds TLA+ models of its protocol and algorithms, TLC runs on small instances, and
TLAPS proofs for every value of the constants.

- [Inventory](#inventory): components, their state, operations, interactions, and what makes them hard
- [Modules](#modules): which module models what, and how state and actions correspond to the code
- [Runs](#runs): what is checked, with which bounds and which fairness
- [Where the code and its documentation disagree](#where-the-code-and-its-documentation-disagree)
- [Proofs](#proofs): theorems, assumptions, and the argument
- [Not modelled](#not-modelled): what is left out, and why

`PROJECT.json` has the machine-readable side: for every definition the source lines it models, for
every property the mutation of the model that breaks it, and the list of hazards with the properties
that watch each.

## Inventory

File names are relative to `src/checkpoint_engine/`.

| Component | State | Operations | Module |
|---|---|---|---|
| Update pipeline (`ps.py:788-977`, `worker.py:39-131`) | position in the loop, `gidx`, `ret_code`, `h2d_buffer`, the two halves of `buffer`, the ZMQ REQ/REP socket, the `req_thread`; in the worker the mapped buffer, the payload being loaded, `released` | the bucket loop, the three exits, the finally clause; attach, load, release, post_hook | `UpdatePipeline`, its promise in `WeightUpdate` |
| Store barrier (`ps.py:552-604`) | `_store_barrier_counter` and `_store_barrier_trash` of each rank; the keys of the TCP store | `store_based_barrier`, `_delete_stale_store_barrier_keys` | `StoreBarrier` |
| Update calls (`ps.py:529-550, 606-692`) | `_store_counter`, the process group, `_zmq_addr_counter`, the gathered metas, what each rank has registered | `gather_metas`, `update` for all ranks or some, its failures and retries, between registrations | `UpdateSync` |
| Bucket plan (`ps.py:35-163, 464-527, 693-751, 841-904`, `pin_memory.py:193-401`) | memory buffers with their metas, owners, RDMA topology, bucket size, buckets, receivers | pin, gather, size, cut, assign, loop order | `BucketPlan` |
| Checkpoint registry (`ps.py:279-462`) | `_memory_pool`, the shared pool and its user, pinned files | `register_checkpoint`, `unregister_checkpoint`, rollback | `Registry` |
| P2P store (`p2p_store.py`) | `named_tensors`, memory known to the RDMA engine | register, unregister, remote read | `Registry` for checkpoints, `UpdateBuffer` for `__ipc_buffer__`, `UpdateSync` for what reads find |
| Device IPC handoff (`ipc_handler.py`, `xpu_ipc/`) | `_exported_ptr`, the table of exported handles, opened handles | export, attach, detach | `UpdateBuffer` |
| Process groups (`distributed/`) | `comm`, `current_comm`, the rank of the backend, `sub_groups`, `subcomm_id` | `init_process_group`, `new_group`, collectives, `all_gather_object`, `destroy_process_group` | `ProcessGroups` |
| Rank metadata and rendezvous (`ps.py:464-550, 659-692`) | global metas, local and remote RDMA devices, counters | `gather_metas`, `load_metas`, `_bind_zmq_socket` | counters in `UpdateSync`, tables in `BucketPlan`, the gather in `ProcessGroups` |
| Devices (`device_utils.py`) | none | `NCCL_IB_HCA`, the RDMA device of a rank | `RdmaDevices`, used by `BucketPlan` |
| Checkpoint loading (`pin_memory.py:26-190`, `examples/update.py`) | `parameters_with_tp`, `tp_metas`, `parameter_metas` | split the files, load them, concatenate shards | `CheckpointLoading` |
| HTTP API (`api.py`) | none | runs the methods one by one in the event loop; `request_inference_to_update` | the atomicity of calls in `Registry`, the request in `UpdateBuffer` |
| Entry points (`__main__.py`, `examples/update.py`) | none | `req_inference`, `split_checkpoint_files` | `UpdatePipeline`, `CheckpointLoading` |

**Interactions.** `update` calls `_update_per_bucket`, which plans the buckets (the same plan on every
rank, from the same metas), allocates and exports the buffer, and starts the `req_thread`; on the
leader of an inference group the thread's HTTP request makes the engine start
`update_weights_from_ipc` on the workers of the group. Server and worker alternate requests and
replies over REQ/REP. Servers synchronize among themselves by collectives on the device: one
broadcast and one all_reduce per bucket, a barrier at the end. `update` ends in a barrier on the
TCP store that *all* ranks take part in, members of the update or not, since owners must keep the
memory the members read. The registry publishes memory buffers to the P2P store, whose RDMA engine
other ranks read from; a P2P update publishes its own device buffer, to read into.

The models meet at named interfaces. `BucketPlan` checks that plans meet what `UpdatePipeline` assumes
(`PipelineReady`). `UpdateSync` takes a pipeline for one verdict common to its members, which
`UpdatePipeline!Agreement` justifies, and *is* the store barrier (it EXTENDS `StoreBarrier`). `UpdateBuffer`
takes the loop over the buckets for a choice of its end. `ProcessGroups` looks below the collectives the others
take for granted.

**What is hard.**

- *Concurrency without locks*: a server broadcasts bucket g+1 into the buffer while its worker reads
  bucket g; ranks drift apart by up to a bucket; host and device run asynchronously; keys of the store
  are deleted by one rank while others poll them; owners may change their memory while members read it.
- *Failure*: any worker may fail to attach, load or post-process; a server may fail in the middle of
  the loop; an HTTP request may end before the workers do; barriers time out; the RDMA engine may
  refuse memory. One rank's failure must reach the others, which are blocked in collectives.
- *Counters that are local to a rank* but must agree between ranks, across calls that only some of them
  take part in and across calls that fail: the store prefix, the ZMQ number, the barrier's generation, `subcomm_id`.
- *Cleaning up* on every way out: the IPC handle, the `__ipc_buffer__` entry, communicators; a worker that outlives
  the update it belongs to; a failed `register_checkpoint` that undoes itself by `unregister_checkpoint`, which does not
  know what the failed call had reached.
- *Boundaries*: buckets that span memory buffers, tensors that exactly fill one, unpadded tensors,
  devices with different numbers of buckets, cards and GPUs that do not divide, missing shards.

**Correctness.** For the pipeline: no bucket is overwritten while it is read, every worker loads every
bucket in order or learns of a failure, ranks agree on the outcome, the buffer outlives its mappings,
and the update ends. For the calls: barriers of the same update pair up, sockets are found and are new, remote
memory is what the metas say. For the barrier: nobody passes before everybody has come, and keys vanish only
when nobody needs them, but do vanish. For the plan: every tensor arrives exactly once as the bytes its
owner has, in buckets that fit. For the registry: nothing freed stays readable by other ranks, and
memory, publication and pins agree between calls. For handles and communicators: each is used only while it is
there, and released exactly once.

## Modules

### UpdatePipeline and WeightUpdate

One call of `_update_per_bucket` on the ranks of a group, with their workers and request threads. The
plan is a constant: bucket g is broadcast by `Receiver[g]` in pass `Round[g]` of the outer loop.

| Variable | Code |
|---|---|
| `pc`, `gidx`, `outcome` | position in `_update_per_bucket`, its `gidx`, how its body ended (`ok`, `remote`: the RuntimeError of line 940, `local`: any other exception in the loop) |
| `voted`, `bad`, `moved` | collectives: all_reduces entered, those to which some rank contributed an error, broadcasts completed on the device |
| `h2d`, `half` | contents of `h2d_buffer` and of the halves of `buffer` (`gidx % 2`): which bucket they hold |
| `wire` | the message on the REQ/REP socket (one at most, by the alternation ZMQ enforces) |
| `req` | `req_thread` |
| `wpc`, `payload`, `mapped` | position of the worker, the bucket `run` is loading, whether it has the buffer mapped |
| `held` | the buffer is allocated and exported |
| `applied`, `fault` | history of the worker |

| Actions | Code |
|---|---|
| `Start`, `SendHandle` | allocate, export, bind, start `req_thread`; `send_pyobj(handle)`, which blocks without a peer |
| `Stage` | top of a pass of the outer loop: copy the own bucket to `h2d_buffer` |
| `Fill`, `Vote`, `SendMeta`/`Quit` | a bucket: enqueue the broadcast (or copy directly), take the answer to the *previous* request and enter the all_reduce, then hand over the metadata or raise |
| `Drain`, `Release`, `Hooked` | the three receives after the loop |
| `Join`, `Finish` | the finally clause: join the thread, barrier |
| `CopyFails` | an exception in `_copy_to_buffer` |
| `Broadcast`, `Accept` | the device: the copy and broadcast queued by `Fill` take effect at any time until the synchronize after the all_reduce |
| `Dispatch`, `Answer`, `RequestFails` | `req_func` of `examples/update.py`: the leader of a group starts its workers, and returns when all are through, or early |
| `Attach` … `Obey` | `update_weights_from_ipc`, one action per message, failures apart |

`WeightUpdate` is what this promises once buffers, sockets and collectives are hidden: workers load
0, 1, … in order, none more than one bucket ahead; all calls return or all raise, as the workers'
failures decide. It states the exception the code makes for the last bucket as it is.

Granularity: what a host does between two communications is one step. A read of the buffer is
taken at the end of the load (`Load`), and broadcasts may land at any step before it, so an overwrite
at any time during a load is seen. A collective completes when every rank of the group has entered that
same collective: a rank that waits in the barrier of its finally clause while others are in a broadcast
just waits, as do they. What a device library does when the kinds do not match is not modelled.

### StoreBarrier and UpdateSync

`StoreBarrier` has one action per access to the store: `Enter` (add 1), `ReadTally` (add 0),
`Announce` (set `last_worker`), `Leave` (the wait is over; rank 0 records the generation), `DeleteCounter`,
`DeleteAnnouncement`, `TimeOut`. torch's `_store_based_barrier` is not in the repository: `ReadTally`
and `Announce` are modelled from how it is used, and marked external.

`UpdateSync` EXTENDS it with the calls a deployment with `auto_pg` makes one after the other on all its ranks, given
by `Script`: register, gather, update for everybody or for some, unregister.

| Variable | Code |
|---|---|
| `pos`, `stage`, `verdict` | the call each rank is in and where it stands in it; how the pipeline of an update ended on its members |
| `prefix`, `open` | `_store_counter`, `dist.is_initialized()`: ranks meet in a process group under the same prefix (`Joined`) |
| `zmq`, `socket` | `_zmq_addr_counter`; the number in the addresses a rank bound and gave to the engine |
| `held`, `metas` | the registration whose memory a rank holds; what each rank has gathered of the others |

| Actions | Code |
|---|---|
| `Register`, `Unregister` | the registry's calls, reduced to which memory is there |
| `Gather`, `Gathered` | `gather_metas` with its `init_process_group`; its `all_gather_object` |
| `Call`, `Sized`, `Bind` | `update` up to `new_group`; the barrier and the all_reduce of `_detect_bucket_size`, which also takes the maximum of the counters; `_bind_zmq_socket` |
| `Loaded` | the loop and the barrier of its finally clause |
| `GoToBarrier`, `SkipBarrier` | to the store barrier if nothing was raised; a member whose pipeline raises leaves without it, as the code does |
| `InBarrier`, `GiveUp`, `Return` | a step of `StoreBarrier`, its time-out, the end of `update` with `destroy_process_group` |

`Patient` says that the barrier's five minutes outlast the loading: then a rank gives up only when no rank of
the update is still on its way. `StoreBarrier` itself lets a rank time out at any moment.

### UpdateBuffer

The device memory of one rank over several updates: allocation of `buffer` and `h2d_buffer` at addresses that are used
again, the `__ipc_buffer__` entry in the P2P store and its engine (`named`, `engine`), the exported handle (`exported`, and for
"xpu" the table `handles` of `sycl_ipc.cpp`, by address), the request thread, and for each update a worker with
its own socket, which may start late and outlive the update. The rank is the leader of its inference group, or it is not (`leader`):
`req_func` makes a request on the leader only, for all workers of the group (`examples/update.py:84-92`). On the leader `StartRequest`
therefore asks for the worker, and `Join` waits for the request. On any other rank the request thread returns at once, `request` is
"due" until the leader makes it (`LeaderAsks`), `Join` waits for nothing, and only the barrier of the finally clause, which the leader enters after its own join,
tells that the request has ended (`AllJoined`, a guard of `Withdraw` and not of `BarrierFails`). The actions follow `update` and
`_update_per_bucket` from `Allocate` to `Leave`, with every exception in between that leads to a different clean-up: `StartFails`
(before the `try`), `CopyFails`, `Quit`, `BarrierFails`, a refused `Publish` or `Withdraw`. What "torch" and "xpu" do is one
module because they share the protocol and differ only in whether a handle must be put. The loop and other ranks
are a choice between `AskRelease` and `Quit`.

### ProcessGroups

The backends with communicators of their own (`vllm_nccl.py`, `vllm_hccl.py`) as `gather_metas` and `update` use them. `Call`, `Opened`
and `Close` are the life of a process group; `NewGroup`/`GroupMade` the smaller one of a P2P update, which all ranks make by a split
with NCCL and members only, under the next `subcomm_id`, with HCCL. `Post` is a collective entered under `_use_group`, which switches
`current_comm` and, when there is a source, the rank; `Complete` is its end, which switches back. `GatherObjects` is
`_common_all_gather_object` on bytes. Communicators are named by their process group, number and ranks, so that
ranks that disagree on any of these never meet. `created` and `freed` are history.

### BucketPlan and RdmaDevices

The computations from files to the order of sending, one action each: `NewParameterServer` (RDMA devices of each rank),
`RegisterCheckpoint` (layouts of `_normal_pin_memory` and `_inplace_pin_memory`), `GatherMetas`, `DetectBucketSize`,
`GenH2DBuckets`, `AssignReceiverRanks`, `Arrange` (the loops of `_update_per_bucket`). A tensor is its length and its
element size, memory is counted in units of a few bytes, dictionaries are sequences in insertion
order; folds stand for the loops. `SentAt(g, bucket, i)` is where the worker finds the i-th tensor of the bucket sent as number g: behind the
start of its half in the double buffer (`Start`, `gidx % 2 * bucket_size`). `step = "failed"` is where an assertion of the code stops. `RdmaDevices` has the pure
part: what `NCCL_IB_HCA` selects of the devices of a host, and which of them a rank gets. Device names are sequences of parts,
so that prefixes are prefixes. What the models do with lists, sorting numbers (`InOrder`), choosing elements (`Picked`, `FirstSeen`) and taking lists of
lists a column at a time (`Interleaved`, the loop order of both `_assign_receiver_ranks` and `_update_per_bucket`), is in `Lists`, which `CheckpointLoading`
and `ProcessGroups` use too.

### CheckpointLoading

From the files of a checkpoint to the tensors a rank registers: `SplitCheckpointFiles` (or `GiveFiles`, a list of its own in any
order), `LoadFile` once per file with the three tables of `_load_checkpoint`, `Concat` with its assertions. A tensor is its shape; its
data is the place it was read from.

### Registry

`register_checkpoint` and `unregister_checkpoint` of one server. The HTTP handlers are coroutines that
call these methods without awaiting, so calls do not overlap and there is one `pc`; the steps inside a
call are those that can raise. `pool` is `_memory_pool`, `user` is `_current_shared_memory_pool_user`,
`named` and `engine` are the P2P store's dictionary and the memory its engine knows, `pinned` the files
pinned by `cudaHostRegister`. Memory is a set of regions of given sizes; a region may be
allocated again once neither a pool nor the store refers to it. `mishaps` records what has gone wrong,
so that properties can say which failures they survive.

The modules `MC…` give the constants of a module their values for TLC; the modules `…Proofs` hold theorems.

## Runs

| Run | Question | Bounds |
|---|---|---|
| `pipe3` | Do workers' failures and asynchrony leave the pipeline safe, does it keep the promise, does it end? | 3 ranks in groups {0,1} and {2}, 4 buckets in 3 passes, with `h2d_buffer`; faults attach, load |
| `pipefail` | Do verdicts agree when servers, requests and post_hooks fail too? Does the invariant of the proofs hold? | the same without `h2d_buffer`; all five faults, any number of times |
| `barrier` | Does the barrier synchronize, is no wait in vain, are keys deleted at the right time? | 3 ranks, 5 generations, time-outs and failing deletions |
| `sync` | Do the counters and tables of the ranks agree from call to call, and does every call end? | 3 ranks, 12 calls: two checkpoints, each gathered, sent by broadcast and P2P, and unregistered; updates 5 and 11, a broadcast and a P2P update, may raise |
| `buffer` | Are handles, mappings and the engine's memory released in order on every way out? | 3 updates of one rank, leader of its group or not, 3 addresses, both backends, all seven faults |
| `groups` | Do ranks meet in the same collectives, and free what they made? | 3 ranks, NCCL and HCCL, 6 calls with groups in and out of order; updates 2 and 5 may fail |
| `plan` | Is every plan right? | three ranks with 1-2 files, none and one, of 0-2 tensors of 1-3 bytes, normal and in place, 5 memory sizes, alignment 2, buffers up to 4 and buckets up to 6 bytes; 8 ranks with 1-3 buckets each, on hosts with 3, 4 or 8 cards or a choice of them by `NCCL_IB_HCA` or `PS_P2P_STORE_RDMA_DEVICES` |
| `loading` | Are files and shards put together right? | up to 7 safetensors files for 1, 2, 3 and 5 ranks; up to 3 files of tp ranks 0-2, any of which may be missing or there twice, in any order, cut along either dimension |
| `registry` | Do pools, P2P store and pins agree through refusals, failures and rollbacks? | 2 checkpoints, a small and a big region and 2 files, all four faults, names that clash |
| `lasterr`, `stranded`, `desync` | see below | 2 ranks and 3 buckets; 3 ranks, a P2P update that fails, its retry, a broadcast |

*Why these bounds are enough to be interesting.* Four buckets reuse each half twice, and the passes
(2, 1 and 1 buckets) have a rank that sends in every pass, one that sends once and one that never does;
the double buffer can go wrong with any two neighbouring ranks, and three ranks leave one behind the
two. With two groups of different sizes, a leader waits for a worker that is not its own, and a group
ends without the other. Five generations delete the keys of three of them, while ranks are in the
next ones. The calls of `sync` have updates for everybody after updates for some (whose counters are
ahead), failures of both kinds, and a second checkpoint whose metas replace the first's. Three updates and three
addresses in `buffer` let the third update get the address the first one's worker has still mapped. In `groups` a
group with rank 2 follows one without it, and no group is listed in order. The sizes of `plan` make
buckets smaller than, equal to and larger than memory buffers, with unused bytes at their end. Two checkpoints suffice
to pass the shared pool back and forth.

*Deadlock* is checked except in `pipefail`, `buffer`, `barrier`, `lasterr` and `stranded`. The pipeline may really stop
when a server, request or post_hook fails (see the hazards), also in `buffer`, and a barrier that has entered
its last generation stops by the bound `MaxGen`. Where all is done the models stutter (`Terminating`, `AllDone`, `Finished`).

*Symmetry* is used in `registry`, where checkpoints and files are interchangeable, and in `buffer`, where addresses are; neither checks liveness.

*Fairness.* `FairSpec` of the pipeline asks weak fairness of each server, device, request thread and
worker as a whole: each is a thread or process (or a device queue) of its own, whose next step stays
enabled until it is taken. `SyncSpec` asks the same of every rank, the time-out included, as a wait has a time limit,
and of every collective all of whose ranks have come; so does `Spec` of `ProcessGroups`. Failures are alternatives of the
step they replace, and are never forced.

*Properties that are conditional*, and why. `FreedAfterUnmap`, `WorkerGone`, `Promise` and `Termination`
are checked for failures of workers (`pipe3`); the proofs say which of the other failures each survives.
`UnmappedBeforeFreed` and `OpenedInTime` exclude requests that end early and, on a rank that is not the leader of its group, a barrier
that fails (`Guarded`): the code then frees the buffer under a worker. On the leader they survive a failing barrier.
`PublishedIsAllocated` excludes failures outside the `try` and in the finally clause: they leave `__ipc_buffer__` registered.
`StoreMatchesPools`, `PinsMatchPools` and `RollbackHarmless` exclude the histories named
in them: a refused engine call, a failed pin, a shrunk pool or a clashing name leaves a trace in the code.
`PublishedIsLive` survives every failure, as long as the shared pool has not shrunk.
`LayoutFaithful` says where the bytes are whatever the sizes, and asks for alignment in the double buffer of tensors pinned normally only, and
for limits `MaxBucket` (`PS_MAX_BUCKET_SIZE_GB`) that are multiples of the alignment, as in `plan`. `ReadsCurrent` and `NoSpuriousFailure` are checked with
`Patient`; without it, an owner that has given up its five-minute wait may unregister what a member still reads.

## Where the code and its documentation disagree

Each of these is a run whose one property states the documentation and is violated.

- `lasterr` / `FailureReachesAll`: the answer to the last bucket is not looked at (`ps.py:944`); a worker
  that failed on it is told to finish, and `update` succeeds. `worker.py:115`: "all workers should
  quit in the same way by receiving the exception from PS".
- `stranded` / `WorkersQuit`: a server that fails by itself in the loop joins its request thread
  (`ps.py:971`) without a word to the worker. The worker waits for ever, the server until the HTTP request, which waits for
  the worker, times out (`api.py:41`; `stranded` has no such fault). Same comment.
- `desync` / `UpdatesSynchronized`: members of a failed P2P update skip the store barrier (`ps.py:641`), so
  the counters of the ranks differ and in the retry different updates share a generation.
  `ps.py:554`: "store-based barrier synchronization across all ranks".

Others are seen in the models but have no run of their own, being what one line of the code says. They are excluded by the
conditions named above.

- Tensors pinned in place are not padded (`pin_memory.py:244`), and a bucket concatenates files, so a view may be
  misaligned; `pin_memory.py:237` says the data is aligned, which is true of each file only.
- The second half of the buffer starts at `bucket_size` (`ps.py:913`, `941`), which is rounded down to the alignment when memory limits it only:
  with a fractional `PS_MAX_BUCKET_SIZE_GB`, or a larger tensor pinned in place, it is any number (`ps.py:716-717`), and the
  views of every other bucket (`worker.py:49`) may be misaligned.
- On a rank that is not the leader of its group the join of the request thread waits for nothing. If a copy fails there and then
  the group barrier (`ps.py:972`), the code frees a buffer its worker maps, or releases the handle before the worker has opened it.
- Refusing to register the user of the shared pool again unregisters it (`ps.py:379`);
  `tests/test_reuse_pin_memory.py:48-54` expects a refusal to change nothing.
- A checkpoint with fewer buffers is accepted and the shared pool shrinks (`ps.py:351`, `pin_memory.py:314-319`);
  `ps.py:326`: "The pool's shape is fixed on first use".
- Every rank waits five minutes in the store barrier (`ps.py:641` passes no timeout), whatever `timeout` `update` was given
  (`ps.py:628`), owners included.

## Proofs

Everything below holds for all constants that satisfy the named assumption of the module: `PipelineAssumption` (any ranks,
grouping, number of buckets and plan, with or without staging, any set of faults), `BarrierAssumption` (any number of
ranks and generations, with or without time-outs and failing deletions), `SyncAssumption` (any script, owners and
failures), `BufferAssumption` (any number of updates and faults, three addresses or more), `RegistryAssumption` (any
names, regions, files, shapes and faults), `GroupsAssumption` (any number of ranks, either backend, any script of gathers and
updates in which the receivers of a P2P update are among its ranks, and any of which may fail), `LoadingAssumption` (any files,
tp ranks, parameters and numbers of ranks), `PlanAssumption` (any files, hosts and free memory, any of the deployment's ranks as targets,
any limits, a positive alignment that is a multiple of the size of every element type, 256 in the code) and `HostAssumption` (hosts have
different addresses, as many devices for ranks each, and list an RDMA device once, as `ibv_get_device_list` does).
Further hypotheses are stated in the theorem. `DevicesAlwaysEven` has one, `ChosenOnce`: the code takes the list in
`PS_P2P_STORE_RDMA_DEVICES` as it is, and a device named there twice would serve more ranks than another. TLC has found the inductive invariants
to hold on the instance of their module's run, of `BucketPlan`, whose invariant names witnesses TLC cannot enumerate, the properties it implies; those of the pipeline and the barrier are checked by their runs still.

**UpdatePipelineProofs.** `IInv` is inductive (`Inductive`), and gives `TypeCorrect`, `DoubleBufferSafe`
(`HalfIntact`), `LoadsInOrder` (`AppliedInOrder`) and `RanksAgree` (`Agreement`), whatever fails. `HalfIntact` by itself is not
inductive, since whether a half is still intact depends on how far *other* ranks can be. `IInv` says, besides the types:

- `Position`: how `gidx`, `voted`, `moved` and `outcome` follow from where a rank is;
- `LockStep`: no rank's `gidx` exceeds another's `voted` or `moved`, and none passes a bucket in `bad`. This is what
  the all_reduce buys: a rank may broadcast bucket g+1, but not g+2, until all have answered for g;
- `Conversation`: what is on the socket, and how many buckets the worker has loaded, follow from `pc` and
  `gidx`; in particular a worker loads bucket `gidx - 1` only while its server is at `gidx`;
- `Buffers`: the last completed broadcast and the one before it are intact in their halves, and the staged
  bucket is the one of this pass (here `Round`'s part of the assumption is used).

`HalfIntact` follows: the loading bucket is `gidx - 1`, and `moved` is `gidx` or `gidx + 1`. The proof
has a lemma per conjunct and process (server, device, thread, worker), with frame lemmas for what
each process leaves alone.

If no request ends early (`"request" \notin Faults`), `WorkersGone` (`WorkerGone`) and `FreedLast` (`FreedAfterUnmap`) hold too, even
when servers and post_hooks fail. They rest on `Turns` (where a worker can be, given its server and the socket), `Joined`
(who is past the join has an ended request, who is past the barrier has nobody before it, and an ended request has no workers left)
and `Held`: an update that fails frees its buffer only when the request of its group's leader has ended on another rank.

*Refinement* (also in `UpdatePipelineProofs`). `KeepsPromise`: if no post_hook and no copy fails, every behaviour of the pipeline is one of `WeightUpdate`, for
any ranks, plan and grouping; requests may end early. `Blamed` is the invariant this takes: `Accounted` says how many
buckets a worker has loaded and where its failure is (not sent, on the socket, in `bad`, known to its server), and every bucket
in `bad` has a worker to blame. A load, a failure and the end of `update` are the only steps of the abstract specification; all others
stutter.

**UpdateSyncProofs, the barrier.** `BarrierInv` is inductive (`BarrierInductive`), and gives `BarrierSynchronizes` (`BarrierHolds`), `KeysStay`
and, as an action property, `DeletionSafe` (`UnusedWhenDeleted`). Its parts: `Counted` (the counter of a generation never exceeds the
number of ranks that have entered it, so a full count means everybody has; this needs cardinalities of finite sets)
and `Kept` (the generations in rank 0's trash are complete and ascending, so the oldest is behind
every rank when a third has been completed). `NoWaitInVain` (`WaitEnds`) needs the converse of `Counted`, that no entry
is lost: `Awaited` says so for generations some rank is not past, whose counters can therefore not have been
deleted, and that the last rank to enter one will announce it.

**UpdateSyncProofs, the calls.** `UpdatesUseBarrier` shows that every behaviour of `UpdateSync` is
one of `StoreBarrier`, so the theorems above hold of sequences of calls whatever fails in them. `SyncInductive`: types, `Placed` and
`Numbered` are inductive, and give `MembersAddressEachOther` (`AddressesAgree`) and `NoAddressTwice` (`AddressesFresh`). Counters differ
outside updates, so `Numbered` speaks of the number a rank names its addresses by *in* an update, and bounds counters by `pos`.

- `UpdatesInStep` (`UpdatesSynchronized`) assumes `RaiseTogether`: updates that may raise are for all ranks. This is exactly what `desync`
  violates: the barrier synchronizes generations, and a failure of some ranks only makes generations and updates disagree.
  `InStep` says that they agree: a rank's counter is the number of updates up to it that have not raised.
- `NoBarrierTimesOut` (`NoSpuriousFailure`) also assumes `Patient`; `Together` says that no barrier has timed out and that who is past an
  update has left nobody behind in it.
- `NoStaleRead` (`ReadsCurrent`) assumes, moreover, `GathersAgain`: between a registration or its end and the next update there is
  a gather. `Remembered` ties what a rank has gathered to a call after which owners have not changed their memory, unless
  they are past another registration, which `Together` excludes while a member loads.

- `GroupsOpenInTurn` (`Grouped`) has no hypothesis: whatever fails, the store prefix of a rank counts the process groups the
  script makes it open (`OpeningsUpTo`), and ranks meet in a call only after all of them have finished every update before it. An
  update always destroys its group, a gather leaves it open, so the calls that open one are known from the script alone.
- `FewKeysInStore` (`KeysBounded`) assumes `RaiseTogether`, `Patient` and that deletions succeed. `FewKeys` says which keys there
  are: those of the generations in rank 0's trash, and of one more, that it is in or deletes, or that the others are in already.
  That the others are never two generations ahead of it is `Grouped` again: an update begins with a group that all ranks meet in.

**UpdateBufferProofs.** `BufferInv` is inductive (`BufferInductive`) for any number of updates, and gives types, `HandlesOnce`
(`HandlesPutOnce`), `PublishedAllocated` (`PublishedIsAllocated`), `FreedUnmapped` (`UnmappedBeforeFreed`) and `HandleOpenedInTime`
(`OpenedInTime`). Its parts: `HasBuffer`; `HandleKept` (the only handle kept is that of the exported address, which stays the buffer's
until it is dropped); `EngineKnows` (the engine knows the named buffer at most, between publication and withdrawal);
`WorkerCovered` (a request that does not end early covers the life of its worker, and keeps the rank in its update: a leader up to the join of its own
request, any other rank up to the barrier, which the leader enters after its join). The last two are implications from the
absence of mishaps, so that one induction serves every set of faults.

**RegistryProofs.** `RegistryInv` is inductive (`RegistryInductive`), and gives `RegistryTypeCorrect`, `NothingFreedPublished`
(`PublishedIsLive`), `StoreMatches` (`StoreMatchesPools`), `PinsMatch` (`PinsMatchPools`), `RollbackRestores` (`RollbackHarmless`) and
`PoolReused` (`SharedPoolReused`). Its parts: `PoolsApart` (pools share no memory, so withdrawing one leaves the others' memory known);
`CallKnown` (what a call in the middle can be about); `WithdrawnFirst` (what is about to be freed has been withdrawn);
`StoreKnows` (in the middle of a call the store knows all pools but the one the call is about); `RollbackKnown` (a rollback
finds its name without a pool, and the user of the shared pool as the only difference to undo); `PinsKept`.

**ProcessGroupsProofs.** `GroupsInv` is inductive (`GroupsInductive`), and gives `GroupsTypeCorrect`, `CollectivesAlwaysMatch`
(`CollectivesMatch`), `CommunicatorsAlwaysBalanced` (`CommunicatorsBalanced`) and `ObjectsAlwaysExact` (`ObjectsExact`). That ranks on
the same communicator are in the same collective is a fact about all their positions, which `Lockstep` lists: two ranks in the same call are at the
same step of it (`Joint`: unless one is no member, or both are past its collectives), and one that is a call behind is in one of
the few places of `Behind`. With HCCL these are more, since ranks that are not in a group do not take part in making it, and one can be
two calls behind. `HasAt` and `PostedAt` say which communicators a rank has and waits on at its step; `OwnedAt` that new ones are unlike all
before. `ObjectsAlwaysExact` is about data: `GatherIsExact` proves that padding to the longest, concatenating and cutting gives
back what was sent, for sequences of any lengths.

**CheckpointLoadingProofs.** `LoadingInv` is inductive (`LoadingInductive`): after any number of files the tables have one shard of each
tp rank that the files so far name, read from one of them, and the size the largest of these ranks asks for. `ShardsAlwaysInPlace`
(`ShardsInPlace`) follows because a set of as many ranks below that size is all of them (`NoneMissing`), and sorting them
gives each its own place (`NthOfInterval`). `EveryFileIsLoadedOnce` (`EveryFileOnce`) needs that the slices of the sorted list,
rounded up, cover it (`RoundedUp`, `SliceExists`) and do not overlap (`SliceUnique`), though the last ones may be cut off or empty.
`ShardsInPlace` does not say that the shards have one size: the code checks the sum of their sizes only.

**BucketPlanProofs.** Each action computes one value from those before it, so `PlanInv` (`PlanInductive`) says of each value, from the
step on at which it is there, what later ones need: pools are lists of tensors (`PoolsTyped`), the sizes fit (`SizesFit`), the
buckets fit and have every tensor once (`BucketsReady`), each target rank is behind one local device (`Reached`, `LocalReady`), the plan has every
bucket once (`PlanComplete`) and is dealt out as it should be (`PlanDealt`), the order has all of the plan once, with the rounds
as claimed (`OrderComplete`), and a bucket's items lie where its ranges put their bytes (`LaidOut`). What ranks announce of their devices
has an invariant of its own, `DevicesInv`.

- `MemoryAlwaysFits` (`MemoryFits`): the share is rounded down (`ShareFacts`), the largest tensor is at most the bucket size or
  the update fails, and no step of a cut exceeds it (`CutTensorFits`).
- `PipelineAlwaysReady` (`PipelineReady`): an interleaving goes through its lists a column at a time (`Interleaving`), so a position of the
  order is a turn of one receiver, its round is the column, columns follow one another (`ColumnsFollow`), and a receiver with a turn has all turns before it.
- `EveryTensorIsSentOnce` (`EveryTensorOnce`). `HasBefore(cut, o, b, k)` says that the buckets cut so far have all tensors before the
  k-th of buffer b of owner o, each at one place only, and nothing else. It is carried through the three nested loops of
  `_gen_h2d_buckets` (`CutTensorHas`, `CutBufferHas`, `CutOwnerHas`, `AllBucketsHave`). Assigning receivers and looping over them
  permutes the buckets: sorting by key and interleaving is a permutation (`GroupsPermute`), and dealing keeps the list (`DealtFacts`).
- `SendersAlwaysDistinct` (`SendersDistinct`). No two receivers are the same rank (`ReceiverListFacts`). `_assign_receiver_ranks` deals in passes
  over the receivers (`DealtInPasses`, `Passes`), each of distinct devices (`PassFacts`). When a pass ends before all receivers have taken one, it
  ends at a device that it has already met, so no more devices are left than it had buckets (`FewLists`), and no later pass is longer
  (`NoLongerPass`). Hence who takes in a later pass has taken in all earlier ones (`TakenGrows`), two buckets that are the c-th of their
  receivers are of one pass and so of two devices (`RowsApart`, `Apart`), and the c-th buckets are what a round sends (`TurnOf`).
- `LayoutAlwaysFaithful` (`LayoutFaithful`). What the worker finds at an offset depends on the sizes of all ranges before it, so the
  invariant of the loops says of a range where its bytes start, which is the sum of the sizes before it (`SumFacts`), and of an item where
  it starts in the range. Cutting a bucket off leaves both as they are; adding a tensor adds to the last range or
  starts the next one, and the sizes agree since the bucket's size is the sum (`LaidFaithful`). That every position of the order holds a bucket
  of the plan is `OrderHasBuckets`. Addresses are multiples of `Align`, hence of the element size, because normally pinned sizes are (`MultipleFacts`), and
  so is the size of a bucket, where the second half starts, if `MaxBucket` is (`SizesFit`, `MaxOfMultiples`): both make `SentAligned`.
- `DevicesAlwaysEven` (`DevicesEven`). Whatever a host's list is made from, it names no device twice (`ByNameFacts` for `sorted` of
  a set, `ParsedFacts`, `GetRdmaDevicesFacts`). The ranks of a host that have its j-th device are then those whose local rank is in
  one interval, which starts at a quotient and has the same length for every j (`ServedFacts`, from `MultiplesApart`
  and `DivIs`, since the provers know little of division); and a host's ranks are an interval of all ranks (`RankPlace`, `DeviceServes`).

**ListProofs.** Lemmas on `Lists` that the last three modules rest on: what `Nth`, `InOrder`, `Picked` and `FirstSeen` return, where each element of a
`FlattenSeq` comes from and goes to (`FlattenPlaces`, `FlattenFacts`, `ConcatAssoc`), sums of a list as it grows (`SumFacts`), and `Interleaved`. The library's induction theorems are out of reach, having operators for parameters; `Induction`
states what is needed of the natural numbers for a set instead, and is proved from the well-foundedness of `<`. `FoldExists` and `FoldSteps` use it to
unroll a fold whose step stays in a domain D: a fold is the last of n + 1 values, each the step of the one before it. An invariant
of a loop is then shown for these values by `Induction` again. Definitions that need neither are first-order here (`Sorted`, `Nth`).

**Model-checked only.** Liveness (`Termination`, `UpdatesEnd`, `CallsEnd`), which the prover cannot do, and the numbers of
`KeysBounded` when barriers time out or deletions fail, which leave keys behind. Every other property of a passing run is a theorem.

## Not modelled

- Collectives that raise or hang because a rank has died, and the abort of communicators: ranks do not crash in these models, and
  nothing in the code restarts one.
- The start of the RDMA engine with its retries (`p2p_store.py`), and its reads, which are one step.
- `load_metas` failing half-way, and metas from a deployment whose owners take no part in the barrier: their memory is
  not protected by anything in this code.
- Detection of devices, addresses and RDMA protocols, parsing of checkpoint files and arguments, names, shapes
  and dtypes in the wire format of metas, the thread pools that copy tensors, `split_tensors`: pure functions, or I/O.
- ctypes bindings of NCCL and HCCL, the build of the SYCL extension, and `TorchBackend`, which hands every call to `torch.distributed`.
- Checkpoints of which some files are pinned in place and others are not: `BucketPlan` pins all of them in one way. And process groups that
  outlive an update (`auto_pg=False`), so several smaller groups of one process group.
- Logging, and the mapping of exceptions to HTTP status codes.
