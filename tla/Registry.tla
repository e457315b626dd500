------------------------------ MODULE Registry ------------------------------
(***************************************************************************)
(* The checkpoints registered with one ParameterServer: the pinned memory  *)
(* of each, the memory pool that checkpoints share one after the other,    *)
(* and what the P2P store has published of it to the RDMA engine.          *)
(*                                                                         *)
(* The HTTP handlers run register_checkpoint and unregister_checkpoint to  *)
(* completion one by one; what makes them hard are the steps that raise in *)
(* their middle, and the rollback of a failed register_checkpoint, which   *)
(* is itself an unregister_checkpoint.                                     *)
(***************************************************************************)
EXTENDS Integers, Sequences, SequencesExt, Functions

CONSTANTS
    Names,          \* the names of checkpoints
    Regions,        \* regions of host memory
    SizeOf,         \* SizeOf[b]: the size of region b
    Files,          \* the regions that are files in /dev/shm
    Shapes,         \* the buffer sizes a checkpoint may need (see Fits)
    MaxFiles,       \* bound: files of a checkpoint pinned in place
    MayClash,       \* a client may register a name that is in use
    Faults          \* what may fail: a subset of FaultKinds

FaultKinds == {"load", "pin", "engine", "unpin"}

SharedPool == "__shared_memory_pool__"
Nobody == ""

ASSUME RegistryAssumption ==
    /\ SizeOf \in [Regions -> Nat] /\ Files \subseteq Regions
    /\ \A shape \in Shapes : shape \in Seq(Nat)
    /\ SharedPool \notin Names /\ Nobody \notin Names
    /\ MaxFiles \in Nat /\ MayClash \in BOOLEAN /\ Faults \subseteq FaultKinds

VARIABLES
    hasStore,       \* whether there is a _p2p_store (CUDA and NPU have one)
    registered,     \* the checkpoints in _memory_pool
    pool,           \* pool[c]: their buffers, and those of the shared pool
    user,           \* _current_shared_memory_pool_user
    named,          \* named_tensors of the P2P store: <<pool name, idx>> to region
    engine,         \* the regions registered with the RDMA engine
    pinned,         \* the file regions pinned by cudaHostRegister
    pc,             \* where the call under way stands, or "idle"
    call,           \* the call under way, or the last one if it raised
    mishaps,        \* the faults and misuses so far (history)
    before          \* registered, pool and user when the call began (history)

memory == <<registered, pool, user>>
published == <<named, engine>>
vars == <<hasStore, memory, published, pinned, pc, call, mishaps, before>>

Pools == Names \cup {SharedPool}
Nothing == [name |-> Nobody, op |-> "none", shared |-> FALSE, force |-> FALSE, raised |-> FALSE]

Init ==
    /\ hasStore \in BOOLEAN
    /\ registered = {} /\ user = Nobody
    /\ pool = [c \in Pools |-> <<>>]
    /\ named = <<>> /\ engine = {} /\ pinned = {}
    /\ pc = "idle" /\ call = Nothing
    /\ mishaps = {} /\ before = <<>>

-----------------------------------------------------------------------------
(* Helpers of every method.                                                *)

RegionsOf(c) == Range(pool[c])
Live == UNION {RegionsOf(c) : c \in Pools}
KeysOf(c) == {<<c, i>> : i \in DOMAIN pool[c]}

\* The engine and the P2P store know the given pools, and nothing else.
Knows(pools) ==
    /\ engine = UNION {RegionsOf(c) : c \in pools}
    /\ DOMAIN named = UNION {KeysOf(c) : c \in pools}

\* Memory nobody refers to; the store's dictionary keeps its tensors alive.
Unused == Regions \ (Live \cup Range(named) \cup pinned)

\* Fresh buffers, distinct, of the given sizes and from files or not.
Fresh(sizes) ==
    {bs \in [1 .. Len(sizes) -> Unused \ Files] :
        IsInjective(bs) /\ \A i \in 1 .. Len(sizes) : SizeOf[bs[i]] = sizes[i]}
FreshFiles(n) == {bs \in [1 .. n -> Unused \cap Files] : IsInjective(bs)}

\* _get_memory_pool: the pool of a checkpoint, and when it raises.
PoolName(c) == IF c = user THEN SharedPool ELSE c
NoPool(c) == IF c = user THEN pool[SharedPool] = <<>> ELSE c \notin registered

\* A plausible bug: the buffers of the shared pool go by its user's name.
KeyByUser(c, i) == <<c, i>>

\* Under which name the P2P store knows the i-th buffer of a checkpoint.
Key(c, i) == <<PoolName(c), i>>

Begin(op, c, shared, force) ==
    /\ pc = "idle"
    /\ call' = [name |-> c, op |-> op, shared |-> shared, force |-> force, raised |-> FALSE]
    /\ before' = memory

Continue(there) == pc' = there /\ UNCHANGED <<call, before>>
Return == pc' = "idle" /\ call' = Nothing /\ before' = <<>>
Raise == pc' = "idle" /\ call' = [call EXCEPT !.raised = TRUE] /\ UNCHANGED before

-----------------------------------------------------------------------------
(* register_checkpoint.                                                    *)

\* A client that does not clash registers only names that are not in use.
Polite(c) == MayClash \/ (c \notin registered /\ c # user)
Clash(c) == IF c \in registered \/ c = user THEN {"clash"} ELSE {}

\* The body raises before it has changed anything: into the except clause.
Refuse(c, shared) ==
    /\ Begin("register", c, shared, FALSE)
    /\ pc' = "rollback"
    /\ mishaps' = mishaps \cup Clash(c)
    /\ UNCHANGED <<hasStore, memory, published, pinned>>

\* "checkpoint ... already registered", or the shared pool has a user.
RegisterRefused(c, shared) ==
    /\ Polite(c)
    /\ IF shared THEN user # Nobody ELSE c \in registered
    /\ Refuse(c, shared)

\* _normal_pin_memory checks the buffers it needs against those of the pool one
\* by one; the pool may have more than the checkpoint needs.
Fits(sizes, buffers) ==
    \A i \in 1 .. Len(sizes) : i <= Len(buffers) /\ sizes[i] = SizeOf[buffers[i]]

RegisterMisfit(c, sizes) ==
    /\ Polite(c)
    /\ user = Nobody /\ pool[SharedPool] # <<>> /\ ~Fits(sizes, pool[SharedPool])
    /\ Refuse(c, TRUE)

\* A file is missing or cannot be parsed, or there is no memory to pin.
RegisterFails(c, shared) ==
    /\ "load" \in Faults /\ Polite(c)
    /\ IF shared THEN user = Nobody ELSE c \notin registered
    /\ Refuse(c, shared)

\* Some of the files have been pinned in place when another one cannot be.
PinFails(c) ==
    /\ "pin" \in Faults /\ Polite(c) /\ c \notin registered
    /\ Begin("register", c, FALSE, FALSE)
    /\ \E n \in 1 .. MaxFiles : \E bs \in FreshFiles(n) : \E some \in (SUBSET Range(bs)) \ {Range(bs)} :
           pinned' = pinned \cup some
    /\ mishaps' = mishaps \cup {"pin"} \cup Clash(c)
    /\ pc' = "rollback"
    /\ UNCHANGED <<hasStore, memory, published>>

\* Files and tensors of a checkpoint of its own: buffers of the given sizes, then
\* one buffer for each file that is pinned in place.
RegisterPrivate(c, sizes, n) ==
    /\ Polite(c) /\ c \notin registered
    /\ Begin("register", c, FALSE, FALSE)
    /\ \E normal \in Fresh(sizes) : \E files \in FreshFiles(n) :
           /\ pool' = [pool EXCEPT ![c] = normal \o files]
           /\ pinned' = pinned \cup Range(files)
    /\ registered' = registered \cup {c}
    /\ pc' = IF hasStore THEN "publish" ELSE "idle"
    /\ mishaps' = mishaps \cup Clash(c)
    /\ UNCHANGED <<hasStore, user, published>>

\* The pool loses the buffers that the new user does not need.
Shrinks(sizes, old) == IF Len(sizes) < Len(old) THEN {"shrunk"} ELSE {}

\* The first user of the shared pool gives it its shape; later ones are copied
\* into the buffers it has, and those they need alone stay in the pool.
RegisterShared(c, sizes) ==
    LET old == pool[SharedPool]
        first == old = <<>>
    IN
    /\ Polite(c) /\ user = Nobody
    /\ first \/ Fits(sizes, old)
    /\ Begin("register", c, TRUE, FALSE)
    /\ \E normal \in IF first THEN Fresh(sizes) ELSE {SubSeq(old, 1, Len(sizes))} :
           pool' = [pool EXCEPT ![SharedPool] = normal]
    /\ user' = c
    /\ pc' = IF hasStore /\ first THEN "publish" ELSE "idle"
    /\ mishaps' = mishaps \cup Clash(c) \cup Shrinks(sizes, old)
    /\ UNCHANGED <<hasStore, registered, published, pinned>>

\* The store's dictionary with the buffers of checkpoint c.
Entries(c) ==
    LET bs == pool[PoolName(c)]
        keys == {Key(c, i) : i \in 1 .. Len(bs)}
    IN [k \in DOMAIN named \cup keys |-> IF k \in keys THEN bs[k[2]] ELSE named[k]]

\* _register_parameters_to_p2p_store.
Publish ==
    LET c == call.name IN
    /\ pc = "publish" /\ ~NoPool(c)
    /\ named' = Entries(c) /\ engine' = engine \cup RegionsOf(PoolName(c))
    /\ Return
    /\ UNCHANGED <<hasStore, memory, pinned, mishaps>>

\* It raises when the shared pool is empty, or when the engine refuses, and then
\* the dictionary has been changed already.
PublishFails ==
    LET c == call.name IN
    /\ pc = "publish"
    /\ NoPool(c) \/ ("engine" \in Faults /\ pool[PoolName(c)] # <<>>)
    /\ named' = IF NoPool(c) THEN named ELSE Entries(c)
    /\ mishaps' = IF NoPool(c) THEN mishaps ELSE mishaps \cup {"engine"}
    /\ Continue("rollback")
    /\ UNCHANGED <<hasStore, memory, engine, pinned>>

-----------------------------------------------------------------------------
(* Withdrawing a checkpoint from the P2P store.                            *)

\* unregister_named_tensors, once the engine has agreed.
Without(keys) == [k \in DOMAIN named \ keys |-> named[k]]

\* _unregister_parameters_from_p2p_store, which raises when the checkpoint or a
\* key is not there, or when the engine refuses (as it may memory it does not
\* know).  The dictionary is changed after the engine has agreed.
Withdraw(there) ==
    LET c == call.name
        bs == pool[PoolName(c)]
        keys == {Key(c, i) : i \in 1 .. Len(bs)}
        addressed == {named[k] : k \in keys}
    IN
    \/ /\ NoPool(c) \/ ~(keys \subseteq DOMAIN named)
       /\ Raise /\ UNCHANGED <<published, mishaps>>
    \/ /\ ~NoPool(c) /\ keys \subseteq DOMAIN named
       /\ engine' = engine \ addressed
       /\ named' = Without(keys)
       /\ Continue(there) /\ UNCHANGED mishaps
    \/ /\ ~NoPool(c) /\ keys \subseteq DOMAIN named /\ keys # {}
       /\ "engine" \in Faults \/ ~(addressed \subseteq engine)
       /\ Raise /\ mishaps' = mishaps \cup {"engine"} /\ UNCHANGED published

\* A plausible bug: a failed registration gives the shared pool up.
RollbackGivesUp ==
    /\ pc = "rollback" /\ call.shared
    /\ user' = Nobody
    /\ Raise
    /\ UNCHANGED <<hasStore, registered, pool, published, pinned, mishaps>>

\* The except clause: withdraw (but not a shared pool), then unregister, then
\* raise again.
Rollback ==
    /\ pc = "rollback"
    /\ IF hasStore /\ ~call.shared THEN Withdraw("unregister")
       ELSE Continue("unregister") /\ UNCHANGED <<published, mishaps>>
    /\ UNCHANGED <<hasStore, memory, pinned>>

-----------------------------------------------------------------------------
(* unregister_checkpoint.                                                  *)

UnregisterCheckpoint(c, force) ==
    /\ Begin("unregister", c, FALSE, force)
    /\ pc' = "unregister"
    /\ UNCHANGED <<hasStore, memory, published, pinned, mishaps>>

\* A rollback raises the exception it was called for.
Done == IF call.op = "register" THEN Raise ELSE Return

\* Two plausible bugs: the checkpoint is freed without being withdrawn; force is
\* not looked at.
UnregisterUnseen ==
    /\ pc = "unregister"
    /\ \/ call.name \notin registered /\ call.name # user /\ Done /\ UNCHANGED user
       \/ call.name = user /\ ~call.force /\ user' = Nobody /\ Done
       \/ /\ IF call.name = user THEN call.force ELSE call.name \in registered
          /\ Continue("free") /\ UNCHANGED user
    /\ UNCHANGED <<hasStore, registered, pool, published, pinned, mishaps>>
UnregisterForced ==
    /\ pc = "unregister"
    /\ \/ call.name \notin registered /\ call.name # user /\ Done
       \/ /\ call.name \in registered \cup {user}
          /\ Continue(IF hasStore THEN "withdraw" ELSE "free")
    /\ UNCHANGED <<hasStore, memory, published, pinned, mishaps>>

\* Unknown names are ignored.  The user of the shared pool only gives it up,
\* unless forced.
Unregister ==
    /\ pc = "unregister"
    /\ \/ call.name \notin registered /\ call.name # user /\ Done /\ UNCHANGED user
       \/ call.name = user /\ ~call.force /\ user' = Nobody /\ Done
       \/ /\ IF call.name = user THEN call.force ELSE call.name \in registered
          /\ Continue(IF hasStore THEN "withdraw" ELSE "free") /\ UNCHANGED user
    /\ UNCHANGED <<hasStore, registered, pool, published, pinned, mishaps>>

WithdrawCheckpoint ==
    /\ pc = "withdraw"
    /\ Withdraw("free")
    /\ UNCHANGED <<hasStore, memory, pinned>>

\* Free the shared pool.
FreeShared ==
    /\ pc = "free" /\ call.name = user
    /\ user' = Nobody
    /\ pool' = [pool EXCEPT ![SharedPool] = <<>>]
    /\ Done
    /\ UNCHANGED <<hasStore, registered, published, pinned, mishaps>>

ManuallyPinned(c) == RegionsOf(c) \cap Files

\* A plausible bug: in-place pins are left to the garbage collector.
FreeWithoutUnpin ==
    LET c == call.name IN
    /\ pc = "free" /\ c # user
    /\ registered' = registered \ {c}
    /\ pool' = [pool EXCEPT ![c] = <<>>]
    /\ Done
    /\ UNCHANGED <<hasStore, user, published, pinned, mishaps>>

\* Unpin the files pinned in place, and free the checkpoint's own buffers.
FreePrivate ==
    LET c == call.name IN
    /\ pc = "free" /\ c # user
    /\ ManuallyPinned(c) \subseteq pinned
    /\ pinned' = pinned \ ManuallyPinned(c)
    /\ registered' = registered \ {c}
    /\ pool' = [pool EXCEPT ![c] = <<>>]
    /\ Done
    /\ UNCHANGED <<hasStore, user, published, mishaps>>

\* Unpinning raises, perhaps after some files: the pool is kept.
UnpinFails ==
    LET c == call.name IN
    /\ pc = "free" /\ c # user /\ ManuallyPinned(c) # {}
    /\ "unpin" \in Faults \/ ~(ManuallyPinned(c) \subseteq pinned)
    /\ \E some \in (SUBSET (ManuallyPinned(c) \cap pinned)) \ {ManuallyPinned(c)} :
           pinned' = pinned \ some
    /\ mishaps' = mishaps \cup {"unpin"}
    /\ Raise
    /\ UNCHANGED <<hasStore, memory, published>>

-----------------------------------------------------------------------------

Register(c) ==
    \/ \E shared \in BOOLEAN : RegisterRefused(c, shared) \/ RegisterFails(c, shared)
    \/ PinFails(c)
    \/ \E sizes \in Shapes : \/ RegisterMisfit(c, sizes) \/ RegisterShared(c, sizes)
                             \/ \E n \in 0 .. MaxFiles : RegisterPrivate(c, sizes, n)

Next ==
    \/ \E c \in Names : Register(c) \/ \E force \in BOOLEAN : UnregisterCheckpoint(c, force)
    \/ Publish \/ PublishFails \/ Rollback \/ Unregister \/ WithdrawCheckpoint
    \/ FreeShared \/ FreePrivate \/ UnpinFails

Spec == Init /\ [][Next]_vars

-----------------------------------------------------------------------------
(* Properties.                                                             *)

\* Every variable has its type.
TypeOK ==
    /\ hasStore \in BOOLEAN
    /\ registered \subseteq Names
    /\ pool \in [Pools -> Seq(Regions)]
    /\ user \in Names \cup {Nobody}
    /\ DOMAIN named \subseteq Pools \X Nat /\ Range(named) \subseteq Regions
    /\ engine \subseteq Regions /\ pinned \subseteq Regions
    /\ pc \in {"idle", "publish", "rollback", "unregister", "withdraw", "free"}
    /\ call \in [name : Names \cup {Nobody}, op : {"none", "register", "unregister"},
                 shared : BOOLEAN, force : BOOLEAN, raised : BOOLEAN]
    /\ mishaps \subseteq FaultKinds \cup {"clash", "shrunk"}

\* Whatever else fails, as long as the shared pool has not shrunk: memory the RDMA
\* engine lets other ranks read, and every tensor of the P2P store, is a buffer of
\* a pool, never one that has been freed.
PublishedIsLive ==
    "shrunk" \notin mishaps =>
        /\ engine \subseteq Live
        /\ \A k \in DOMAIN named : k[2] \in DOMAIN pool[k[1]] /\ named[k] = pool[k[1]][k[2]]

\* Between calls, and as long as nothing of the kind has happened, the engine has
\* not failed and no client has clashed, the P2P store has published exactly the
\* buffers of the pools, each under the key by which it will be withdrawn.
StoreMatchesPools ==
    pc = "idle" /\ hasStore /\ mishaps \cap {"engine", "unpin", "clash", "shrunk"} = {} => Knows(Pools)

\* Between calls, and as long as no pin or unpin has failed, the files pinned by
\* cudaHostRegister are those of the pools: freed memory is not left pinned.
PinsMatchPools ==
    pc = "idle" /\ mishaps \cap {"pin", "unpin"} = {} => pinned = Live \cap Files

\* No other memory ever gets into a shared pool ("a reusable shared pin
\* memory pool instead of allocating new memory", ps.py:325): it changes only when
\* another checkpoint is registered in some of its buffers, and is freed only in a
\* forced unregister_checkpoint of its user, whatever fails.
SharedPoolReused ==
    [][pool[SharedPool] # <<>> /\ pool'[SharedPool] # pool[SharedPool] =>
          \/ call'.op = "register" /\ IsPrefix(pool'[SharedPool], pool[SharedPool])
          \/ pool'[SharedPool] = <<>> /\ call.op = "unregister" /\ call.force /\ call.name = user]_vars

\* A register_checkpoint that raised has left the registered checkpoints and the
\* user of the shared pool as they were (test_reuse_pin_memory.py:48-54), as long
\* as the engine has not failed and no client has registered a name in use.
RollbackHarmless ==
    pc = "idle" /\ call.op = "register" /\ call.raised /\ mishaps \cap {"engine", "clash"} = {} =>
        memory = before

-----------------------------------------------------------------------------
(* The inductive invariants behind them.                                   *)

\* The pools share no memory, only private ones hold files, and a name that is not
\* registered has none.
PoolsApart ==
    /\ \A c, d \in Pools : c # d => RegionsOf(c) \cap RegionsOf(d) = {}
    /\ RegionsOf(SharedPool) \cap Files = {}
    /\ \A c \in Names \ registered : pool[c] = <<>>

\* What a call is about when it stands where it stands.
CallKnown ==
    /\ pc # "idle" => call.name \in Names
    /\ pc \in {"publish", "rollback"} => call.op = "register"
    /\ pc \in {"publish", "withdraw"} => hasStore
    /\ call.op = "register" => ~call.force
    /\ pc # "idle" /\ call.force => call.op = "unregister"
    /\ pc \in {"withdraw", "free"} => IF call.name = user THEN call.force ELSE call.name \in registered

\* The pool the P2P store does not know: not yet, or not any more.
Unknown == IF pc \in {"publish", "free"} THEN {PoolName(call.name)} ELSE {}

\* Without a store nothing is published; what is freed has been withdrawn.
WithdrawnFirst ==
    /\ ~hasStore => engine = {} /\ DOMAIN named = {}
    /\ PublishedIsLive
    /\ pc = "free" /\ "shrunk" \notin mishaps =>
           /\ engine \cap RegionsOf(PoolName(call.name)) = {}
           /\ \A k \in DOMAIN named : k[1] # PoolName(call.name)

\* The store knows the other pools.
StoreKnows ==
    hasStore /\ mishaps \cap {"engine", "unpin", "clash", "shrunk"} = {} => Knows(Pools \ Unknown)

\* While a registration is rolled back, its name has no pool, and the user of the
\* shared pool is all that differs from when it began.
Rewound == before = <<registered, pool, IF call.name = user THEN Nobody ELSE user>>

RollbackKnown ==
    call.op = "register" /\ mishaps \cap {"engine", "clash"} = {} =>
        /\ pc = "publish" => IF call.shared THEN /\ call.name = user /\ call.name \notin registered
                                                 /\ pool[SharedPool] = <<>> => Rewound
                             ELSE call.name # user /\ call.name \in registered
        /\ pc \in {"rollback", "unregister"} => /\ call.name \notin registered /\ Rewound
                                                /\ call.name = user => call.shared
        /\ pc \notin {"withdraw", "free"}
        /\ RollbackHarmless

\* Pins come and go with the pools.
PinsKept == mishaps \cap {"pin", "unpin"} = {} => pinned = Live \cap Files
=============================================================================
