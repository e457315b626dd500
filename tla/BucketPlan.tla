----------------------------- MODULE BucketPlan -----------------------------
(***************************************************************************)
(* From checkpoint files to the order in which an update sends buckets:    *)
(* pinning the tensors of each rank in memory buffers (pin_memory.py),     *)
(* gathering what each rank has (gather_metas, load_metas), sizing the     *)
(* buckets (_detect_bucket_size), cutting the buffers into buckets         *)
(* (_gen_h2d_buckets), choosing the rank that broadcasts each one          *)
(* (_assign_receiver_ranks), and the order of _update_per_bucket's loops.  *)
(* Every rank computes the same plan from the same gathered metas.         *)
(*                                                                         *)
(* A tensor is its length in bytes and the length of an element; names and *)
(* shapes are left out, dictionaries are sequences in insertion order.     *)
(***************************************************************************)
EXTENDS RdmaDevices

CONSTANTS
    Deployments,    \* the inputs of a plan: see the variables of input
    Align,          \* _ALIGN_SIZE
    PinLimit,       \* size up to which tensors share a memory buffer (4 GiB)
    MaxBucket       \* PS_MAX_BUCKET_SIZE_GB

\* _ALIGN_SIZE is a multiple of what an element takes.
Tensor == [bytes : Nat, item : {i \in 1 .. Align : Align % i = 0}]

\* The ranks of a deployment, from 1 (rank r is at r + 1).
RanksOn(hosts) == 1 .. Len(hosts) * hosts[1].gpus

ASSUME PlanAssumption ==
    /\ Align \in Nat \ {0} /\ PinLimit \in Nat /\ MaxBucket \in Nat
    /\ \A d \in Deployments :
          /\ d.files \in Seq(Seq(Seq(Tensor))) /\ d.free \in Nat
          /\ Len(d.topo.here) * d.topo.here[1].gpus \in Nat
          /\ d.topo.ranks \subseteq {r - 1 : r \in RanksOn(d.topo.here)}

ASSUME HostAssumption == \A d \in Deployments : HostsSound(d.topo.here)

\* PS_P2P_STORE_RDMA_DEVICES names no device twice.
ChosenOnce ==
    \A d \in Deployments : \A i \in DOMAIN d.topo.here : IsInjective(d.topo.here[i].chosen)

VARIABLES
    files,      \* files[r + 1]: the files of rank r, each its tensors
    topo,       \* [ranks, here, there]: the target ranks, the hosts they are on,
                \* and the hosts of the ranks that have the files
    free,       \* the free device memory _detect_bucket_size finds, in bytes
    inplace,    \* whether the files are pinned in place
    rdma,       \* [here, there]: the RDMA devices of each rank, and its host
    step,       \* the last thing computed, or "failed" when an assertion stopped it
    pools,      \* pools[o]: the memory buffers of each owner, each its tensors
    owners,     \* owners[o]: the ranks that have memory buffers
    device,     \* device[o]: the RDMA device of each owner
    local,      \* _local_rdma_devices: the ranks behind each RDMA device
    sizing,     \* [size, h2d]: the bucket size and whether there is an h2d_buffer
    buckets,    \* the buckets, in the order they were cut
    plan,       \* [receiver, bucket], in the order they were assigned
    order       \* [receiver, round, bucket], in the order they are sent

input == <<files, topo, free, inplace>>
metas == <<owners, device, local>>
vars == <<input, rdma, step, pools, metas, sizing, buckets, plan, order>>

MinOf(a, b) == IF a <= b THEN a ELSE b
UpdateLast(seq, e) == ReplaceAt(seq, Len(seq), e)
Sizes(tensors) == [k \in DOMAIN tensors |-> tensors[k].size]

Init ==
    /\ \E d \in Deployments : /\ files = d.files /\ topo = d.topo
                             /\ free = d.free /\ inplace = d.inplace
    /\ step = "new" /\ rdma = [here |-> <<>>, there |-> <<>>]
    /\ pools = <<>> /\ owners = <<>> /\ device = <<>> /\ local = <<>>
    /\ buckets = <<>> /\ plan = <<>> /\ order = <<>>
    /\ sizing = [size |-> 0, h2d |-> FALSE]

-----------------------------------------------------------------------------
(* Starting.                                                               *)

\* The P2PStore of each rank takes its RDMA devices, or raises.
NewParameterServer ==
    /\ step = "new"
    /\ IF \A host \in ToSet(topo.here) \cup ToSet(topo.there) :
              CanAssign(host.gpus, GetRdmaDevices(host))
       THEN /\ rdma' = [here |-> [r \in RanksOn(topo.here) |-> ReachedAt(r - 1, topo.here)],
                        there |-> [r \in RanksOn(topo.there) |-> ReachedAt(r - 1, topo.there)]]
            /\ step' = "loaded"
       ELSE step' = "failed" /\ UNCHANGED rdma
    /\ UNCHANGED <<input, metas, pools, sizing, buckets, plan, order>>

-----------------------------------------------------------------------------
(* Pinning.                                                                *)

AlignSize(bytes) == ((bytes + Align - 1) \div Align) * Align

WithSize(t, size) == [bytes |-> t.bytes, item |-> t.item, size |-> size]

\* Tensors, sorted by name (here, as they lie in the files), fill memory buffers
\* of at most the limit; each takes a multiple of Align bytes.  Without a single
\* tensor the maximum in the limit raises (RegisterCheckpoint).
NormalPin(owned) ==
    LET tensors == [k \in DOMAIN FlattenSeq(owned) |->
                       LET t == FlattenSeq(owned)[k] IN WithSize(t, AlignSize(t.bytes))]
        limit == MaxOf(<<PinLimit, MaxOf(Sizes(tensors))>>)
        Put(buffers, t) ==
            IF SumOf(Sizes(Last(buffers))) + t.size > limit
            THEN Append(buffers, <<t>>)
            ELSE UpdateLast(buffers, Append(Last(buffers), t))
    IN FoldLeft(Put, << <<>> >>, tensors)

\* A file pinned in place is one memory buffer, its tensors as they lie in it.
InplacePin(owned) ==
    [f \in DOMAIN owned |-> [k \in DOMAIN owned[f] |->
        WithSize(owned[f][k], owned[f][k].bytes)]]

RegisterCheckpoint ==
    /\ step = "loaded"
    /\ pools' = [r \in DOMAIN files |->
                    IF files[r] = <<>> THEN <<>>
                    ELSE IF inplace THEN InplacePin(files[r]) ELSE NormalPin(files[r])]
    /\ step' = IF ~inplace /\ \E r \in DOMAIN files : /\ files[r] # <<>>
                                                    /\ \A f \in DOMAIN files[r] : files[r][f] = <<>>
               THEN "failed" ELSE "pinned"
    /\ UNCHANGED <<input, rdma, metas, sizing, buckets, plan, order>>

-----------------------------------------------------------------------------
(* Gathering.                                                              *)

\* The ranks without memory buffers are left out; an update asserts that there
\* are others.  With load_metas the owners are ranks of another deployment.
GatherMetas ==
    LET own == InOrder({r \in DOMAIN pools : pools[r] # <<>>})
        devices == FirstSeen(rdma.here)
    IN
    /\ step = "pinned"
    /\ owners' = [o \in DOMAIN own |-> own[o] - 1]
    /\ pools' = [o \in DOMAIN own |-> pools[own[o]]]
    /\ device' = [o \in DOMAIN own |-> rdma.there[own[o]]]
    /\ local' = [d \in DOMAIN devices |->
                    {r - 1 : r \in {r \in DOMAIN rdma.here : rdma.here[r] = devices[d]}}]
    /\ step' = IF own = <<>> THEN "failed" ELSE "gathered"
    /\ UNCHANGED <<input, rdma, sizing, buckets, plan, order>>

-----------------------------------------------------------------------------
(* Sizing.                                                                 *)

\* A plausible bug: the buffers are not counted.
WholeShare(k) == (free \div Align) * Align

\* Free memory shared between k buffers, rounded down to a multiple of Align.
Share(k) == (free \div (k * Align)) * Align

DetectBucketSize ==
    LET largest == MaxOf([o \in DOMAIN pools |-> MaxOf(Sizes(FlattenSeq(pools[o])))])
        h2d == largest <= Share(3)
        room == IF h2d THEN Share(3) ELSE Share(2)
    IN
    /\ step = "gathered"
    /\ sizing' = [size |-> MinOf(MaxOf(<<MaxBucket, largest>>), room), h2d |-> h2d]
    /\ step' = IF largest <= room THEN "sized" ELSE "failed"
    /\ UNCHANGED <<input, rdma, pools, metas, buckets, plan, order>>

-----------------------------------------------------------------------------
(* Cutting.                                                                *)

EmptyBucket(o) == [owner |-> o, size |-> 0, ranges |-> <<>>, items |-> <<>>]

AddRange(bucket, b, start, end) ==
    [bucket EXCEPT !.ranges = Append(@, [idx |-> b, offset |-> start, size |-> end - start])]

AddTensor(bucket, size, item) ==
    [owner |-> bucket.owner, size |-> bucket.size + size, ranges |-> bucket.ranges,
     items |-> Append(bucket.items, item)]

\* Whether a tensor does not fit into what a bucket has left.
Overflows(bucket, t) == bucket.size + t.size > sizing.size

\* A plausible bug: the start of the range is not moved to the new bucket.
CutWithoutReset(o, b, at, k) ==
    LET t == pools[o][b][k]
        last == Last(at.cut)
        full == Overflows(last, t)
        closed == IF at.offset > at.start THEN AddRange(last, b, at.start, at.offset) ELSE last
        open == IF full THEN EmptyBucket(o) ELSE last
        filled == AddTensor(open, t.size, <<b, k>>)
    IN [cut |-> IF full THEN Append(UpdateLast(at.cut, closed), filled)
                ELSE UpdateLast(at.cut, filled),
        start |-> at.start, offset |-> at.offset + t.size]

\* One tensor of memory buffer b: at = [cut, start, offset] holds the buckets so
\* far, where in the buffer the current range starts, and where the tensor does.
CutTensor(o, b, at, k) ==
    LET t == pools[o][b][k]
        last == Last(at.cut)
        full == Overflows(last, t)
        closed == IF at.offset > at.start THEN AddRange(last, b, at.start, at.offset) ELSE last
        open == IF full THEN EmptyBucket(o) ELSE last
        filled == AddTensor(open, t.size, <<b, k>>)
    IN [cut |-> IF full THEN Append(UpdateLast(at.cut, closed), filled)
                ELSE UpdateLast(at.cut, filled),
        start |-> IF full THEN at.offset ELSE at.start,
        offset |-> at.offset + t.size]

CutBuffer(o, cut, b) ==
    LET end == FoldLeftDomain(LAMBDA at, k : CutTensor(o, b, at, k),
                              [cut |-> cut, start |-> 0, offset |-> 0], pools[o][b])
    IN UpdateLast(end.cut, AddRange(Last(end.cut), b, end.start, end.offset))

CutOwner(cut, o) ==
    FoldLeftDomain(LAMBDA c, b : CutBuffer(o, c, b), Append(cut, EmptyBucket(o)), pools[o])

AllBuckets == FoldLeftDomain(CutOwner, <<>>, pools)

LastOf(o) == Last(Picked(AllBuckets, {n \in DOMAIN AllBuckets : AllBuckets[n].owner = o}))

GenH2DBuckets ==
    /\ step = "sized"
    /\ buckets' = AllBuckets
    /\ step' = IF \A o \in DOMAIN pools : LastOf(o).size > 0
               THEN "cut" ELSE "failed"
    /\ UNCHANGED <<input, rdma, pools, metas, sizing, plan, order>>

-----------------------------------------------------------------------------
(* Assigning.                                                              *)

Device(bucket) == device[bucket.owner]

OfDevice(d) == Picked(buckets, {i \in DOMAIN buckets : Device(buckets[i]) = d})

OwnerDevices == FirstSeen([i \in DOMAIN buckets |-> Device(buckets[i])])

\* A plausible bug: as many columns as the first device has buckets.
FirstRowWide ==
    LET devices == OwnerDevices
        row == [d \in DOMAIN devices |-> OfDevice(devices[d])]
    IN FlattenSeq([col \in 1 .. Len(row[1]) |->
           FlattenSeq([d \in DOMAIN row |->
               IF col <= Len(row[d]) THEN <<row[d][col]>> ELSE <<>>])])

\* The buckets by the RDMA device of their owner, then a column at a time.
Flattened ==
    LET devices == OwnerDevices
    IN Interleaved([d \in DOMAIN devices |-> OfDevice(devices[d])])

\* The least of the target ranks behind each of the first local devices.
ReceiverList ==
    LET targets == Picked([d \in DOMAIN local |-> local[d] \cap topo.ranks],
                          {d \in DOMAIN local : local[d] \cap topo.ranks # {}})
        n == MinOf(Len(targets), Len(OwnerDevices))
    IN [d \in 1 .. n |-> CHOOSE r \in targets[d] : \A q \in targets[d] : r <= q]

\* A plausible bug: a busy device does not end the pass.
DealBlindly(receivers, at, bucket) ==
    LET i == IF at.next > Len(receivers) THEN 1 ELSE at.next
    IN [dealt |-> Append(at.dealt, [receiver |-> receivers[i], bucket |-> bucket]),
        busy |-> {}, next |-> i + 1]

\* Give out one bucket: the next receiver takes it unless its owner's device is
\* busy or all receivers have one, then a new pass over the receivers begins.
Deal(receivers, at, bucket) ==
    LET again == at.next > Len(receivers) \/ Device(bucket) \in at.busy
        i == IF again THEN 1 ELSE at.next
    IN [dealt |-> Append(at.dealt, [receiver |-> receivers[i], bucket |-> bucket]),
        busy |-> (IF again THEN {} ELSE at.busy) \cup {Device(bucket)},
        next |-> i + 1]

Dealt == LET receivers == ReceiverList
         IN FoldLeft(LAMBDA at, b : Deal(receivers, at, b),
                     [dealt |-> <<>>, busy |-> {}, next |-> 1], Flattened).dealt

\* Without target ranks every owner broadcasts what it has.
Assigned ==
    IF topo.ranks = {}
    THEN [i \in DOMAIN buckets |-> [receiver |-> owners[buckets[i].owner], bucket |-> buckets[i]]]
    ELSE Dealt

AssignReceiverRanks ==
    /\ step = "cut"
    /\ plan' = Assigned
    /\ step' = "assigned"
    /\ UNCHANGED <<input, rdma, pools, metas, sizing, buckets, order>>

-----------------------------------------------------------------------------
(* The loops of _update_per_bucket.                                        *)

\* What a rank broadcasts, in order.
OwnBuckets(r) == Picked(plan, {i \in DOMAIN plan : plan[i].receiver = r})

Receivers == FirstSeen([i \in DOMAIN plan |-> plan[i].receiver])

\* What a rank sends, with the round in which it does.
Turns(r) == [i \in DOMAIN OwnBuckets(r) |->
                [receiver |-> r, round |-> i - 1, bucket |-> OwnBuckets(r)[i].bucket]]

\* A plausible bug: one receiver after the other.
ReceiverByReceiver == FlattenSeq([d \in DOMAIN Receivers |-> Turns(Receivers[d])])

\* Round by round, one bucket of each receiver that has one left.
SendOrder ==
    LET receivers == Receivers
    IN Interleaved([d \in DOMAIN receivers |-> Turns(receivers[d])])

Arrange ==
    /\ step = "assigned"
    /\ order' = SendOrder
    /\ step' = "ready"
    /\ UNCHANGED <<input, rdma, pools, metas, sizing, buckets, plan>>

Finished == step \in {"ready", "failed"} /\ UNCHANGED vars

Next == NewParameterServer \/ RegisterCheckpoint \/ GatherMetas \/ DetectBucketSize \/ GenH2DBuckets
        \/ AssignReceiverRanks \/ Arrange \/ Finished

Spec == Init /\ [][Next]_vars

-----------------------------------------------------------------------------
(* Properties.                                                             *)

Tensors == UNION {UNION {{<<o, b, k>> : k \in DOMAIN pools[o][b]} : b \in DOMAIN pools[o]} :
                  o \in DOMAIN pools}

TensorAt(o, item) == pools[o][item[1]][item[2]]

\* Where a tensor starts in its memory buffer (register_tensor's offsets).
PinnedAt(o, item) == SumOf(Sizes(SubSeq(pools[o][item[1]], 1, item[2] - 1)))

\* Where the bucket sent as number g, from 0, begins in the double buffer.
Start(g) == (g % 2) * sizing.size

\* Where the i-th tensor of a bucket begins in it, and where the worker finds it in
\* the double buffer (_to_named_tensor).
OffsetOf(bucket, i) ==
    SumOf([j \in 1 .. i - 1 |-> TensorAt(bucket.owner, bucket.items[j]).size])
SentAt(g, bucket, i) == Start(g) + OffsetOf(bucket, i)

\* The bytes of a bucket, as <<memory buffer, offset>>, in the order in which
\* _copy_to_buffer lays out its ranges.
Bytes(bucket) ==
    FlattenSeq([i \in DOMAIN bucket.ranges |->
        [x \in 1 .. bucket.ranges[i].size |->
            <<bucket.ranges[i].idx, bucket.ranges[i].offset + x - 1>>]])

\* What is at an address of the double buffer when bucket g is there.
BufferAt(g, bucket, a) == Bytes(bucket)[a - Start(g) + 1]

\* The worker reads each tensor, from where the metadata says it is in the double
\* buffer, as the very bytes its owner has pinned for it: ranges and items of a
\* bucket agree.  It is at an address its element type allows, in the second half
\* too, unless tensors are pinned in place or PS_MAX_BUCKET_SIZE_GB is no multiple
\* of the alignment.
LayoutFaithful ==
    /\ \A n \in DOMAIN buckets : Len(Bytes(buckets[n])) = buckets[n].size
    /\ step = "ready" => \A n \in DOMAIN order : LET bucket == order[n].bucket IN
          \A i \in DOMAIN bucket.items :
             LET t == bucket.items[i]
                 at == SentAt(n - 1, bucket, i) IN
             /\ \A x \in 0 .. TensorAt(bucket.owner, t).bytes - 1 :
                   BufferAt(n - 1, bucket, at + x) = <<t[1], PinnedAt(bucket.owner, t) + x>>
             /\ ~inplace /\ MaxBucket % Align = 0 => at % TensorAt(bucket.owner, t).item = 0

\* The places in the order at which a tensor is sent, and which one it is.
Places == UNION {{<<n, i>> : i \in DOMAIN order[n].bucket.items} : n \in DOMAIN order}
SentIn(p) == LET bucket == order[p[1]].bucket
             IN <<bucket.owner, bucket.items[p[2]][1], bucket.items[p[2]][2]>>

\* Every tensor of every owner is sent, none is sent twice, and nothing else is.
EveryTensorOnce ==
    step = "ready" =>
        /\ \A t \in Tensors : Quantify(Places, LAMBDA p : SentIn(p) = t) = 1
        /\ \A p \in Places : SentIn(p) \in Tensors

\* The buffers fit in the memory that was free on the poorest rank, and every
\* bucket in a half of the double buffer (and in the h2d_buffer).
MemoryFits ==
    step \in {"sized", "cut", "assigned", "ready"} =>
        /\ (IF sizing.h2d THEN 3 ELSE 2) * sizing.size <= free
        /\ \A n \in DOMAIN buckets : buckets[n].size <= sizing.size

\* The order is one the update loop can work with: rounds follow one another,
\* no receiver sends twice in a round, and each sends in every round up to its
\* last (in pass i a rank stages its i-th bucket if it has one: UpdatePipeline).
PipelineReady ==
    step = "ready" =>
        /\ \A n \in 1 .. Len(order) - 1 :
              order[n + 1].round \in {order[n].round, order[n].round + 1}
        /\ \A m, n \in DOMAIN order :
              order[m].receiver = order[n].receiver /\ order[m].round = order[n].round => m = n
        /\ \A n \in DOMAIN order : order[n].round > 0 =>
              \E m \in DOMAIN order : /\ order[m].receiver = order[n].receiver
                                      /\ order[m].round = order[n].round - 1

\* Only target ranks receive, and while they read they do not share a sender's
\* RDMA device ("topology will be considered to make full use of the bandwidth",
\* ps.py:117).
SendersDistinct ==
    step = "ready" /\ topo.ranks # {} =>
        /\ \A n \in DOMAIN order : order[n].receiver \in topo.ranks
        /\ \A m, n \in DOMAIN order :
              order[m].round = order[n].round /\ Device(order[m].bucket) = Device(order[n].bucket)
                  => m = n

\* On every host each RDMA device in use serves as many ranks as any other, and
\* none is left idle ("if network card is mlx5_0,mlx5_1, then 0-3 will share
\* mlx5_0, 4-7 will share mlx5_1", device_utils.py:87).
DevicesEven ==
    rdma.here # <<>> =>
        \A host \in ToSet(topo.here) : \E n \in 1 .. host.gpus :
            \A d \in ToSet(GetRdmaDevices(host)) :
                Quantify(DOMAIN rdma.here, LAMBDA r : /\ rdma.here[r][2] = host.name
                                                       /\ Contains(rdma.here[r][1], d)) = n
=============================================================================
