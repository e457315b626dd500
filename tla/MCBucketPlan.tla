---------------------------- MODULE MCBucketPlan ----------------------------
(***************************************************************************)
(* Instances of BucketPlan for TLC.                                        *)
(***************************************************************************)
EXTENDS BucketPlan

T(bytes, item) == [bytes |-> bytes, item |-> item]

\* Tensors of one- and two-byte elements, of one to three bytes.
SmallTensors == {T(1, 1), T(2, 2), T(3, 1)}
SmallFiles == {<<>>} \cup BoundedSeq(SmallTensors, 2)

\* Three ranks: one or two files, none, and one file.
Checkpoints(Files) ==
    {<<a, <<>>, b>> : a \in BoundedSeq(Files, 2) \ {<<>>},
                      b \in {<< <<T(2, 2)>> >>, << <<T(3, 1), T(1, 1)>> >>}}

Unset == [exclude |-> FALSE, exact |-> FALSE, tokens |-> <<>>]
Host(name, gpus, available, hca) ==
    [name |-> name, gpus |-> gpus, available |-> available, chosen |-> <<>>, hca |-> hca]
Cards(family, n) == [k \in 1 .. n |-> <<family, k>>]

\* Every owner broadcasts its own buckets; three ranks on one host.
OneHost == <<Host("a", 3, Cards(5, 3), Unset)>>
Broadcast == [ranks |-> {}, here |-> OneHost, there |-> OneHost]

Broadcasts(Files, Inplace) ==
    [files : Checkpoints(Files), topo : {Broadcast}, free : {5, 8, 13, 18, 30}, inplace : Inplace]

\* Eight ranks: four with one to three buckets each (a tensor is as large as a
\* bucket), and four without files.
Repeat(t, n) == << [k \in 1..n |-> t] >>
FourOwners == {[r \in 1..8 |-> IF r <= 4 THEN Repeat(T(2, 2), n[r]) ELSE <<>>] :
                  n \in [1..4 -> 1..3]}

\* A host of four GPUs with one, two, four or eight cards in use, of one or two
\* families, by default, by NCCL_IB_HCA (=mlx5_1, =mlx5_1,mlx5_4, ^mlx4, and a list
\* that leaves none) or by PS_P2P_STORE_RDMA_DEVICES; with three it does not start.
HostsOf(name) ==
    {Host(name, 4, Cards(5, n), Unset) : n \in {3, 4, 8}}
        \cup {Host(name, 4, Cards(5, 4), [exclude |-> FALSE, exact |-> TRUE, tokens |-> ts]) :
                  ts \in {<< <<5, 1>> >>, << <<5, 4>>, <<5, 1>> >>}}
        \cup {Host(name, 4, Cards(4, 2) \o Cards(5, 2), hca) :
                  hca \in {[exclude |-> TRUE, exact |-> FALSE, tokens |-> << <<4>> >>],
                           [exclude |-> TRUE, exact |-> FALSE, tokens |-> << <<4>>, <<5>> >>]}}
        \cup {[Host(name, 4, Cards(5, 4), Unset) EXCEPT !.chosen = << <<5, 4>>, <<5, 2>> >>]}

\* P2P updates of some of the ranks of the second host, from owners on the first;
\* and of ranks of both from owners on a host of another deployment.
Pairs == {<<a, b>> : a \in HostsOf("a"), b \in HostsOf("b")}
P2P == {[ranks |-> rs, here |-> hs, there |-> hs] : hs \in Pairs, rs \in {{4, 6}, {5, 6, 7}}}
          \cup {[ranks |-> {1, 3, 4}, here |-> hs, there |-> <<c, [c EXCEPT !.name = "d"]>>] :
                   hs \in Pairs, c \in {Host("c", 4, Cards(6, 2), Unset)}}

SmallDeployments ==
    Broadcasts(SmallFiles, BOOLEAN)
        \cup [files : FourOwners, topo : P2P, free : {6}, inplace : {FALSE}]

\* The hypothesis of BucketPlanProofs!DevicesAlwaysEven.
ASSUME MCChosenOnce == ChosenOnce
=============================================================================
