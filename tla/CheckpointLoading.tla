-------------------------- MODULE CheckpointLoading --------------------------
(***************************************************************************)
(* The files of a checkpoint, from the directory to the tensors a rank     *)
(* registers: every rank takes its share of the files                      *)
(* (split_checkpoint_files of examples/update.py) or is given a list of    *)
(* its own, loads them one by one, and puts the tensor-parallel shards of  *)
(* each parameter together (_load_checkpoint of pin_memory.py).            *)
(*                                                                         *)
(* A tensor is its rows and its columns; its data is the place it was read *)
(* from, <<file, name>>.  A file has a type, the tp rank in its name (0 if *)
(* it is a safetensors file), and weights.                                 *)
(***************************************************************************)
EXTENDS Lists

CONSTANTS
    Checkpoints,    \* sequences of files, in the order of their names
    WorldSizes      \* the numbers of ranks that share one

ASSUME LoadingAssumption ==
    /\ WorldSizes \subseteq Nat \ {0}
    /\ \A c \in Checkpoints :
          /\ Len(c) \in Nat /\ c = [i \in 1 .. Len(c) |-> c[i]]
          /\ \A i \in DOMAIN c : c[i].tp \in Nat /\ \A n \in DOMAIN c[i].weights : c[i].weights[n].dim \in Int

VARIABLES
    checkpoint,     \* the files of the checkpoint
    worldSize,      \* the number of ranks
    share,          \* share[r + 1]: the numbers of the files rank r loads, in order
    rank,           \* the rank that loads them
    done,           \* how many of its files it has loaded
    withTP,         \* parameters_with_tp: by name and tp rank, data and shape
    tpMetas,        \* tp_metas: by name, concat_dim and size
    shapes,         \* parameter_metas: by name, the shape
    parameters,     \* what is returned: by name, the data of its shards
    step            \* "splitting", "loading", "loaded", or "failed"

shared == <<checkpoint, worldSize, share, rank>>
tables == <<withTP, tpMetas, shapes>>
vars == <<shared, done, tables, parameters, step>>

Ranks == 0 .. worldSize - 1
Concatenated(dim) == dim # -1

Init ==
    /\ checkpoint \in Checkpoints /\ worldSize \in WorldSizes
    /\ share = <<>> /\ rank \in Ranks /\ done = 0
    /\ withTP = <<>> /\ tpMetas = <<>> /\ shapes = <<>> /\ parameters = <<>>
    /\ step = "splitting"

-----------------------------------------------------------------------------
(* Which rank loads which files.                                           *)

SafeTensors == InOrder({f \in DOMAIN checkpoint : checkpoint[f].type = "safetensors"})

\* A plausible bug: the last files are forgotten.
RoundedDown == Len(SafeTensors) \div worldSize

FilesPerRank == (Len(SafeTensors) + worldSize - 1) \div worldSize

\* A slice of the sorted names, which Python cuts off at the end of the list.
SplitCheckpointFiles ==
    /\ step = "splitting"
    /\ share' = [r \in 1 .. worldSize |->
                    SubSeq(SafeTensors, (r - 1) * FilesPerRank + 1,
                           Min({r * FilesPerRank, Len(SafeTensors)}))]
    /\ step' = "loading"
    /\ UNCHANGED <<checkpoint, worldSize, rank, done, tables, parameters>>

\* register_checkpoint with a list of files: here all of them, in any order.
GiveFiles ==
    /\ step = "splitting" /\ worldSize = 1
    /\ \E list \in SetToSeqs(DOMAIN checkpoint) : share' = <<list>>
    /\ step' = "loading"
    /\ UNCHANGED <<checkpoint, worldSize, rank, done, tables, parameters>>

-----------------------------------------------------------------------------
(* _load_checkpoint.                                                       *)

File == share[rank + 1][done + 1]

\* The function f, with the keys of g that it does not have.
WithNew(f, g) == [x \in DOMAIN f \cup DOMAIN g |-> IF x \in DOMAIN f THEN f[x] ELSE g[x]]

\* The shard is that of the file's tp rank; an earlier one of that rank is lost.
AddShard(f, name, old) ==
    LET w == checkpoint[f].weights[name]
        shard == [data |-> <<f, name>>, shape |-> w.shape]
    IN [k \in DOMAIN old \cup {checkpoint[f].tp} |->
           IF k = checkpoint[f].tp THEN shard ELSE old[k]]

\* As many shards as the largest tp rank asks for.
LargestSize(meta, tp) ==
    IF Concatenated(meta.dim) THEN [meta EXCEPT !.size = Max({@, tp + 1})] ELSE meta

\* One file: the first to name a parameter fixes its concat_dim and its shape.
LoadFile ==
    /\ step = "loading" /\ done < Len(share[rank + 1])
    /\ LET weights == checkpoint[File].weights
           old(name) == IF name \in DOMAIN withTP THEN withTP[name] ELSE <<>>
           metas == WithNew(tpMetas, [n \in DOMAIN weights |-> [dim |-> weights[n].dim, size |-> 1]])
       IN
       /\ withTP' = WithNew([n \in DOMAIN weights |-> AddShard(File, n, old(n))], withTP)
       /\ tpMetas' = [n \in DOMAIN metas |->
                         IF n \in DOMAIN weights
                         THEN LargestSize(metas[n], checkpoint[File].tp) ELSE metas[n]]
       /\ shapes' = WithNew(shapes, [n \in DOMAIN weights |-> weights[n].shape])
    /\ done' = done + 1
    /\ UNCHANGED <<shared, parameters, step>>

\* A plausible bug: the shards are put together in the order of the files.
InFileOrder(name) ==
    SetToSortSeq(Range(withTP[name]), LAMBDA a, b : a.data[1] < b.data[1])

\* The shards of a parameter by tp rank.
Shards(name) == Picked(withTP[name], DOMAIN withTP[name])

\* A parameter that is not cut takes the first shard; any other takes all.
Taken(name) ==
    IF Concatenated(tpMetas[name].dim) THEN Shards(name) ELSE <<Shards(name)[1]>>

\* _concat_tp_weights asserts that it has all the shards; torch.cat wants the
\* other dimension to be the same.
CanConcat(name) ==
    Concatenated(tpMetas[name].dim) =>
        /\ Len(Shards(name)) = tpMetas[name].size
        /\ \A i \in DOMAIN Shards(name) :
              Shards(name)[i].shape[2 - tpMetas[name].dim] = Shards(name)[1].shape[2 - tpMetas[name].dim]

\* The shape of what it returns, and the shape the first file makes expect.
ShapeOf(name) ==
    [d \in 1 .. 2 |->
        IF d = tpMetas[name].dim + 1
        THEN SumOf([i \in DOMAIN Taken(name) |-> Taken(name)[i].shape[d]])
        ELSE Taken(name)[1].shape[d]]
Expected(name) ==
    [d \in 1 .. 2 |-> IF d = tpMetas[name].dim + 1
                      THEN shapes[name][d] * tpMetas[name].size ELSE shapes[name][d]]

\* Put the shards together, and check the result against the metas.
Concat ==
    /\ step = "loading" /\ done = Len(share[rank + 1])
    /\ IF \A n \in DOMAIN withTP : CanConcat(n) /\ ShapeOf(n) = Expected(n)
       THEN /\ parameters' = [n \in DOMAIN withTP |->
                                [i \in DOMAIN Taken(n) |-> Taken(n)[i].data]]
            /\ step' = "loaded"
       ELSE step' = "failed" /\ UNCHANGED parameters
    /\ UNCHANGED <<shared, done, tables>>

Finished == step \in {"loaded", "failed"} /\ UNCHANGED vars

Next == SplitCheckpointFiles \/ GiveFiles \/ LoadFile \/ Concat \/ Finished

Spec == Init /\ [][Next]_vars

-----------------------------------------------------------------------------
(* Properties.                                                             *)

\* Every safetensors file of a directory is loaded by one rank, although some
\* ranks may get none (update_weights registers on every rank what it loads).
EveryFileOnce ==
    step # "splitting" =>
        \A f \in Range(SafeTensors) :
            Cardinality({at \in (1 .. worldSize) \X DOMAIN checkpoint :
                            at[2] \in DOMAIN share[at[1]] /\ share[at[1]][at[2]] = f}) = 1

\* The data and tp rank of every tensor called name among the files of the rank.
Pieces(name) ==
    {f \in Range(share[rank + 1]) : name \in DOMAIN checkpoint[f].weights}

\* In whatever order its files come: a parameter that is cut consists of one
\* shard of each tp rank from 0 to the largest there is, in this order, and a
\* parameter of which one in between is missing is refused.
ShardsInPlace ==
    step = "loaded" =>
        \A name \in DOMAIN parameters : Concatenated(tpMetas[name].dim) =>
            LET tps == {checkpoint[f].tp : f \in Pieces(name)} IN
            /\ Len(parameters[name]) = Max(tps) + 1
            /\ \A i \in DOMAIN parameters[name] :
                  LET at == parameters[name][i] IN
                  /\ at[1] \in Pieces(name) /\ at[2] = name
                  /\ checkpoint[at[1]].tp = i - 1

-----------------------------------------------------------------------------
(* The inductive invariant behind them.                                    *)

TypeOK ==
    /\ checkpoint \in Checkpoints /\ worldSize \in WorldSizes /\ rank \in Ranks
    /\ step \in {"splitting", "loading", "loaded", "failed"} /\ done \in Nat
    /\ IF step = "splitting" THEN done = 0
       ELSE /\ share \in [1 .. worldSize -> Seq(DOMAIN checkpoint)]
            /\ done <= Len(share[rank + 1])

\* The files loaded so far, and those of them that name a parameter.
Loaded == {share[rank + 1][i] : i \in 1 .. done}
LoadedPieces(name) == {f \in Loaded : name \in DOMAIN checkpoint[f].weights}

\* What they have put into the tables.
TablesOf(name) ==
    LET of == LoadedPieces(name)
        meta == tpMetas[name]
    IN
    /\ DOMAIN withTP[name] = {checkpoint[f].tp : f \in of}
    /\ \A k \in DOMAIN withTP[name] :
          \E f \in of : withTP[name][k].data = <<f, name>> /\ checkpoint[f].tp = k
    /\ meta \in [dim : Int, size : Nat]
    /\ Concatenated(meta.dim) =>
          /\ \A f \in of : checkpoint[f].tp < meta.size
          /\ \E f \in of : checkpoint[f].tp + 1 = meta.size

\* While a rank loads its files, a parameter has one shard of each tp rank its
\* files have named, read from a file of that rank, and as many are expected as
\* the largest of these ranks asks for: no order of the files loses one.
LoadingInv ==
    /\ TypeOK
    /\ DOMAIN withTP = UNION {DOMAIN checkpoint[f].weights : f \in Loaded}
    /\ DOMAIN tpMetas = DOMAIN withTP
    /\ \A name \in DOMAIN withTP : TablesOf(name)
=============================================================================
