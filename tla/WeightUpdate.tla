---------------------------- MODULE WeightUpdate ----------------------------
(***************************************************************************)
(* What one call of ParameterServer.update promises the inference engine, *)
(* with the two buffers, the sockets and the collectives hidden: every     *)
(* worker loads the buckets 0, 1, ... in order, no worker is more than one *)
(* bucket ahead of another, and the call either returns on every rank or   *)
(* raises on every rank.  A worker that cannot load a bucket skips it and  *)
(* waits for the verdict.  The failure of the LAST bucket is the exception *)
(* the code makes: it does not make the call raise.                        *)
(***************************************************************************)
EXTENDS Integers, Sequences

CONSTANTS
    Rank,       \* the ranks of the group that takes part in the update
    NBuckets    \* how many buckets the checkpoint is cut into

VARIABLES
    applied,    \* applied[w]: the buckets worker w has loaded, in order
    fault,      \* fault[w]: the failure of worker w, if it had one
    verdict     \* verdict[r]: how update ended on rank r

vars == <<applied, fault, verdict>>

\* The bucket worker w answers for next.
Turn(w) == Len(applied[w]) + (IF fault[w] = "load" THEN 1 ELSE 0)

\* A worker is handed a bucket once every worker has answered for the bucket
\* before it, and none of the answers was a failure.
MayLoad(w) ==
    /\ fault[w] = "none"
    /\ Turn(w) < NBuckets
    /\ \A v \in Rank : fault[v] # "attach" /\ Len(applied[v]) >= Turn(w)

Init ==
    /\ applied = [w \in Rank |-> <<>>]
    /\ fault = [w \in Rank |-> "none"]
    /\ verdict = [r \in Rank |-> "none"]

Load(w) ==
    /\ MayLoad(w)
    /\ applied' = [applied EXCEPT ![w] = Append(@, Turn(w))]
    /\ UNCHANGED <<fault, verdict>>

LoadFails(w) ==
    /\ MayLoad(w)
    /\ fault' = [fault EXCEPT ![w] = "load"]
    /\ UNCHANGED <<applied, verdict>>

\* A worker that cannot map the buffer stops the update before the first bucket.
AttachFails(w) ==
    /\ fault[w] = "none"
    /\ \A v \in Rank : applied[v] = <<>> /\ fault[v] # "load"
    /\ fault' = [fault EXCEPT ![w] = "attach"]
    /\ UNCHANGED <<applied, verdict>>

Return(r) ==
    /\ verdict[r] = "none"
    /\ \A w \in Rank : fault[w] # "attach" /\ Turn(w) = NBuckets
    /\ verdict' = [verdict EXCEPT ![r] = "returned"]
    /\ UNCHANGED <<applied, fault>>

Raise(r) ==
    /\ verdict[r] = "none"
    /\ \E w \in Rank : \/ fault[w] = "attach"
                       \/ fault[w] = "load" /\ Turn(w) < NBuckets
    /\ verdict' = [verdict EXCEPT ![r] = "raised"]
    /\ UNCHANGED <<applied, fault>>

Next == \E r \in Rank : Load(r) \/ LoadFails(r) \/ AttachFails(r) \/ Return(r) \/ Raise(r)

Spec == Init /\ [][Next]_vars
=============================================================================
