--------------------------- MODULE RegistryProofs ---------------------------
(***************************************************************************)
(* What holds of the registered checkpoints, for any names, any regions    *)
(* and any faults: what is published is a buffer of a pool, the store and  *)
(* the pools match, the pins and the pools match, and the shared pool is   *)
(* reused as it is until it is freed on purpose.                           *)
(***************************************************************************)
EXTENDS Registry, SequenceTheorems, TLAPS

-----------------------------------------------------------------------------
(* Pools and their regions.                                                *)

LEMMA NamesFacts == Names \subseteq Pools /\ SharedPool \in Pools /\ SharedPool \notin Names
BY RegistryAssumption DEF Pools

LEMMA PoolNames == ASSUME TypeOK, call.name \in Names PROVE PoolName(call.name) \in Pools
BY NamesFacts DEF PoolName

LEMMA PoolFacts ==
    ASSUME TypeOK, NEW c \in Pools
    PROVE  /\ pool[c] \in Seq(Regions) /\ RegionsOf(c) \subseteq Regions
           /\ DOMAIN pool[c] = 1 .. Len(pool[c]) /\ Len(pool[c]) \in Nat
           /\ RegionsOf(c) = {pool[c][i] : i \in 1 .. Len(pool[c])}
<1>1. pool[c] \in Seq(Regions)
  BY DEF TypeOK
<1>. QED
  BY <1>1, LenProperties, RangeOfSeq, RangeEquality DEF RegionsOf

LEMMA LiveIs == \A x : x \in Live <=> \E c \in Pools : x \in RegionsOf(c)
BY Zenon DEF Live

\* Two lists of regions, one after the other.
LEMMA Chosen ==
    ASSUME NEW sizes \in Seq(Nat), NEW bs \in Fresh(sizes), NEW n \in Nat, NEW fs \in FreshFiles(n)
    PROVE  /\ bs \in Seq(Regions) /\ Range(bs) \subseteq Unused \ Files
           /\ bs \o fs \in Seq(Regions) /\ Range(bs \o fs) \subseteq Unused
           /\ Range(fs) = Range(bs \o fs) \cap Files
<1>1. Len(sizes) \in Nat
  BY LenProperties
<1>2. bs \in Seq(Regions) /\ bs \in [1 .. Len(sizes) -> Unused \ Files]
  BY <1>1 DEF Fresh, Unused
<1>3. fs \in Seq(Regions) /\ fs \in [1 .. n -> Unused \cap Files]
  BY DEF FreshFiles, Unused
<1>4. Range(bs) \subseteq Unused \ Files
  BY <1>2 DEF Range
<1>5. Range(fs) \subseteq Unused \cap Files
  BY <1>3 DEF Range
<1>6. bs \o fs \in Seq(Regions) /\ Range(bs \o fs) = Range(bs) \cup Range(fs)
  BY <1>2, <1>3, ConcatProperties, RangeConcatenation
<1>. QED
  BY <1>2, <1>4, <1>5, <1>6

\* A single pool changes.
LEMMA PoolChanges ==
    ASSUME TypeOK, NEW c \in Pools, NEW bs \in Seq(Regions), pool' = [pool EXCEPT ![c] = bs]
    PROVE  /\ pool' \in [Pools -> Seq(Regions)]
           /\ pool'[c] = bs /\ RegionsOf(c)' = Range(bs)
           /\ \A d \in Pools \ {c} :
                 pool'[d] = pool[d] /\ RegionsOf(d)' = RegionsOf(d) /\ KeysOf(d)' = KeysOf(d)
           /\ \A x : x \in Live' <=> x \in Range(bs) \/ \E d \in Pools \ {c} : x \in RegionsOf(d)
<1>1. pool' \in [Pools -> Seq(Regions)] /\ pool'[c] = bs
  BY DEF TypeOK
<1>2. \A d \in Pools \ {c} : pool'[d] = pool[d]
  BY DEF TypeOK
<1>3. RegionsOf(c)' = Range(bs) /\ \A d \in Pools \ {c} : RegionsOf(d)' = RegionsOf(d)
  BY <1>1, <1>2, Zenon DEF RegionsOf
<1>4. \A d \in Pools \ {c} : KeysOf(d)' = KeysOf(d)
  BY <1>2, Zenon DEF KeysOf
<1>5. \A x : x \in Live' <=> x \in Range(bs) \/ \E d \in Pools \ {c} : x \in RegionsOf(d)
  <2>1. \A x : x \in Live' <=> \E d \in Pools : x \in RegionsOf(d)'
    BY Zenon DEF Live
  <2>. QED
    BY <1>3, <2>1
<1>. QED
  BY <1>1, <1>2, <1>3, <1>4, <1>5

\* No pool changes.
LEMMA PoolsStay ==
    ASSUME UNCHANGED pool
    PROVE  Live' = Live /\ \A c \in Pools : RegionsOf(c)' = RegionsOf(c) /\ KeysOf(c)' = KeysOf(c)
<1>1. \A c \in Pools : RegionsOf(c)' = RegionsOf(c) /\ KeysOf(c)' = KeysOf(c)
  BY Zenon DEF RegionsOf, KeysOf
<1>2. Live' = Live
  BY Zenon DEF Live, RegionsOf
<1>. QED
  BY <1>1, <1>2

-----------------------------------------------------------------------------
(* The steps, by what they change.                                         *)

\* The steps that start a call, or refuse it.
Starts(c) ==
    \/ \E shared \in BOOLEAN : RegisterRefused(c, shared) \/ RegisterFails(c, shared)
    \/ \E sizes \in Shapes : RegisterMisfit(c, sizes)
    \/ \E force \in BOOLEAN : UnregisterCheckpoint(c, force)

LEMMA Steps ==
    ASSUME [Next]_vars
    PROVE  \/ \E c \in Names : \/ Starts(c) \/ PinFails(c)
                               \/ \E sizes \in Shapes : \/ RegisterShared(c, sizes)
                                                        \/ \E n \in 0 .. MaxFiles : RegisterPrivate(c, sizes, n)
           \/ Publish \/ PublishFails \/ Rollback \/ Unregister \/ WithdrawCheckpoint
           \/ FreeShared \/ FreePrivate \/ UnpinFails \/ UNCHANGED vars
BY Zenon DEF Next, Register, Starts

LEMMA StartsFrame ==
    ASSUME NEW c \in Names, Starts(c)
    PROVE  /\ pc = "idle" /\ pc' \in {"rollback", "unregister"}
           /\ UNCHANGED <<hasStore, memory, published, pinned>>
           /\ call'.name = c /\ call'.raised = FALSE
           /\ \/ pc' = "rollback" /\ call'.op = "register" /\ call'.force = FALSE
                 /\ mishaps' = mishaps \cup Clash(c) /\ Polite(c) /\ call'.shared \in BOOLEAN
              \/ pc' = "unregister" /\ call'.op = "unregister" /\ call'.force \in BOOLEAN
                 /\ mishaps' = mishaps /\ call'.shared = FALSE
<1>1. ASSUME NEW shared \in BOOLEAN, Refuse(c, shared), Polite(c)
      PROVE  /\ pc = "idle" /\ pc' = "rollback" /\ UNCHANGED <<hasStore, memory, published, pinned>>
             /\ call'.name = c /\ call'.raised = FALSE /\ call'.shared \in BOOLEAN
             /\ call'.op = "register" /\ call'.force = FALSE /\ mishaps' = mishaps \cup Clash(c)
  BY <1>1 DEF Refuse, Begin
<1>2. ASSUME NEW shared \in BOOLEAN, RegisterRefused(c, shared) \/ RegisterFails(c, shared)
      PROVE  Refuse(c, shared) /\ Polite(c)
  BY <1>2 DEF RegisterRefused, RegisterFails
<1>3. ASSUME NEW sizes \in Shapes, RegisterMisfit(c, sizes) PROVE Refuse(c, TRUE) /\ Polite(c)
  BY <1>3 DEF RegisterMisfit
<1>4. ASSUME NEW force \in BOOLEAN, UnregisterCheckpoint(c, force)
      PROVE  /\ pc = "idle" /\ pc' = "unregister" /\ UNCHANGED <<hasStore, memory, published, pinned>>
             /\ call'.name = c /\ call'.raised = FALSE /\ call'.shared = FALSE
             /\ call'.op = "unregister" /\ call'.force \in BOOLEAN /\ mishaps' = mishaps
  BY <1>4 DEF UnregisterCheckpoint, Begin
<1>5. CASE \E shared \in BOOLEAN : RegisterRefused(c, shared) \/ RegisterFails(c, shared)
  BY <1>5, <1>1, <1>2
<1>6. CASE \E sizes \in Shapes : RegisterMisfit(c, sizes)
  BY <1>6, <1>1, <1>3
<1>7. CASE \E force \in BOOLEAN : UnregisterCheckpoint(c, force)
  BY <1>7, <1>4
<1>. QED
  BY <1>5, <1>6, <1>7 DEF Starts

\* What a registration puts into the pools.
LEMMA PrivateFrame ==
    ASSUME NEW c \in Names, NEW sizes \in Shapes, NEW n \in 0 .. MaxFiles, RegisterPrivate(c, sizes, n)
    PROVE  /\ \E bs \in Seq(Regions) :
                 /\ pool' = [pool EXCEPT ![c] = bs] /\ Range(bs) \subseteq Unused
                 /\ pinned' = pinned \cup (Range(bs) \cap Files)
           /\ pc = "idle" /\ c \notin registered /\ registered' = registered \cup {c} /\ Polite(c)
           /\ pc' = IF hasStore THEN "publish" ELSE "idle"
           /\ call' = [name |-> c, op |-> "register", shared |-> FALSE, force |-> FALSE, raised |-> FALSE]
           /\ mishaps' = mishaps \cup Clash(c) /\ UNCHANGED <<hasStore, user, published>>
<1>1. sizes \in Seq(Nat) /\ n \in Nat
  BY RegistryAssumption
<1>2. PICK normal \in Fresh(sizes), files \in FreshFiles(n) :
          /\ pool' = [pool EXCEPT ![c] = normal \o files]
          /\ pinned' = pinned \cup Range(files)
  BY DEF RegisterPrivate
<1>3. /\ normal \o files \in Seq(Regions) /\ Range(normal \o files) \subseteq Unused
      /\ Range(files) = Range(normal \o files) \cap Files
  BY <1>1, Chosen
<1>4. \E bs \in Seq(Regions) :
          /\ pool' = [pool EXCEPT ![c] = bs] /\ Range(bs) \subseteq Unused
          /\ pinned' = pinned \cup (Range(bs) \cap Files)
  BY <1>2, <1>3
<1>. QED
  BY <1>4 DEF RegisterPrivate, Begin

LEMMA SharedFrame ==
    ASSUME TypeOK, NEW c \in Names, NEW sizes \in Shapes, RegisterShared(c, sizes)
    PROVE  LET old == pool[SharedPool] IN
           /\ \E bs \in Seq(Regions) :
                 /\ pool' = [pool EXCEPT ![SharedPool] = bs]
                 /\ \/ old = <<>> /\ Range(bs) \subseteq Unused \ Files
                    \/ /\ old # <<>> /\ IsPrefix(bs, old) /\ Range(bs) \subseteq Range(old)
                       /\ "shrunk" \notin mishaps' => bs = old
           /\ pc = "idle" /\ user = Nobody /\ user' = c /\ Polite(c)
           /\ pc' = IF hasStore /\ old = <<>> THEN "publish" ELSE "idle"
           /\ call' = [name |-> c, op |-> "register", shared |-> TRUE, force |-> FALSE, raised |-> FALSE]
           /\ mishaps \cup Clash(c) \subseteq mishaps'
           /\ mishaps' \subseteq mishaps \cup Clash(c) \cup {"shrunk"}
           /\ UNCHANGED <<hasStore, registered, published, pinned>>
<1>. DEFINE old == pool[SharedPool]
            k == Len(sizes)
<1>1. sizes \in Seq(Nat) /\ k \in Nat
  BY RegistryAssumption, LenProperties
<1>2. old \in Seq(Regions) /\ Len(old) \in Nat
  BY NamesFacts, PoolFacts
<1>3. CASE old = <<>>
  <2>1. PICK bs \in Fresh(sizes) : pool' = [pool EXCEPT ![SharedPool] = bs]
    BY <1>3 DEF RegisterShared
  <2>2. bs \in Seq(Regions) /\ Range(bs) \subseteq Unused \ Files
    <3>1. <<>> \in FreshFiles(0)
      BY DEF FreshFiles, IsInjective
    <3>. QED
      BY <1>1, <3>1, Chosen
  <2>. QED
    BY <1>3, <2>1, <2>2 DEF RegisterShared, Begin, Shrinks
<1>4. CASE old # <<>>
  <2>. DEFINE bs == SubSeq(old, 1, k)
  <2>1. pool' = [pool EXCEPT ![SharedPool] = bs] /\ Fits(sizes, old)
    BY <1>4 DEF RegisterShared
  <2>2. k <= Len(old)
    BY <1>1, <2>1 DEF Fits
  <2>3. \A i \in 1 .. k : old[i] \in Regions
    BY <1>1, <1>2, <2>2
  <2>4. bs \in Seq(Regions) /\ Len(bs) = k /\ \A i \in 1 .. k : bs[i] = old[i]
    <3>1. /\ bs \in Seq(Regions) /\ Len(bs) = (IF 1 <= k THEN k - 1 + 1 ELSE 0)
          /\ \A i \in 1 .. (k - 1 + 1) : bs[i] = old[1 + i - 1]
      BY <1>1, <2>3, SubSeqProperties
    <3>. QED
      BY <1>1, <3>1
  <2>5. Range(bs) \subseteq Range(old)
    <3>1. Range(bs) = {bs[i] : i \in 1 .. k}
      BY <2>4, RangeEquality
    <3>2. Range(old) = {old[i] : i \in 1 .. Len(old)}
      BY <1>2, RangeEquality
    <3>. QED
      BY <1>1, <1>2, <2>2, <2>4, <3>1, <3>2
  <2>6. IsPrefix(bs, old)
    <3>1. SubSeq(bs, 1, Len(bs)) = bs
      BY <2>4, SubSeqFull
    <3>. QED
      BY <2>2, <2>4, <3>1 DEF IsPrefix
  <2>7. "shrunk" \notin mishaps' => bs = old
    <3>1. "shrunk" \notin mishaps' => ~(k < Len(old))
      BY DEF RegisterShared, Shrinks
    <3>. QED
      BY <1>1, <1>2, <2>2, <3>1, SubSeqFull
  <2>. QED
    BY <1>4, <2>1, <2>4, <2>5, <2>6, <2>7 DEF RegisterShared, Begin, Shrinks
<1>. QED
  BY <1>3, <1>4

\* What a publication and a withdrawal do to the store.
LEMMA EntriesFacts ==
    ASSUME TypeOK, NEW c, PoolName(c) \in Pools
    PROVE  LET p == PoolName(c) IN
           /\ DOMAIN Entries(c) = DOMAIN named \cup KeysOf(p)
           /\ \A k \in KeysOf(p) : Entries(c)[k] = pool[p][k[2]] /\ k[1] = p /\ k[2] \in DOMAIN pool[p]
           /\ \A k \in DOMAIN named \ KeysOf(p) : Entries(c)[k] = named[k]
<1>. DEFINE p == PoolName(c)
            keys == {Key(c, i) : i \in 1 .. Len(pool[p])}
<1>1. keys = KeysOf(p)
  BY PoolFacts DEF KeysOf, Key
<1>2. Entries(c) = [k \in DOMAIN named \cup keys |-> IF k \in keys THEN pool[p][k[2]] ELSE named[k]]
  BY DEF Entries
<1>3. \A k \in KeysOf(p) : k[1] = p /\ k[2] \in DOMAIN pool[p]
  BY DEF KeysOf
<1>. HIDE DEF keys
<1>. QED
  BY <1>1, <1>2, <1>3

LEMMA WithdrawFacts ==
    ASSUME TypeOK, NEW there, Withdraw(there), call.name \in Names
    PROVE  LET p == PoolName(call.name) IN
           \/ /\ pc' = "idle" /\ UNCHANGED <<published, before>>
              /\ call' = [call EXCEPT !.raised = TRUE]
              /\ mishaps' \in {mishaps, mishaps \cup {"engine"}}
           \/ /\ ~NoPool(call.name) /\ KeysOf(p) \subseteq DOMAIN named
              /\ engine' = engine \ {named[k] : k \in KeysOf(p)}
              /\ named' = [k \in DOMAIN named \ KeysOf(p) |-> named[k]]
              /\ pc' = there /\ UNCHANGED <<call, before, mishaps>>
<1>. DEFINE p == PoolName(call.name)
            keys == {Key(call.name, i) : i \in 1 .. Len(pool[p])}
<1>1. keys = KeysOf(p)
  BY PoolNames, PoolFacts DEF KeysOf, Key
<1>2. \/ Raise /\ UNCHANGED published /\ mishaps' \in {mishaps, mishaps \cup {"engine"}}
      \/ /\ ~NoPool(call.name) /\ keys \subseteq DOMAIN named
         /\ engine' = engine \ {named[k] : k \in keys} /\ named' = Without(keys)
         /\ Continue(there) /\ UNCHANGED mishaps
  BY DEF Withdraw
<1>. HIDE DEF keys
<1>. QED
  BY <1>1, <1>2 DEF Raise, Continue, Without

-----------------------------------------------------------------------------
(* Types, and what a call is about.                                        *)

Calls == [name : Names \cup {Nobody}, op : {"none", "register", "unregister"},
          shared : BOOLEAN, force : BOOLEAN, raised : BOOLEAN]

LEMMA TypeStep == ASSUME TypeOK, CallKnown, [Next]_vars PROVE TypeOK'
<1>. USE RegistryAssumption, NamesFacts DEF TypeOK
<1>1. ASSUME NEW c \in Names, Starts(c) PROVE TypeOK'
  <2>1. call' \in Calls
    <3>1. ASSUME NEW op \in {"none", "register", "unregister"}, NEW sh \in BOOLEAN, NEW f \in BOOLEAN,
                 Begin(op, c, sh, f)
          PROVE  call' \in Calls
      BY <3>1 DEF Begin, Calls
    <3>. QED
      BY <1>1, <3>1 DEF Starts, RegisterRefused, RegisterFails, RegisterMisfit, Refuse,
                        UnregisterCheckpoint
  <2>2. mishaps' \subseteq FaultKinds \cup {"clash", "shrunk"}
    BY <1>1, StartsFrame DEF Clash
  <2>. QED
    BY <1>1, <2>1, <2>2, StartsFrame DEF memory, published, Calls
<1>2. ASSUME NEW c \in Names, PinFails(c) PROVE TypeOK'
  <2>1. call' \in Calls /\ pc' = "rollback" /\ UNCHANGED <<hasStore, memory, published>>
    BY <1>2 DEF PinFails, Begin, Calls
  <2>2. pinned' \subseteq Regions
    <3>1. PICK n \in 1 .. MaxFiles :
              \E bs \in FreshFiles(n) : \E some \in SUBSET Range(bs) : pinned' = pinned \cup some
      BY <1>2 DEF PinFails
    <3>2. \A bs \in FreshFiles(n) : Range(bs) \subseteq Regions
      BY DEF FreshFiles, Range
    <3>. QED
      BY <3>1, <3>2
  <2>3. mishaps' \subseteq FaultKinds \cup {"clash", "shrunk"}
    BY <1>2 DEF PinFails, Clash, FaultKinds
  <2>. QED
    BY <2>1, <2>2, <2>3 DEF memory, published, Calls
<1>3. ASSUME NEW c \in Names, NEW sizes \in Shapes, RegisterShared(c, sizes) PROVE TypeOK'
  <2>1. pool' \in [Pools -> Seq(Regions)]
    BY <1>3, SharedFrame, PoolChanges
  <2>2. call' \in Calls /\ mishaps' \subseteq FaultKinds \cup {"clash", "shrunk"}
    <3>1. call' \in Calls
      <4>1. call' = [name |-> c, op |-> "register", shared |-> TRUE, force |-> FALSE, raised |-> FALSE]
        BY <1>3, SharedFrame
      <4>. QED
        BY <4>1 DEF Calls
    <3>2. Clash(c) \subseteq {"clash"}
      BY DEF Clash
    <3>. QED
      BY <1>3, <3>1, <3>2, SharedFrame
  <2>. QED
    BY <1>3, <2>1, <2>2, SharedFrame DEF published, Calls
<1>4. ASSUME NEW c \in Names, NEW sizes \in Shapes, NEW n \in 0 .. MaxFiles, RegisterPrivate(c, sizes, n)
      PROVE  TypeOK'
  <2>1. pool' \in [Pools -> Seq(Regions)]
    BY <1>4, PrivateFrame, PoolChanges
  <2>2. call' \in Calls /\ mishaps' \subseteq FaultKinds \cup {"clash", "shrunk"}
    <3>1. call' \in Calls
      <4>1. call' = [name |-> c, op |-> "register", shared |-> FALSE, force |-> FALSE, raised |-> FALSE]
        BY <1>4, PrivateFrame
      <4>. QED
        BY <4>1 DEF Calls
    <3>2. Clash(c) \subseteq {"clash"}
      BY DEF Clash
    <3>. QED
      BY <1>4, <3>1, <3>2, PrivateFrame
  <2>3. pinned' \subseteq Regions
    BY <1>4, PrivateFrame
  <2>. QED
    BY <1>4, <2>1, <2>2, <2>3, PrivateFrame DEF published, Calls
<1>5. ASSUME pc = "publish"
      PROVE  DOMAIN Entries(call.name) \subseteq Pools \X Nat /\ Range(Entries(call.name)) \subseteq Regions
  <2>. DEFINE p == PoolName(call.name)
  <2>1. p \in Pools /\ DOMAIN pool[p] \subseteq Nat
    BY <1>5, PoolNames, PoolFacts DEF CallKnown
  <2>2. KeysOf(p) \subseteq Pools \X Nat
    BY <2>1 DEF KeysOf
  <2>3. \A k \in DOMAIN Entries(call.name) : Entries(call.name)[k] \in Regions
    <3>1. \A k \in DOMAIN named : named[k] \in Regions
      BY DEF Range
    <3>2. \A i \in DOMAIN pool[p] : pool[p][i] \in Regions
      BY <2>1, PoolFacts
    <3>3. \A k \in KeysOf(p) : Entries(call.name)[k] = pool[p][k[2]] /\ k[1] = p /\ k[2] \in DOMAIN pool[p]
      BY <2>1, EntriesFacts, Zenon
    <3>4. \A k \in DOMAIN named \ KeysOf(p) : Entries(call.name)[k] = named[k]
      BY <2>1, EntriesFacts, Zenon
    <3>5. DOMAIN Entries(call.name) = DOMAIN named \cup KeysOf(p)
      BY <2>1, EntriesFacts
    <3>. QED
      BY <3>1, <3>2, <3>3, <3>4, <3>5
  <2>4. DOMAIN Entries(call.name) = DOMAIN named \cup KeysOf(p)
    BY <2>1, EntriesFacts
  <2>5. Range(Entries(call.name)) \subseteq Regions
    BY <2>3 DEF Range
  <2>. QED
    BY <2>2, <2>4, <2>5
<1>6. CASE Publish
  <2>1. RegionsOf(PoolName(call.name)) \subseteq Regions
    BY <1>6, PoolNames, PoolFacts DEF Publish, CallKnown
  <2>. QED
    BY <1>5, <1>6, <2>1 DEF Publish, Return, Nothing, memory
<1>7. CASE PublishFails
  <2>1. mishaps' \subseteq FaultKinds \cup {"clash", "shrunk"}
    BY <1>7 DEF PublishFails, FaultKinds
  <2>2. named' \in {named, Entries(call.name)} /\ pc = "publish" /\ pc' = "rollback"
    BY <1>7 DEF PublishFails, Continue
  <2>. QED
    BY <1>5, <1>7, <2>1, <2>2 DEF PublishFails, Continue, memory
<1>8. ASSUME NEW there \in {"unregister", "free"}, Withdraw(there), pc # "idle",
             UNCHANGED <<hasStore, memory, pinned>>
      PROVE  TypeOK'
  <2>1. call.name \in Names
    BY <1>8 DEF CallKnown
  <2>2. call' \in Calls /\ pc' \in {"idle", "unregister", "free"}
        /\ mishaps' \subseteq FaultKinds \cup {"clash", "shrunk"}
    BY <1>8, <2>1, WithdrawFacts DEF Calls, FaultKinds
  <2>3. engine' \subseteq Regions /\ DOMAIN named' \subseteq Pools \X Nat
    BY <1>8, <2>1, WithdrawFacts DEF published
  <2>4. Range(named') \subseteq Regions
    <3>1. \A k \in DOMAIN named : named[k] \in Regions
      BY DEF Range
    <3>2. \A k \in DOMAIN named' : named'[k] \in Regions
      <4>1. CASE named' = named
        BY <3>1, <4>1
      <4>2. CASE named' = [k \in DOMAIN named \ KeysOf(PoolName(call.name)) |-> named[k]]
        BY <3>1, <4>2
      <4>. QED
        BY <1>8, <2>1, <4>1, <4>2, WithdrawFacts DEF published
    <3>. QED
      BY <3>2 DEF Range
  <2>. QED
    BY <1>8, <2>2, <2>3, <2>4 DEF memory, Calls
<1>9. CASE Rollback
  <2>1. CASE hasStore /\ ~call.shared
    BY <1>8, <1>9, <2>1 DEF Rollback
  <2>2. CASE ~(hasStore /\ ~call.shared)
    BY <1>9, <2>2 DEF Rollback, Continue, memory, published
  <2>. QED
    BY <2>1, <2>2
<1>10. CASE WithdrawCheckpoint
  BY <1>8, <1>10 DEF WithdrawCheckpoint
<1>11. ASSUME Done PROVE call' \in Calls /\ pc' = "idle"
  <2>1. Nothing \in Calls /\ [call EXCEPT !.raised = TRUE] \in Calls
    BY DEF Nothing, Calls
  <2>. QED
    BY <1>11, <2>1 DEF Done, Raise, Return
<1>12. CASE Unregister
  <2>1. call' \in Calls /\ pc' \in {"idle", "withdraw", "free"} /\ user' \in Names \cup {Nobody}
    BY <1>11, <1>12 DEF Unregister, Continue, Calls
  <2>. QED
    BY <1>12, <2>1 DEF Unregister, published, Calls
<1>13. CASE FreeShared
  <2>1. pool' \in [Pools -> Seq(Regions)]
    BY <1>13 DEF FreeShared
  <2>. QED
    BY <1>11, <1>13, <2>1 DEF FreeShared, published, Calls
<1>14. CASE FreePrivate
  <2>1. pool' \in [Pools -> Seq(Regions)]
    <3>1. pool' = [pool EXCEPT ![call.name] = <<>>] /\ <<>> \in Seq(Regions)
      BY <1>14 DEF FreePrivate
    <3>. QED
      BY <3>1
  <2>. QED
    BY <1>11, <1>14, <2>1 DEF FreePrivate, published, Calls
<1>15. CASE UnpinFails
  <2>1. pinned' \subseteq pinned /\ mishaps' \subseteq FaultKinds \cup {"clash", "shrunk"}
    BY <1>15 DEF UnpinFails, FaultKinds
  <2>. QED
    BY <1>15, <2>1 DEF UnpinFails, Raise, memory, published
<1>16. CASE UNCHANGED vars
  BY <1>16 DEF vars, memory, published
<1>. QED
  BY <1>1, <1>2, <1>3, <1>4, <1>6, <1>7, <1>9, <1>10, <1>12, <1>13, <1>14, <1>15, <1>16, Steps

LEMMA CallStep == ASSUME TypeOK, CallKnown, [Next]_vars PROVE CallKnown'
<1>. USE RegistryAssumption DEF TypeOK, CallKnown
<1>1. ASSUME NEW c \in Names, Starts(c) PROVE CallKnown'
  BY <1>1, StartsFrame DEF memory
<1>2. ASSUME NEW c \in Names, PinFails(c) PROVE CallKnown'
  BY <1>2 DEF PinFails, Begin, memory
<1>3. ASSUME NEW c \in Names, NEW sizes \in Shapes, RegisterShared(c, sizes) PROVE CallKnown'
  BY <1>3, SharedFrame
<1>4. ASSUME NEW c \in Names, NEW sizes \in Shapes, NEW n \in 0 .. MaxFiles, RegisterPrivate(c, sizes, n)
      PROVE  CallKnown'
  BY <1>4, PrivateFrame
<1>5. CASE Publish
  BY <1>5 DEF Publish, Return, Nothing
<1>6. CASE PublishFails
  BY <1>6 DEF PublishFails, Continue, memory
<1>7. CASE Rollback
  <2>1. CASE hasStore /\ ~call.shared
    BY <1>7, <2>1, WithdrawFacts DEF Rollback, memory
  <2>2. CASE ~(hasStore /\ ~call.shared)
    BY <1>7, <2>2 DEF Rollback, Continue, memory
  <2>. QED
    BY <2>1, <2>2
<1>8. CASE WithdrawCheckpoint
  BY <1>8, WithdrawFacts DEF WithdrawCheckpoint, memory
<1>9. CASE Unregister
  BY <1>9 DEF Unregister, Done, Raise, Return, Nothing, Continue
<1>10. CASE FreeShared \/ FreePrivate
  BY <1>10 DEF FreeShared, FreePrivate, Done, Raise, Return, Nothing
<1>11. CASE UnpinFails
  BY <1>11 DEF UnpinFails, Raise
<1>12. CASE UNCHANGED vars
  BY <1>12 DEF vars, memory
<1>. QED
  BY <1>1, <1>2, <1>3, <1>4, <1>5, <1>6, <1>7, <1>8, <1>9, <1>10, <1>11, <1>12, Steps

-----------------------------------------------------------------------------
(* The pools, and the pins.                                                *)

\* A pool that takes unused memory stays apart from the others.
LEMMA ApartStep == ASSUME TypeOK, CallKnown, PoolsApart, [Next]_vars PROVE PoolsApart'
<1>. USE RegistryAssumption, NamesFacts
<1>1. ASSUME UNCHANGED pool, registered \subseteq registered' PROVE PoolsApart'
  BY <1>1, PoolsStay DEF PoolsApart
<1>2. ASSUME NEW c \in Pools, NEW bs \in Seq(Regions), pool' = [pool EXCEPT ![c] = bs],
             \A d \in Pools \ {c} : Range(bs) \cap RegionsOf(d) = {},
             c = SharedPool => Range(bs) \cap Files = {},
             c \in Names /\ bs # <<>> => c \in registered',
             registered \ {c} \subseteq registered'
      PROVE  PoolsApart'
  <2>1. \A d, e \in Pools : d # e => RegionsOf(d)' \cap RegionsOf(e)' = {}
    <3>1. /\ RegionsOf(c)' = Range(bs)
          /\ \A d \in Pools \ {c} : RegionsOf(d)' = RegionsOf(d)
      BY <1>2, PoolChanges
    <3>2. \A d, e \in Pools : d # e => RegionsOf(d) \cap RegionsOf(e) = {}
      BY DEF PoolsApart
    <3>. QED
      BY <1>2, <3>1, <3>2
  <2>2. RegionsOf(SharedPool)' \cap Files = {}
    BY <1>2, PoolChanges DEF PoolsApart
  <2>3. \A d \in Names \ registered' : pool'[d] = <<>>
    BY <1>2, PoolChanges DEF PoolsApart
  <2>. QED
    BY <2>1, <2>2, <2>3 DEF PoolsApart
<1>3. Range(<<>>) = {} /\ <<>> \in Seq(Regions)
  BY DEF Range
<1>4. ASSUME NEW c \in Names, NEW sizes \in Shapes, RegisterShared(c, sizes) PROVE PoolsApart'
  <2>1. PICK bs \in Seq(Regions) :
            /\ pool' = [pool EXCEPT ![SharedPool] = bs]
            /\ Range(bs) \subseteq Unused \ Files \/ Range(bs) \subseteq RegionsOf(SharedPool)
    BY <1>4, SharedFrame DEF RegionsOf
  <2>2. \A d \in Pools \ {SharedPool} : Range(bs) \cap RegionsOf(d) = {}
    BY <2>1, LiveIs DEF PoolsApart, Unused
  <2>3. Range(bs) \cap Files = {} /\ registered' = registered
    BY <1>4, <2>1, SharedFrame DEF PoolsApart
  <2>. QED
    BY <1>2, <2>1, <2>2, <2>3
<1>5. ASSUME NEW c \in Names, NEW sizes \in Shapes, NEW n \in 0 .. MaxFiles, RegisterPrivate(c, sizes, n)
      PROVE  PoolsApart'
  <2>1. PICK bs \in Seq(Regions) : pool' = [pool EXCEPT ![c] = bs] /\ Range(bs) \subseteq Unused
    BY <1>5, PrivateFrame
  <2>2. \A d \in Pools \ {c} : Range(bs) \cap RegionsOf(d) = {}
    BY <2>1, LiveIs DEF Unused
  <2>3. registered' = registered \cup {c}
    BY <1>5, PrivateFrame
  <2>. QED
    BY <1>2, <2>1, <2>2, <2>3
<1>6. CASE FreeShared
  BY <1>2, <1>3, <1>6 DEF FreeShared
<1>7. CASE FreePrivate
  <2>1. call.name \in Names /\ pool' = [pool EXCEPT ![call.name] = <<>>] /\ registered' = registered \ {call.name}
    BY <1>7 DEF FreePrivate, CallKnown
  <2>. QED
    BY <1>2, <1>3, <2>1
<1>8. ASSUME \/ \E c \in Names : Starts(c) \/ PinFails(c)
             \/ Publish \/ PublishFails \/ Rollback \/ Unregister \/ WithdrawCheckpoint
             \/ UnpinFails \/ UNCHANGED vars
      PROVE  UNCHANGED <<pool, registered>>
  BY <1>8, StartsFrame DEF PinFails, Publish, PublishFails, Rollback, Unregister, WithdrawCheckpoint,
                           UnpinFails, memory, vars
<1>. QED
  BY <1>1, <1>4, <1>5, <1>6, <1>7, <1>8, Steps

LEMMA PinsStep == ASSUME TypeOK, CallKnown, PoolsApart, PinsKept, [Next]_vars PROVE PinsKept'
<1>. USE RegistryAssumption, NamesFacts
<1>. SUFFICES ASSUME mishaps' \cap {"pin", "unpin"} = {} PROVE pinned' = Live' \cap Files
  BY DEF PinsKept
<1>1. ASSUME UNCHANGED <<pool, pinned>>, mishaps \subseteq mishaps' PROVE pinned' = Live' \cap Files
  BY <1>1, PoolsStay DEF PinsKept
<1>2. ASSUME NEW c \in Names, NEW sizes \in Shapes, RegisterShared(c, sizes)
      PROVE  pinned' = Live' \cap Files
  <2>1. PICK bs \in Seq(Regions) :
            /\ pool' = [pool EXCEPT ![SharedPool] = bs]
            /\ Range(bs) \subseteq Unused \ Files \/ Range(bs) \subseteq RegionsOf(SharedPool)
    BY <1>2, SharedFrame DEF RegionsOf
  <2>2. \A x \in Files : x \in Live' <=> x \in Live
    BY <2>1, PoolChanges, LiveIs DEF PoolsApart
  <2>3. pinned' = pinned /\ pinned = Live \cap Files
    BY <1>2, SharedFrame DEF PinsKept
  <2>. QED
    BY <2>2, <2>3
<1>3. ASSUME NEW c \in Names, NEW sizes \in Shapes, NEW n \in 0 .. MaxFiles, RegisterPrivate(c, sizes, n)
      PROVE  pinned' = Live' \cap Files
  <2>1. PICK bs \in Seq(Regions) : /\ pool' = [pool EXCEPT ![c] = bs]
                                   /\ pinned' = pinned \cup (Range(bs) \cap Files)
    BY <1>3, PrivateFrame
  <2>2. pool[c] = <<>> /\ RegionsOf(c) = {}
    BY <1>3, PrivateFrame DEF PoolsApart, RegionsOf, Range
  <2>3. pinned = Live \cap Files
    BY <1>3, PrivateFrame DEF PinsKept
  <2>4. \A x : x \in Live' <=> x \in Live \/ x \in Range(bs)
    BY <2>1, <2>2, PoolChanges, LiveIs
  <2>. QED
    BY <2>1, <2>3, <2>4
<1>4. Range(<<>>) = {} /\ <<>> \in Seq(Regions)
  BY DEF Range
<1>5. CASE FreeShared
  <2>1. pool' = [pool EXCEPT ![SharedPool] = <<>>] /\ pinned' = pinned /\ pinned = Live \cap Files
    BY <1>5 DEF FreeShared, PinsKept
  <2>2. \A x \in Files : x \in Live' <=> x \in Live
    BY <1>4, <2>1, PoolChanges, LiveIs DEF PoolsApart
  <2>. QED
    BY <2>1, <2>2
<1>6. CASE FreePrivate
  <2>. DEFINE c == call.name
  <2>1. /\ c \in Names /\ pool' = [pool EXCEPT ![c] = <<>>]
        /\ pinned' = pinned \ (RegionsOf(c) \cap Files) /\ pinned = Live \cap Files
    BY <1>6 DEF FreePrivate, CallKnown, ManuallyPinned, PinsKept
  <2>2. \A x : x \in Live' <=> x \in Live /\ x \notin RegionsOf(c)
    <3>1. \A x : x \in Live' <=> \E d \in Pools \ {c} : x \in RegionsOf(d)
      BY <1>4, <2>1, PoolChanges
    <3>2. \A d \in Pools \ {c} : RegionsOf(d) \cap RegionsOf(c) = {}
      BY <2>1 DEF PoolsApart
    <3>. QED
      BY <3>1, <3>2, LiveIs
  <2>. QED
    BY <2>1, <2>2
<1>7. ~UnpinFails /\ ~(\E c \in Names : PinFails(c))
  BY DEF UnpinFails, PinFails
<1>8. ASSUME \/ \E c \in Names : Starts(c)
             \/ Publish \/ PublishFails \/ Unregister \/ UNCHANGED vars
      PROVE  UNCHANGED <<pool, pinned>> /\ mishaps \subseteq mishaps'
  BY <1>8, StartsFrame DEF Publish, PublishFails, Unregister, memory, vars
<1>9. ASSUME Rollback \/ WithdrawCheckpoint
      PROVE  UNCHANGED <<pool, pinned>> /\ mishaps \subseteq mishaps'
  BY <1>9, WithdrawFacts DEF Rollback, WithdrawCheckpoint, CallKnown, memory
<1>. QED
  BY <1>1, <1>2, <1>3, <1>5, <1>6, <1>7, <1>8, <1>9, Steps

-----------------------------------------------------------------------------
(* What is published.                                                      *)

\* The clauses of PublishedIsLive for a given state of the store.
Matches(n) == \A k \in DOMAIN n : k[2] \in DOMAIN pool[k[1]] /\ n[k] = pool[k[1]][k[2]]

LEMMA PublishedIsLiveIs ==
    PublishedIsLive <=> ("shrunk" \notin mishaps => engine \subseteq Live /\ Matches(named))
BY DEF PublishedIsLive, Matches

\* Withdrawing a pool, when what is published is live, takes its regions away from
\* the engine and no others.
LEMMA WithdrawnRegions ==
    ASSUME TypeOK, Matches(named), NEW p \in Pools, KeysOf(p) \subseteq DOMAIN named
    PROVE  {named[k] : k \in KeysOf(p)} = RegionsOf(p)
<1>1. \A i \in DOMAIN pool[p] : <<p, i>> \in KeysOf(p) /\ named[<<p, i>>] = pool[p][i]
  <2>. SUFFICES ASSUME NEW i \in DOMAIN pool[p]
                PROVE  <<p, i>> \in KeysOf(p) /\ named[<<p, i>>] = pool[p][i]
    OBVIOUS
  <2>1. <<p, i>> \in KeysOf(p)
    BY DEF KeysOf
  <2>. DEFINE k == <<p, i>>
  <2>2. k \in DOMAIN named /\ k[1] = p /\ k[2] = i
    BY <2>1
  <2>. QED
    BY <2>1, <2>2 DEF Matches
<1>2. \A k \in KeysOf(p) : \E i \in DOMAIN pool[p] : k = <<p, i>>
  BY DEF KeysOf
<1>3. RegionsOf(p) = {pool[p][i] : i \in DOMAIN pool[p]}
  BY PoolFacts
<1>. QED
  BY <1>1, <1>2, <1>3

\* The keys of a pool, and those of the others.
LEMMA KeysApart ==
    ASSUME TypeOK, Matches(named), NEW p \in Pools, NEW k \in DOMAIN named
    PROVE  k \in KeysOf(p) <=> k[1] = p
<1>1. k \in Pools \X Nat
  BY DEF TypeOK
<1>2. k = <<k[1], k[2]>>
  BY <1>1
<1>3. k[2] \in DOMAIN pool[k[1]]
  BY DEF Matches
<1>. QED
  BY <1>2, <1>3 DEF KeysOf

\* The store without the entries of a pool that changes.
LEMMA MatchesStays ==
    ASSUME TypeOK, Matches(named), NEW c \in Pools, UNCHANGED named,
           \A d \in Pools \ {c} : pool'[d] = pool[d],
           \A k \in DOMAIN named : k[1] # c
    PROVE  Matches(named)'
<1>1. \A k \in DOMAIN named : k[1] \in Pools \ {c}
  BY DEF TypeOK
<1>. QED
  BY <1>1 DEF Matches

LEMMA WithdrawnStep ==
    ASSUME TypeOK, CallKnown, PoolsApart, WithdrawnFirst, [Next]_vars
    PROVE  WithdrawnFirst'
<1>. USE RegistryAssumption, NamesFacts
<1>. DEFINE Gone(c) == engine \cap RegionsOf(c) = {} /\ \A k \in DOMAIN named : k[1] # c
            Inv == /\ ~hasStore => engine = {} /\ DOMAIN named = {}
                   /\ "shrunk" \notin mishaps => engine \subseteq Live /\ Matches(named)
                   /\ pc = "free" /\ "shrunk" \notin mishaps => Gone(PoolName(call.name))
<1>1. Inv
  BY PublishedIsLiveIs DEF WithdrawnFirst
<1>2. SUFFICES Inv'
  BY DEF WithdrawnFirst, PublishedIsLive, Matches
<1>3. ASSUME UNCHANGED <<hasStore, pool, published>>, mishaps \subseteq mishaps', pc' # "free"
      PROVE  Inv'
  BY <1>1, <1>3, PoolsStay DEF Matches, published
<1>4. ASSUME NEW c \in Names, Starts(c) \/ PinFails(c) PROVE Inv'
  <2>1. UNCHANGED <<hasStore, pool, published>> /\ mishaps \subseteq mishaps' /\ pc' # "free"
    BY <1>4, StartsFrame DEF PinFails, memory
  <2>. QED
    BY <1>3, <2>1
<1>5. ASSUME NEW c \in Pools, NEW bs \in Seq(Regions), pool' = [pool EXCEPT ![c] = bs],
             mishaps \subseteq mishaps', UNCHANGED <<hasStore, published>>, pc' # "free",
             "shrunk" \notin mishaps => Gone(c)
      PROVE  Inv'
  <2>1. ASSUME "shrunk" \notin mishaps' PROVE engine' \subseteq Live' /\ Matches(named)'
    <3>1. engine \subseteq Live /\ Matches(named) /\ Gone(c) /\ UNCHANGED <<named, engine>>
      BY <1>1, <1>5, <2>1 DEF published
    <3>2. Matches(named)'
      BY <1>5, <3>1, PoolChanges, MatchesStays
    <3>3. engine \subseteq Live'
      BY <1>5, <3>1, PoolChanges, LiveIs
    <3>. QED
      BY <3>1, <3>2, <3>3
  <2>. QED
    BY <1>1, <1>5, <2>1 DEF published
<1>6. ASSUME NEW c \in Pools, pool[c] = <<>>, "shrunk" \notin mishaps PROVE Gone(c)
  <2>1. RegionsOf(c) = {} /\ DOMAIN pool[c] = {}
    BY <1>6 DEF RegionsOf, Range
  <2>. QED
    BY <1>1, <1>6, <2>1 DEF Matches
<1>7. ASSUME NEW c \in Names, NEW sizes \in Shapes, RegisterShared(c, sizes) PROVE Inv'
  <2>1. PICK bs \in Seq(Regions) :
            /\ pool' = [pool EXCEPT ![SharedPool] = bs]
            /\ pool[SharedPool] = <<>> \/ ("shrunk" \notin mishaps' => bs = pool[SharedPool])
    BY <1>7, SharedFrame
  <2>2. UNCHANGED <<hasStore, published>> /\ mishaps \subseteq mishaps' /\ pc' # "free"
    BY <1>7, SharedFrame
  <2>3. CASE pool[SharedPool] = <<>>
    BY <1>5, <1>6, <2>1, <2>2, <2>3
  <2>4. CASE bs = pool[SharedPool]
    <3>1. pool' = pool
      BY <2>1, <2>4 DEF TypeOK
    <3>. QED
      BY <1>3, <2>2, <3>1
  <2>5. CASE "shrunk" \in mishaps'
    BY <1>1, <2>2, <2>5 DEF published
  <2>. QED
    BY <2>1, <2>3, <2>4, <2>5
<1>8. ASSUME NEW c \in Names, NEW sizes \in Shapes, NEW n \in 0 .. MaxFiles, RegisterPrivate(c, sizes, n)
      PROVE  Inv'
  <2>1. PICK bs \in Seq(Regions) : pool' = [pool EXCEPT ![c] = bs]
    BY <1>8, PrivateFrame
  <2>2. /\ UNCHANGED <<hasStore, published>> /\ mishaps \subseteq mishaps' /\ pc' # "free"
        /\ pool[c] = <<>>
    BY <1>8, PrivateFrame DEF PoolsApart
  <2>. QED
    BY <1>5, <1>6, <2>1, <2>2
<1>9. ASSUME pc = "publish", named' = Entries(call.name), UNCHANGED <<hasStore, pool>>,
             engine' = engine \/ engine' = engine \cup RegionsOf(PoolName(call.name)),
             mishaps \subseteq mishaps', pc' # "free"
      PROVE  Inv'
  <2>. DEFINE p == PoolName(call.name)
  <2>1. hasStore /\ p \in Pools
    BY <1>9, PoolNames DEF CallKnown
  <2>2. ASSUME "shrunk" \notin mishaps' PROVE engine' \subseteq Live' /\ Matches(named)'
    <3>1. engine \subseteq Live /\ Matches(named)
      BY <1>1, <1>9, <2>2
    <3>2. engine' \subseteq Live'
      BY <1>9, <2>1, <3>1, PoolsStay, LiveIs
    <3>3. \A k \in DOMAIN Entries(call.name) :
              k[2] \in DOMAIN pool[k[1]] /\ Entries(call.name)[k] = pool[k[1]][k[2]]
      <4>. SUFFICES ASSUME NEW k \in DOMAIN Entries(call.name)
                    PROVE  k[2] \in DOMAIN pool[k[1]] /\ Entries(call.name)[k] = pool[k[1]][k[2]]
        OBVIOUS
      <4>1. CASE k \in KeysOf(p)
        <5>1. Entries(call.name)[k] = pool[p][k[2]] /\ k[1] = p /\ k[2] \in DOMAIN pool[p]
          BY <2>1, <4>1, EntriesFacts, Zenon
        <5>. QED
          BY <5>1
      <4>2. CASE k \notin KeysOf(p)
        <5>1. k \in DOMAIN named \ KeysOf(p)
          BY <2>1, <4>2, EntriesFacts
        <5>2. Entries(call.name)[k] = named[k]
          BY <2>1, <5>1, EntriesFacts, Zenon
        <5>. QED
          BY <3>1, <5>1, <5>2 DEF Matches
      <4>. QED
        BY <4>1, <4>2
    <3>4. Matches(named)'
      BY <1>9, <3>3 DEF Matches
    <3>. QED
      BY <3>2, <3>4
  <2>. QED
    BY <1>9, <2>1, <2>2
<1>10. CASE Publish
  <2>1. UNCHANGED <<hasStore, pool, mishaps>> /\ pc' = "idle"
    BY <1>10 DEF Publish, Return, memory
  <2>. QED
    BY <1>9, <1>10, <2>1 DEF Publish
<1>11. CASE PublishFails
  <2>1. UNCHANGED <<hasStore, pool, engine>> /\ pc' = "rollback" /\ mishaps \subseteq mishaps' /\ pc = "publish"
    BY <1>11 DEF PublishFails, Continue, memory
  <2>2. named' = named \/ named' = Entries(call.name)
    BY <1>11 DEF PublishFails
  <2>. QED
    BY <1>3, <1>9, <2>1, <2>2 DEF published
<1>12. ASSUME NEW there, Withdraw(there), pc # "idle", UNCHANGED <<hasStore, memory>> PROVE Inv'
  <2>. DEFINE p == PoolName(call.name)
  <2>1. call.name \in Names /\ p \in Pools /\ UNCHANGED <<pool, user>>
    BY <1>12, PoolNames DEF CallKnown, memory
  <2>2. CASE pc' = "idle" /\ UNCHANGED published /\ mishaps \subseteq mishaps'
    BY <1>3, <1>12, <2>1, <2>2
  <2>3. CASE /\ KeysOf(p) \subseteq DOMAIN named
             /\ engine' = engine \ {named[k] : k \in KeysOf(p)}
             /\ named' = [k \in DOMAIN named \ KeysOf(p) |-> named[k]]
             /\ UNCHANGED <<call, mishaps>>
    <3>1. ~hasStore' => engine' = {} /\ DOMAIN named' = {}
      BY <1>1, <1>12, <2>3
    <3>2. ASSUME "shrunk" \notin mishaps PROVE engine' \subseteq Live' /\ Matches(named)' /\ Gone(p)'
      <4>1. engine \subseteq Live /\ Matches(named)
        BY <1>1, <3>2
      <4>2. engine' = engine \ RegionsOf(p)
        BY <2>1, <2>3, <4>1, WithdrawnRegions
      <4>7. p' = p
        BY <2>1, <2>3 DEF PoolName
      <4>8. RegionsOf(p)' = RegionsOf(p)
        BY <2>1, <4>7 DEF RegionsOf
      <4>3. engine' \subseteq Live' /\ engine' \cap RegionsOf(p)' = {}
        BY <2>1, <4>1, <4>2, <4>8, PoolsStay
      <4>4. DOMAIN named' = DOMAIN named \ KeysOf(p) /\ \A k \in DOMAIN named' : named'[k] = named[k]
        BY <2>3
      <4>5. Matches(named)'
        BY <2>1, <4>1, <4>4 DEF Matches
      <4>6. \A k \in DOMAIN named' : k[1] # p
        BY <2>1, <4>1, <4>4, KeysApart
      <4>. QED
        BY <4>3, <4>5, <4>6, <4>7
    <3>3. p' = p
      BY <2>1, <2>3 DEF PoolName
    <3>. QED
      BY <2>3, <3>1, <3>2, <3>3
  <2>. QED
    BY <1>12, <2>1, <2>2, <2>3, WithdrawFacts
<1>13. CASE Rollback
  <2>1. CASE hasStore /\ ~call.shared
    BY <1>12, <1>13, <2>1 DEF Rollback
  <2>2. CASE ~(hasStore /\ ~call.shared)
    BY <1>3, <1>13, <2>2 DEF Rollback, Continue, memory
  <2>. QED
    BY <2>1, <2>2
<1>14. CASE WithdrawCheckpoint
  BY <1>12, <1>14 DEF WithdrawCheckpoint
<1>15. CASE Unregister
  <2>1. UNCHANGED <<hasStore, pool, published, mishaps>> /\ (pc' = "free" => ~hasStore)
    BY <1>15 DEF Unregister, Done, Raise, Return, Continue
  <2>. QED
    BY <1>1, <1>3, <2>1, PoolsStay DEF Matches, published
<1>16. <<>> \in Seq(Regions)
  OBVIOUS
<1>17. CASE FreeShared
  <2>1. /\ pc = "free" /\ call.name = user /\ pool' = [pool EXCEPT ![SharedPool] = <<>>]
        /\ UNCHANGED <<hasStore, published, mishaps>> /\ pc' = "idle"
    BY <1>17 DEF FreeShared, Done, Raise, Return
  <2>2. PoolName(call.name) = SharedPool
    BY <2>1 DEF PoolName
  <2>. QED
    BY <1>1, <1>5, <1>16, <2>1, <2>2
<1>18. CASE FreePrivate
  <2>1. /\ pc = "free" /\ call.name # user /\ call.name \in Names
        /\ pool' = [pool EXCEPT ![call.name] = <<>>]
        /\ UNCHANGED <<hasStore, published, mishaps>> /\ pc' = "idle"
    BY <1>18 DEF FreePrivate, Done, Raise, Return, CallKnown
  <2>2. PoolName(call.name) = call.name
    BY <2>1 DEF PoolName
  <2>. QED
    BY <1>1, <1>5, <1>16, <2>1, <2>2
<1>19. CASE UnpinFails
  <2>1. UNCHANGED <<hasStore, pool, published>> /\ mishaps \subseteq mishaps' /\ pc' # "free"
    BY <1>19 DEF UnpinFails, Raise, memory
  <2>. QED
    BY <1>3, <2>1
<1>20. CASE UNCHANGED vars
  <2>1. UNCHANGED <<hasStore, pool, published, mishaps, pc, call, user>>
    BY <1>20 DEF vars, memory
  <2>2. PoolName(call.name)' = PoolName(call.name)
    BY <2>1 DEF PoolName
  <2>3. RegionsOf(PoolName(call.name))' = RegionsOf(PoolName(call.name))
    BY <2>1, <2>2 DEF RegionsOf
  <2>4. Matches(named)' <=> Matches(named)
    BY <2>1 DEF Matches, published
  <2>. QED
    BY <1>1, <2>1, <2>2, <2>3, <2>4, PoolsStay DEF published
<1>. QED
  BY <1>4, <1>7, <1>8, <1>10, <1>11, <1>13, <1>14, <1>15, <1>17, <1>18, <1>19, <1>20, Steps

-----------------------------------------------------------------------------
(* What the store and the engine know.                                     *)

\* The engine and the store know the pools of P, and nothing else.
KnowPools(P) ==
    /\ \A x : x \in engine <=> \E c \in P : x \in RegionsOf(c)
    /\ \A k : k \in DOMAIN named <=> \E c \in P : k \in KeysOf(c)

LEMMA KnowPoolsIs == ASSUME NEW P PROVE KnowPools(P) <=> Knows(P)
<1>1. \A x : x \in UNION {RegionsOf(c) : c \in P} <=> \E c \in P : x \in RegionsOf(c)
  BY Zenon
<1>2. \A k : k \in UNION {KeysOf(c) : c \in P} <=> \E c \in P : k \in KeysOf(c)
  BY Zenon
<1>3. ASSUME KnowPools(P) PROVE Knows(P)
  BY <1>1, <1>2, <1>3, Zenon DEF KnowPools, Knows
<1>4. ASSUME Knows(P) PROVE KnowPools(P)
  BY <1>1, <1>2, <1>4, Zenon DEF KnowPools, Knows
<1>. QED
  BY <1>3, <1>4, Zenon

LEMMA KnowsNext ==
    ASSUME NEW P,
           \A x : x \in engine' <=> \E c \in P : x \in RegionsOf(c)',
           \A k : k \in DOMAIN named' <=> \E c \in P : k \in KeysOf(c)'
    PROVE  Knows(P)'
<1>1. \A x : x \in UNION {RegionsOf(c)' : c \in P} <=> \E c \in P : x \in RegionsOf(c)'
  BY Zenon
<1>2. \A k : k \in UNION {KeysOf(c)' : c \in P} <=> \E c \in P : k \in KeysOf(c)'
  BY Zenon
<1>3. engine' = UNION {RegionsOf(c)' : c \in P}
  BY <1>1, Zenon
<1>4. DOMAIN named' = UNION {KeysOf(c)' : c \in P}
  BY <1>2, Zenon
<1>. QED
  BY <1>3, <1>4 DEF Knows

\* An empty pool makes no difference.
LEMMA EmptyPool ==
    ASSUME NEW c, pool[c] = <<>>
    PROVE  RegionsOf(c) = {} /\ KeysOf(c) = {}
BY DEF RegionsOf, KeysOf, Range

LEMMA KnowOthers ==
    ASSUME NEW c \in Pools, pool[c] = <<>>
    PROVE  KnowPools(Pools) <=> KnowPools(Pools \ {c})
BY EmptyPool DEF KnowPools

\* The pools of P stay, and so does what is known of them.
LEMMA KnowStays ==
    ASSUME NEW P \in SUBSET Pools, UNCHANGED published, KnowPools(P),
           \A c \in P : RegionsOf(c)' = RegionsOf(c) /\ KeysOf(c)' = KeysOf(c)
    PROVE  Knows(P)'
<1>1. \A x : x \in engine' <=> \E c \in P : x \in RegionsOf(c)'
  BY DEF KnowPools, published
<1>2. \A k : k \in DOMAIN named' <=> \E c \in P : k \in KeysOf(c)'
  BY DEF KnowPools, published
<1>. QED
  BY <1>1, <1>2, KnowsNext

\* Adding a pool, and taking one away.
LEMMA KnowMore ==
    ASSUME TypeOK, NEW p \in Pools, KnowPools(Pools \ {p}), UNCHANGED pool,
           engine' = engine \cup RegionsOf(p), DOMAIN named' = DOMAIN named \cup KeysOf(p)
    PROVE  Knows(Pools)'
<1>1. \A c \in Pools : RegionsOf(c)' = RegionsOf(c) /\ KeysOf(c)' = KeysOf(c)
  BY PoolsStay
<1>2. \A x : x \in engine' <=> \E c \in Pools : x \in RegionsOf(c)'
  BY <1>1 DEF KnowPools
<1>3. \A k : k \in DOMAIN named' <=> \E c \in Pools : k \in KeysOf(c)'
  BY <1>1 DEF KnowPools
<1>. QED
  BY <1>2, <1>3, KnowsNext

LEMMA KnowLess ==
    ASSUME TypeOK, PoolsApart, NEW p \in Pools, KnowPools(Pools), UNCHANGED pool,
           engine' = engine \ RegionsOf(p), DOMAIN named' = DOMAIN named \ KeysOf(p)
    PROVE  Knows(Pools \ {p})'
<1>1. \A c \in Pools : RegionsOf(c)' = RegionsOf(c) /\ KeysOf(c)' = KeysOf(c)
  BY PoolsStay
<1>2. \A x : x \in engine' <=> \E c \in Pools \ {p} : x \in RegionsOf(c)'
  BY <1>1 DEF KnowPools, PoolsApart
<1>3. \A c \in Pools \ {p} : KeysOf(c) \cap KeysOf(p) = {}
  BY DEF KeysOf
<1>4. \A k : k \in DOMAIN named' <=> \E c \in Pools \ {p} : k \in KeysOf(c)'
  BY <1>1, <1>3 DEF KnowPools
<1>. QED
  BY <1>2, <1>4, KnowsNext

Spoilers == {"engine", "unpin", "clash", "shrunk"}

LEMMA MishapsStay == ASSUME TypeOK, CallKnown, [Next]_vars PROVE mishaps \subseteq mishaps'
<1>1. ASSUME NEW c \in Names, Starts(c) \/ PinFails(c) PROVE mishaps \subseteq mishaps'
  BY <1>1, StartsFrame DEF PinFails
<1>2. ASSUME NEW c \in Names, NEW sizes \in Shapes, RegisterShared(c, sizes) PROVE mishaps \subseteq mishaps'
  BY <1>2 DEF RegisterShared
<1>3. ASSUME NEW c \in Names, NEW sizes \in Shapes, NEW n \in 0 .. MaxFiles, RegisterPrivate(c, sizes, n)
      PROVE  mishaps \subseteq mishaps'
  BY <1>3 DEF RegisterPrivate
<1>4. Rollback \/ WithdrawCheckpoint => mishaps \subseteq mishaps'
  BY WithdrawFacts DEF Rollback, WithdrawCheckpoint, CallKnown
<1>. QED
  BY <1>1, <1>2, <1>3, <1>4, Steps
     DEF Publish, PublishFails, Unregister, FreeShared, FreePrivate, UnpinFails, vars

LEMMA StoreStep ==
    ASSUME TypeOK, CallKnown, PoolsApart, WithdrawnFirst, StoreKnows, RollbackKnown, [Next]_vars
    PROVE  StoreKnows'
<1>. USE RegistryAssumption, NamesFacts
<1>1. StoreKnows <=> (hasStore /\ mishaps \cap Spoilers = {} => Knows(Pools \ Unknown))
  BY Zenon DEF StoreKnows, Spoilers
<1>2. SUFFICES ASSUME hasStore', mishaps' \cap Spoilers = {} PROVE Knows(Pools \ Unknown)'
  BY Zenon DEF StoreKnows, Spoilers
<1>3. hasStore /\ mishaps \cap Spoilers = {}
  <2>1. hasStore' = hasStore
    BY Steps, StartsFrame, SharedFrame, PrivateFrame
       DEF PinFails, Publish, PublishFails, Rollback, Unregister, WithdrawCheckpoint, FreeShared,
           FreePrivate, UnpinFails, vars
  <2>. QED
    BY <1>2, <2>1, MishapsStay
<1>4. /\ KnowPools(Pools \ Unknown)
      /\ pc = "publish" => IF call.shared THEN call.name = user /\ call.name \notin registered
                           ELSE call.name # user /\ call.name \in registered
      /\ pc = "rollback" => /\ call.name \notin registered
                            /\ call.name = user => call.shared
  <2>1. KnowPools(Pools \ Unknown)
    BY <1>1, <1>3, KnowPoolsIs
  <2>. QED
    BY <1>3, <2>1 DEF Spoilers, CallKnown, RollbackKnown
<1>5. Matches(named)
  BY <1>3, PublishedIsLiveIs DEF WithdrawnFirst, Spoilers
<1>6. ASSUME NEW U \in SUBSET Pools, Unknown' = U, Knows(Pools \ U)' PROVE Knows(Pools \ Unknown)'
  <2>1. (Pools \ Unknown)' = Pools \ U
    BY <1>6
  <2>. QED
    BY <1>6, <2>1 DEF Knows
<1>7. ASSUME pc # "publish", pc # "free" PROVE KnowPools(Pools)
  BY <1>4, <1>7 DEF Unknown
<1>8. ASSUME pc # "publish", pc # "free", UNCHANGED <<pool, published>>, pc' # "publish", pc' # "free"
      PROVE  Knows(Pools \ Unknown)'
  <2>1. Knows(Pools)'
    BY <1>7, <1>8, KnowStays, PoolsStay
  <2>. QED
    BY <1>6, <1>8, <2>1 DEF Unknown
<1>9. ASSUME NEW c \in Names, Starts(c) \/ PinFails(c) PROVE Knows(Pools \ Unknown)'
  <2>1. pc = "idle" /\ pc' \in {"rollback", "unregister"} /\ UNCHANGED <<pool, published>>
    <3>1. CASE Starts(c)
      BY <3>1, StartsFrame DEF memory
    <3>2. CASE PinFails(c)
      BY <3>2 DEF PinFails, Begin, memory
    <3>. QED
      BY <1>9, <3>1, <3>2
  <2>. QED
    BY <1>8, <2>1
<1>10. ASSUME NEW c \in Pools, NEW bs \in Seq(Regions), pool' = [pool EXCEPT ![c] = bs],
              KnowPools(Pools \ {c}), UNCHANGED published
       PROVE  Knows(Pools \ {c})' /\ (bs = <<>> => Knows(Pools)')
  <2>1. \A d \in Pools \ {c} : RegionsOf(d)' = RegionsOf(d) /\ KeysOf(d)' = KeysOf(d)
    BY <1>10, PoolChanges
  <2>2. Knows(Pools \ {c})'
    BY <1>10, <2>1, KnowStays
  <2>3. ASSUME bs = <<>> PROVE Knows(Pools)'
    <3>1. RegionsOf(c)' = {} /\ KeysOf(c)' = {}
      <4>1. pool'[c] = <<>>
        BY <1>10, <2>3, PoolChanges
      <4>. QED
        BY <4>1 DEF RegionsOf, Range, KeysOf
    <3>2. \A x : x \in engine' <=> \E d \in Pools : x \in RegionsOf(d)'
      BY <1>10, <2>1, <3>1 DEF KnowPools, published
    <3>3. \A k : k \in DOMAIN named' <=> \E d \in Pools : k \in KeysOf(d)'
      BY <1>10, <2>1, <3>1 DEF KnowPools, published
    <3>. QED
      BY <3>2, <3>3, KnowsNext
  <2>. QED
    BY <2>2, <2>3
<1>11. ASSUME NEW c \in Names, Clash(c) \subseteq mishaps' PROVE c \notin registered /\ c # user
  <2>1. Clash(c) = {}
    BY <1>2, <1>11 DEF Clash, Spoilers
  <2>. QED
    BY <2>1 DEF Clash
<1>12. ASSUME NEW c \in Names, NEW sizes \in Shapes, RegisterShared(c, sizes) PROVE Knows(Pools \ Unknown)'
  <2>1. PICK bs \in Seq(Regions) :
            /\ pool' = [pool EXCEPT ![SharedPool] = bs]
            /\ pool[SharedPool] = <<>> \/ bs = pool[SharedPool]
    BY <1>2, <1>12, SharedFrame DEF Spoilers
  <2>2. /\ pc = "idle" /\ user' = c /\ c \notin registered /\ registered' = registered
        /\ call'.name = c /\ call'.shared /\ UNCHANGED published
        /\ pc' = IF hasStore /\ pool[SharedPool] = <<>> THEN "publish" ELSE "idle"
    BY <1>11, <1>12, SharedFrame
  <2>3. CASE pool[SharedPool] = <<>>
    <3>1. Knows(Pools \ {SharedPool})'
      BY <1>7, <1>10, <2>1, <2>2, <2>3, KnowOthers
    <3>2. pc' = "publish" /\ Unknown' = {SharedPool}
      BY <1>3, <2>2, <2>3 DEF Unknown, PoolName
    <3>. QED
      BY <1>6, <2>2, <3>1, <3>2
  <2>4. CASE pool[SharedPool] # <<>>
    <3>1. pool' = pool /\ pc' = "idle"
      BY <2>1, <2>2, <2>4 DEF TypeOK
    <3>. QED
      BY <1>8, <2>2, <3>1
  <2>. QED
    BY <2>3, <2>4
<1>13. ASSUME NEW c \in Names, NEW sizes \in Shapes, NEW n \in 0 .. MaxFiles, RegisterPrivate(c, sizes, n)
       PROVE  Knows(Pools \ Unknown)'
  <2>1. PICK bs \in Seq(Regions) : pool' = [pool EXCEPT ![c] = bs]
    BY <1>13, PrivateFrame
  <2>2. /\ pc = "idle" /\ user' = user /\ c # user /\ c \notin registered /\ registered' = registered \cup {c}
        /\ call'.name = c /\ ~call'.shared /\ UNCHANGED published /\ pc' = "publish"
    <3>1. /\ pc = "idle" /\ user' = user /\ registered' = registered \cup {c} /\ UNCHANGED published
          /\ call' = [name |-> c, op |-> "register", shared |-> FALSE, force |-> FALSE, raised |-> FALSE]
          /\ pc' = IF hasStore THEN "publish" ELSE "idle"
          /\ mishaps' = mishaps \cup Clash(c)
      BY <1>13, PrivateFrame
    <3>2. c \notin registered /\ c # user
      BY <1>11, <3>1
    <3>. QED
      BY <1>3, <3>1, <3>2
  <2>3. pool[c] = <<>>
    BY <2>2 DEF PoolsApart
  <2>4. Knows(Pools \ {c})'
    BY <1>7, <1>10, <2>1, <2>2, <2>3, KnowOthers
  <2>5. Unknown' = {c}
    BY <2>2 DEF Unknown, PoolName
  <2>. QED
    BY <1>6, <2>2, <2>4, <2>5
<1>14. CASE Publish
  <2>. DEFINE p == PoolName(call.name)
  <2>1. /\ pc = "publish" /\ p \in Pools /\ UNCHANGED pool /\ pc' = "idle"
        /\ engine' = engine \cup RegionsOf(p) /\ named' = Entries(call.name)
    BY <1>14, PoolNames DEF Publish, CallKnown, Return, memory
  <2>2. KnowPools(Pools \ {p})
    BY <1>4, <2>1 DEF Unknown
  <2>3. DOMAIN named' = DOMAIN named \cup KeysOf(p)
    BY <2>1, EntriesFacts
  <2>4. Knows(Pools)'
    <3>. HIDE DEF p
    <3>. QED
      BY <2>1, <2>2, <2>3, KnowMore
  <2>. QED
    BY <1>6, <2>1, <2>4 DEF Unknown
<1>15. CASE PublishFails
  <2>1. /\ pc = "publish" /\ pc' = "rollback" /\ NoPool(call.name)
        /\ UNCHANGED <<registered, pool, user, published, call>>
    BY <1>2, <1>15 DEF PublishFails, Continue, memory, published, Spoilers
  <2>2. call.shared /\ call.name = user /\ call.name \notin registered /\ pool[SharedPool] = <<>>
    BY <1>4, <2>1 DEF NoPool
  <2>3. KnowPools(Pools)
    BY <1>4, <2>1, <2>2, KnowOthers DEF Unknown, PoolName
  <2>4. Knows(Pools)'
    BY <2>1, <2>3, KnowStays, PoolsStay
  <2>. QED
    BY <1>6, <2>1, <2>2, <2>4 DEF Unknown
<1>16. CASE Rollback
  <2>1. pc = "rollback" /\ call.name \in Names /\ UNCHANGED <<registered, pool, user>>
    BY <1>16 DEF Rollback, CallKnown, memory
  <2>2. CASE ~call.shared
    <3>1. NoPool(call.name)
      BY <1>4, <2>1, <2>2 DEF NoPool
    <3>2. pc' = "idle" /\ UNCHANGED published
      BY <1>3, <1>16, <2>1, <2>2, <3>1, WithdrawFacts DEF Rollback
    <3>. QED
      BY <1>8, <2>1, <3>2
  <2>3. CASE call.shared
    BY <1>8, <1>16, <2>1, <2>3 DEF Rollback, Continue
  <2>. QED
    BY <2>2, <2>3
<1>17. CASE WithdrawCheckpoint
  <2>. DEFINE p == PoolName(call.name)
  <2>1. pc = "withdraw" /\ call.name \in Names /\ p \in Pools /\ UNCHANGED <<registered, pool, user>>
    BY <1>17, PoolNames DEF WithdrawCheckpoint, CallKnown, memory
  <2>2. CASE pc' = "idle" /\ UNCHANGED published
    BY <1>8, <2>1, <2>2
  <2>3. CASE /\ KeysOf(p) \subseteq DOMAIN named /\ engine' = engine \ {named[k] : k \in KeysOf(p)}
             /\ named' = [k \in DOMAIN named \ KeysOf(p) |-> named[k]]
             /\ pc' = "free" /\ UNCHANGED call
    <3>1. engine' = engine \ RegionsOf(p) /\ DOMAIN named' = DOMAIN named \ KeysOf(p)
      BY <1>5, <2>1, <2>3, WithdrawnRegions
    <3>2. p' = p /\ Unknown' = {p}
      BY <2>1, <2>3 DEF Unknown, PoolName
    <3>3. PICK q \in Pools : q = p
      BY <2>1
    <3>4. Knows(Pools \ {q})'
      <4>. HIDE DEF p
      <4>. QED
        BY <1>7, <2>1, <3>1, <3>3, KnowLess
    <3>. QED
      BY <1>6, <2>3, <3>2, <3>3, <3>4
  <2>. QED
    BY <1>17, <2>1, <2>2, <2>3, WithdrawFacts DEF WithdrawCheckpoint
<1>18. CASE Unregister
  <2>1. /\ pc = "unregister" /\ pc' \in {"idle", "withdraw"} /\ UNCHANGED <<pool, published>>
    BY <1>3, <1>18 DEF Unregister, Done, Raise, Return, Continue
  <2>. QED
    BY <1>8, <2>1
<1>19. CASE FreeShared \/ FreePrivate
  <2>. DEFINE p == PoolName(call.name)
  <2>1. /\ pc = "free" /\ call.name \in Names /\ p \in Pools /\ UNCHANGED published /\ pc' = "idle"
        /\ pool' = [pool EXCEPT ![p] = <<>>]
    BY <1>19, PoolNames DEF FreeShared, FreePrivate, CallKnown, PoolName, Done, Raise, Return
  <2>2. KnowPools(Pools \ {p})
    BY <1>4, <2>1 DEF Unknown
  <2>3. <<>> \in Seq(Regions)
    OBVIOUS
  <2>4. Knows(Pools)'
    <3>. HIDE DEF p
    <3>. QED
      BY <1>10, <2>1, <2>2, <2>3
  <2>. QED
    BY <1>6, <2>1, <2>4 DEF Unknown
<1>20. ~UnpinFails
  BY <1>2 DEF UnpinFails, Spoilers
<1>21. CASE UNCHANGED vars
  <2>1. UNCHANGED <<pool, published, pc, call, user, registered>>
    BY <1>21 DEF vars, memory
  <2>2. Unknown' = Unknown
    BY <2>1 DEF Unknown, PoolName
  <2>3. PICK U \in SUBSET Pools : U = Unknown
    <3>1. pc \in {"publish", "free"} => call.name \in Names
      BY DEF CallKnown
    <3>. QED
      BY <3>1, PoolNames DEF Unknown
  <2>4. Knows(Pools \ U)'
    BY <1>4, <2>1, <2>3, KnowStays, PoolsStay
  <2>. QED
    BY <1>4, <1>6, <2>1, <2>2, <2>3, <2>4
<1>. QED
  BY <1>9, <1>12, <1>13, <1>14, <1>15, <1>16, <1>17, <1>18, <1>19, <1>20, <1>21, Steps

-----------------------------------------------------------------------------
(* A registration that is rolled back.                                     *)

LEMMA RollbackStep ==
    ASSUME TypeOK, CallKnown, RollbackKnown, [Next]_vars
    PROVE  RollbackKnown'
<1>. USE RegistryAssumption, NamesFacts
<1>. DEFINE Spared == mishaps \cap {"engine", "clash"} = {}
            Publishing == pc = "publish" => IF call.shared THEN /\ call.name = user /\ call.name \notin registered
                                                                /\ pool[SharedPool] = <<>> => Rewound
                                            ELSE call.name # user /\ call.name \in registered
            RollingBack == pc \in {"rollback", "unregister"} => /\ call.name \notin registered /\ Rewound
                                                                /\ call.name = user => call.shared
            Ended == pc = "idle" /\ call.raised => memory = before
            Goal == Publishing /\ RollingBack /\ pc \notin {"withdraw", "free"} /\ Ended
<1>1. RollbackKnown <=> (call.op = "register" /\ Spared => Goal)
  BY DEF RollbackKnown, RollbackHarmless
<1>2. SUFFICES ASSUME call'.op = "register", Spared' PROVE Goal'
  BY DEF RollbackKnown, RollbackHarmless
<1>3. Spared
  BY <1>2, MishapsStay
<1>4. ASSUME NEW c \in Names, Clash(c) \subseteq mishaps' PROVE c \notin registered /\ c # user
  <2>1. Clash(c) = {}
    BY <1>2, <1>4 DEF Clash
  <2>. QED
    BY <2>1 DEF Clash
<1>5. ASSUME NEW c \in Names, Starts(c) PROVE Goal'
  <2>1. pc' = "rollback" /\ call'.name = c /\ c \notin registered /\ c # user
    BY <1>2, <1>4, <1>5, StartsFrame
  <2>2. before' = memory /\ memory' = memory
    BY <1>5 DEF Starts, RegisterRefused, RegisterFails, RegisterMisfit, Refuse, UnregisterCheckpoint, Begin
  <2>. QED
    BY <2>1, <2>2 DEF Rewound, memory
<1>6. ASSUME NEW c \in Names, PinFails(c) PROVE Goal'
  <2>1. pc' = "rollback" /\ call'.name = c /\ c \notin registered /\ c # user
    BY <1>4, <1>6 DEF PinFails, Begin
  <2>2. before' = memory /\ memory' = memory
    BY <1>6 DEF PinFails, Begin
  <2>. QED
    BY <2>1, <2>2 DEF Rewound, memory
<1>7. ASSUME NEW c \in Names, NEW sizes \in Shapes, RegisterShared(c, sizes) PROVE Goal'
  <2>1. PICK bs \in Seq(Regions) : pool' = [pool EXCEPT ![SharedPool] = bs]
    BY <1>7, SharedFrame
  <2>2. /\ user = Nobody /\ user' = c /\ c \notin registered /\ registered' = registered
        /\ call'.name = c /\ call'.shared /\ ~call'.raised
        /\ pc' = IF hasStore /\ pool[SharedPool] = <<>> THEN "publish" ELSE "idle"
    BY <1>4, <1>7, SharedFrame
  <2>3. before' = memory
    BY <1>7 DEF RegisterShared, Begin
  <2>4. pc' = "publish" /\ pool'[SharedPool] = <<>> => Rewound'
    <3>. SUFFICES ASSUME pc' = "publish", pool'[SharedPool] = <<>> PROVE Rewound'
      OBVIOUS
    <3>1. pool[SharedPool] = <<>>
      BY <2>2
    <3>2. pool' = pool
      BY <2>1, <3>1 DEF TypeOK
    <3>. QED
      BY <2>2, <2>3, <3>2 DEF Rewound, memory
  <2>. QED
    BY <2>2, <2>4
<1>8. ASSUME NEW c \in Names, NEW sizes \in Shapes, NEW n \in 0 .. MaxFiles, RegisterPrivate(c, sizes, n)
      PROVE  Goal'
  <2>1. /\ user' = user /\ registered' = registered \cup {c} /\ pc' \in {"publish", "idle"}
        /\ call' = [name |-> c, op |-> "register", shared |-> FALSE, force |-> FALSE, raised |-> FALSE]
        /\ mishaps' = mishaps \cup Clash(c)
    BY <1>8, PrivateFrame
  <2>2. c # user
    BY <1>4, <2>1
  <2>. QED
    BY <2>1, <2>2
<1>9. ~Publish
  BY <1>2 DEF Publish, Return, Nothing
<1>10. CASE PublishFails
  <2>1. /\ pc = "publish" /\ pc' = "rollback" /\ NoPool(call.name)
        /\ UNCHANGED <<registered, pool, user, call, before>>
    BY <1>2, <1>10 DEF PublishFails, Continue, memory
  <2>2. call.shared /\ call.name = user /\ call.name \notin registered /\ pool[SharedPool] = <<>> /\ Rewound
    BY <1>1, <1>2, <1>3, <2>1 DEF NoPool
  <2>. QED
    BY <2>1, <2>2 DEF Rewound
<1>11. CASE Rollback
  <2>1. /\ pc = "rollback" /\ call.name \in Names /\ call.op = "register"
        /\ UNCHANGED <<registered, pool, user>>
    BY <1>11 DEF Rewound, Rollback, CallKnown, memory
  <2>2. call.name \notin registered /\ (call.name = user => call.shared) /\ Rewound
    BY <1>1, <1>3, <2>1
  <2>3. CASE hasStore /\ ~call.shared
    <3>1. Raise
      BY <1>11, <2>2, <2>3 DEF Rollback, Withdraw, NoPool
    <3>. QED
      BY <2>1, <2>2, <2>3, <3>1 DEF Raise, Rewound, memory
  <2>4. CASE ~(hasStore /\ ~call.shared)
    <3>1. pc' = "unregister" /\ UNCHANGED <<call, before>>
      BY <1>11, <2>4 DEF Rollback, Continue
    <3>. QED
      BY <2>1, <2>2, <3>1 DEF Rewound
  <2>. QED
    BY <2>3, <2>4
<1>12. CASE Unregister
  <2>1. pc = "unregister" /\ call.name \in Names /\ call.op = "register" /\ ~call.force
    BY <1>2, <1>12 DEF Unregister, Done, Raise, Return, Continue, Nothing, CallKnown
  <2>2. call.name \notin registered /\ Rewound
    BY <1>1, <1>3, <2>1
  <2>3. Raise /\ UNCHANGED <<registered, pool>> /\ user' = IF call.name = user THEN Nobody ELSE user
    BY <1>12, <2>1, <2>2 DEF Unregister, Done
  <2>. QED
    BY <2>2, <2>3 DEF Raise, Rewound, memory
<1>13. ~WithdrawCheckpoint
  BY <1>1, <1>2, <1>3, WithdrawFacts DEF WithdrawCheckpoint, CallKnown, TypeOK
<1>14. ~FreeShared /\ ~FreePrivate /\ ~UnpinFails
  BY <1>1, <1>2, <1>3 DEF FreeShared, FreePrivate, UnpinFails, Done, Raise, Return, Nothing, TypeOK
<1>15. CASE UNCHANGED vars
  BY <1>1, <1>2, <1>3, <1>15 DEF vars, memory, Rewound
<1>. QED
  BY <1>5, <1>6, <1>7, <1>8, <1>9, <1>10, <1>11, <1>12, <1>13, <1>14, <1>15, Steps

-----------------------------------------------------------------------------
(* The theorems.                                                           *)

RegistryInv ==
    /\ TypeOK /\ CallKnown /\ PoolsApart
    /\ PinsKept /\ WithdrawnFirst /\ StoreKnows /\ RollbackKnown

LEMMA RegistryStarts == ASSUME Init PROVE RegistryInv
<1>. USE RegistryAssumption, NamesFacts DEF Init, Nothing
<1>1. <<>> \in Seq(Regions) /\ DOMAIN <<>> = {} /\ Range(<<>>) = {}
  BY DEF Range
<1>2. TypeOK
  BY <1>1 DEF TypeOK
<1>3. \A c \in Pools : RegionsOf(c) = {} /\ KeysOf(c) = {}
  BY EmptyPool
<1>4. Live = {}
  BY <1>3, LiveIs
<1>5. CallKnown /\ RollbackKnown
  BY DEF CallKnown, RollbackKnown, RollbackHarmless
<1>6. PoolsApart
  BY <1>3 DEF PoolsApart
<1>7. PinsKept
  BY <1>4 DEF PinsKept
<1>8. WithdrawnFirst
  BY <1>1 DEF WithdrawnFirst, PublishedIsLive
<1>9. Knows(Pools \ Unknown)
  <2>1. KnowPools(Pools)
    BY <1>1, <1>3 DEF KnowPools
  <2>2. Pools \ Unknown = Pools
    BY DEF Unknown
  <2>. QED
    BY <2>1, <2>2, KnowPoolsIs
<1>10. StoreKnows
  BY <1>9 DEF StoreKnows
<1>. QED
  BY <1>2, <1>5, <1>6, <1>7, <1>8, <1>10 DEF RegistryInv

\* Every state of the registry satisfies the inductive invariant: the pools are
\* apart, pins follow them, what is freed has been withdrawn, and the P2P store
\* knows what has been published (register_checkpoint, unregister_checkpoint).
THEOREM RegistryInductive == Spec => []RegistryInv
<1>1. Init => RegistryInv
  BY RegistryStarts
<1>2. RegistryInv /\ [Next]_vars => RegistryInv'
  BY TypeStep, CallStep, ApartStep, PinsStep, WithdrawnStep, StoreStep, RollbackStep DEF RegistryInv
<1>. QED
  BY <1>1, <1>2, PTL DEF Spec

\* Every variable of the registry keeps its type, whatever is registered and fails.
THEOREM RegistryTypeCorrect == Spec => []TypeOK
<1>1. RegistryInv => TypeOK
  BY DEF RegistryInv
<1>. QED
  BY RegistryInductive, <1>1, PTL

\* Between calls exactly the files of the pools are pinned by cudaHostRegister, for
\* any number of checkpoints, files and buffers, as long as no pin or unpin failed
\* (pin_memory.py, unregister_checkpoint).
THEOREM PinsMatch == Spec => []PinsMatchPools
<1>1. RegistryInv => PinsMatchPools
  BY DEF RegistryInv, PinsKept, PinsMatchPools
<1>. QED
  BY RegistryInductive, <1>1, PTL

\* No memory that has been freed stays published to other ranks, nor in the P2P
\* store, whatever fails (unregister_checkpoint withdraws before it frees), as long
\* as the shared pool has not shrunk.
THEOREM NothingFreedPublished == Spec => []PublishedIsLive
<1>1. RegistryInv => PublishedIsLive
  BY DEF RegistryInv, WithdrawnFirst
<1>. QED
  BY RegistryInductive, <1>1, PTL

\* Between calls, without the failures and misuses it names, the P2P store has
\* published the buffers of the pools and nothing else, for any number of them.
THEOREM StoreMatches == Spec => []StoreMatchesPools
<1>1. RegistryInv => StoreMatchesPools
  <2>. SUFFICES ASSUME RegistryInv, pc = "idle", hasStore,
                       mishaps \cap {"engine", "unpin", "clash", "shrunk"} = {}
                PROVE  Knows(Pools)
    BY DEF StoreMatchesPools
  <2>1. Knows(Pools \ Unknown)
    BY DEF RegistryInv, StoreKnows
  <2>2. Pools \ Unknown = Pools
    BY DEF Unknown
  <2>. QED
    BY <2>1, <2>2
<1>. QED
  BY RegistryInductive, <1>1, PTL

\* A register_checkpoint that raises changes neither the registered checkpoints nor
\* the user of the shared pool (the except clause of register_checkpoint).
THEOREM RollbackRestores == Spec => []RollbackHarmless
<1>1. RegistryInv => RollbackHarmless
  BY DEF RegistryInv, RollbackKnown, RollbackHarmless
<1>. QED
  BY RegistryInductive, <1>1, PTL

\* The shared pool changes only when a checkpoint is registered in its buffers or a
\* forced unregister_checkpoint of its user frees it (_normal_pin_memory).
THEOREM PoolReused == Spec => SharedPoolReused
<1>1. ASSUME TypeOK, CallKnown, [Next]_vars, pool[SharedPool] # <<>>, pool'[SharedPool] # pool[SharedPool]
      PROVE  \/ call'.op = "register" /\ IsPrefix(pool'[SharedPool], pool[SharedPool])
             \/ pool'[SharedPool] = <<>> /\ call.op = "unregister" /\ call.force /\ call.name = user
  <2>. USE RegistryAssumption, NamesFacts
  <2>1. ASSUME NEW c \in Names, NEW sizes \in Shapes, RegisterShared(c, sizes)
        PROVE  call'.op = "register" /\ IsPrefix(pool'[SharedPool], pool[SharedPool])
    <3>1. PICK bs \in Seq(Regions) : /\ pool' = [pool EXCEPT ![SharedPool] = bs]
                                     /\ IsPrefix(bs, pool[SharedPool])
      BY <1>1, <2>1, SharedFrame
    <3>2. pool'[SharedPool] = bs
      BY <1>1, <3>1 DEF TypeOK
    <3>. QED
      BY <1>1, <2>1, <3>1, <3>2, SharedFrame
  <2>2. ASSUME NEW c \in Names, NEW sizes \in Shapes, NEW n \in 0 .. MaxFiles, RegisterPrivate(c, sizes, n)
        PROVE  FALSE
    <3>1. PICK bs \in Seq(Regions) : pool' = [pool EXCEPT ![c] = bs]
      BY <2>2, PrivateFrame
    <3>. QED
      BY <1>1, <3>1 DEF TypeOK
  <2>3. FreeShared => pool'[SharedPool] = <<>> /\ call.op = "unregister" /\ call.force /\ call.name = user
    BY <1>1 DEF FreeShared, TypeOK, CallKnown
  <2>4. ~FreePrivate
    BY <1>1 DEF FreePrivate, TypeOK, CallKnown
  <2>5. ASSUME \/ \E c \in Names : Starts(c) \/ PinFails(c)
               \/ Publish \/ PublishFails \/ Rollback \/ Unregister \/ WithdrawCheckpoint
               \/ UnpinFails \/ UNCHANGED vars
        PROVE  UNCHANGED pool
    BY <2>5, StartsFrame DEF PinFails, Publish, PublishFails, Rollback, Unregister, WithdrawCheckpoint,
                             UnpinFails, memory, vars
  <2>. QED
    BY <1>1, <2>1, <2>2, <2>3, <2>4, <2>5, Steps
<1>2. RegistryInv /\ [Next]_vars =>
          [pool[SharedPool] # <<>> /\ pool'[SharedPool] # pool[SharedPool] =>
               \/ call'.op = "register" /\ IsPrefix(pool'[SharedPool], pool[SharedPool])
               \/ pool'[SharedPool] = <<>> /\ call.op = "unregister" /\ call.force /\ call.name = user]_vars
  BY <1>1 DEF RegistryInv
<1>. QED
  BY <1>2, RegistryInductive, PTL DEF Spec, SharedPoolReused
=============================================================================
