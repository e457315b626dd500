------------------------- MODULE ProcessGroupsProofs -------------------------
(***************************************************************************)
(* What holds of the process groups for any number of ranks and any        *)
(* script of calls: GroupsInv is inductive, and CollectivesMatch,          *)
(* CommunicatorsBalanced and ObjectsExact follow.                          *)
(***************************************************************************)
EXTENDS ProcessGroups, ListProofs

-----------------------------------------------------------------------------
(* Lists of ranks.                                                         *)

LEMMA RanksFinite == IsFiniteSet(Ranks) /\ Ranks \subseteq Nat /\ 0 \in Ranks
<1>1. N \in Nat /\ N - 1 \in Int /\ N >= 1
  BY GroupsAssumption
<1>2. IsFiniteSet(Ranks)
  BY <1>1, FS_Interval DEF Ranks
<1>3. Ranks \subseteq Nat /\ 0 \in Ranks
  BY <1>1 DEF Ranks
<1>. QED
  BY <1>2, <1>3

LEMMA RangeOf ==
    ASSUME NEW ranks \in Seq(Ranks)
    PROVE  Range(ranks) \subseteq Ranks /\ Range(ranks) = {ranks[i] : i \in 1 .. Len(ranks)}
BY DEF Range

\* Sorting a list of ranks keeps the ranks, each of them once.
LEMMA SortedFacts ==
    ASSUME NEW ranks \in Seq(Ranks)
    PROVE  /\ Sorted(ranks) \in Seq(Ranks)
           /\ Range(Sorted(ranks)) = Range(ranks)
<1>. DEFINE S == Range(ranks)
<1>1. S \in SUBSET Ranks
  BY RangeOf
<1>2. S \in SUBSET Nat /\ IsFiniteSet(S)
  BY <1>1, RanksFinite, FS_Subset
<1>. HIDE DEF S
<1>3. InOrder(S) \in Seq(S) /\ Range(InOrder(S)) = S
  BY <1>2, InOrderFacts
<1>4. InOrder(S) \in Seq(Ranks)
  BY <1>1, <1>3
<1>. QED
  BY <1>3, <1>4 DEF Sorted, S

\* The rank of r in a list that has it is the place where it stands.
LEMMA IndexFacts ==
    ASSUME NEW ranks \in Seq(Ranks), NEW r \in Range(ranks)
    PROVE  /\ Index(ranks, r) \in Int
           /\ Index(ranks, r) + 1 \in DOMAIN ranks /\ ranks[Index(ranks, r) + 1] = r
<1>. DEFINE i == CHOOSE i \in DOMAIN ranks : ranks[i] = r
<1>1. i \in DOMAIN ranks /\ ranks[i] = r
  BY DEF Range
<1>2. i \in Int /\ Index(ranks, r) = i - 1
  BY <1>1 DEF Index
<1>. QED
  BY <1>1, <1>2

LEMMA EveryoneFacts ==
    /\ Everyone \in Seq(Ranks) /\ Range(Everyone) = Ranks /\ Everyone # <<>>
    /\ \A r \in Ranks : Everyone[r + 1] = r /\ r + 1 \in DOMAIN Everyone
<1>1. N \in Nat /\ N >= 1
  BY GroupsAssumption
<1>2. Everyone \in [1 .. N -> Ranks]
  BY <1>1 DEF Everyone, Ranks
<1>3. \A r \in Ranks : Everyone[r + 1] = r /\ r + 1 \in DOMAIN Everyone
  BY <1>1 DEF Everyone, Ranks
<1>4. Everyone \in Seq(Ranks) /\ Everyone # <<>>
  BY <1>1, <1>2, <1>3, RanksFinite
<1>5. Range(Everyone) = Ranks
  BY <1>2, <1>3 DEF Range
<1>. QED
  BY <1>3, <1>4, <1>5

-----------------------------------------------------------------------------
(* Calls, steps, communicators.                                            *)

\* Where r is in its script.
InCall(r) == pos[r] \in Calls

LEMMA ScriptFacts ==
    ASSUME NEW u \in Calls
    PROVE  /\ Script[u].op \in {"gather", "update"}
           /\ Script[u].ranks \in Seq(Ranks) /\ Script[u].sources \in Seq(Ranks)
           /\ Script[u].op = "gather" => Script[u].ranks = <<>>
           /\ Script[u].ranks # <<>> => Range(Script[u].sources) \subseteq Range(Script[u].ranks)
           /\ FirstStep(0, u) \in {"gather", "size", "group"}
<1>. DEFINE call == [op : {"gather", "update"}, ranks : Seq(Ranks), sources : Seq(Ranks)]
<1>1. Script[u] \in call
  <2>1. Script \in Seq(call) /\ u \in 1 .. Len(Script)
    BY GroupsAssumption DEF Calls
  <2>. HIDE DEF call
  <2>. QED
    BY <2>1
<1>. QED
  BY <1>1, GroupsAssumption DEF FirstStep

LEMMA KindFacts ==
    /\ DOMAIN Kind = {"gather", "enter", "size", "send", "vote", "finish"}
    /\ Range(Kind) = {"gather", "barrier", "reduce", "broadcast"}
    /\ Kind["gather"] = "gather" /\ Kind["enter"] = "barrier" /\ Kind["size"] = "reduce"
    /\ Kind["send"] = "broadcast" /\ Kind["vote"] = "reduce" /\ Kind["finish"] = "barrier"
<1>1. DOMAIN Kind = {"gather", "enter", "size", "send", "vote", "finish"}
  BY DEF Kind
<1>2. /\ Kind["gather"] = "gather" /\ Kind["enter"] = "barrier" /\ Kind["size"] = "reduce"
      /\ Kind["send"] = "broadcast" /\ Kind["vote"] = "reduce" /\ Kind["finish"] = "barrier"
  BY DEF Kind
<1>3. Range(Kind) = {"gather", "barrier", "reduce", "broadcast"}
  BY <1>1, <1>2 DEF Range
<1>. QED
  BY <1>1, <1>2, <1>3

LEMMA CommFacts ==
    ASSUME TypeOK, NEW r \in Ranks
    PROVE  /\ World(r) \in Communicators /\ World(r) # NoGroup
           /\ World(r).world = worlds[r] /\ World(r).sub = 0 /\ World(r).ranks = Everyone
           /\ NoGroup \in Communicators
           /\ InCall(r) => /\ GroupFor(r) \in Communicators
                           /\ GroupFor(r) # NoGroup /\ GroupFor(r) # World(r)
                           /\ GroupFor(r).world = worlds[r] /\ GroupFor(r).sub = 1
                           /\ GroupFor(r).ranks = Sorted(This(r).ranks)
                           /\ Range(GroupFor(r).ranks) = Range(This(r).ranks)
                           /\ Range(This(r).ranks) \subseteq Ranks
<1>1. worlds[r] \in Nat /\ <<>> \in Seq(Ranks)
  BY DEF TypeOK
<1>2. World(r) \in Communicators /\ World(r) # NoGroup /\ NoGroup \in Communicators
  BY <1>1, EveryoneFacts DEF World, Comm, NoGroup, Communicators
<1>3. World(r).world = worlds[r] /\ World(r).sub = 0 /\ World(r).ranks = Everyone
  BY DEF World, Comm
<1>4. ASSUME InCall(r)
      PROVE  /\ GroupFor(r) \in Communicators
             /\ GroupFor(r) # NoGroup /\ GroupFor(r) # World(r)
             /\ GroupFor(r).world = worlds[r] /\ GroupFor(r).sub = 1
             /\ GroupFor(r).ranks = Sorted(This(r).ranks)
             /\ Range(GroupFor(r).ranks) = Range(This(r).ranks)
             /\ Range(This(r).ranks) \subseteq Ranks
  <2>1. This(r).ranks \in Seq(Ranks)
    BY <1>4, ScriptFacts DEF InCall, This
  <2>2. Sorted(This(r).ranks) \in Seq(Ranks)
        /\ Range(Sorted(This(r).ranks)) = Range(This(r).ranks)
    BY <2>1, SortedFacts
  <2>3. GroupFor(r) = [world |-> worlds[r], sub |-> 1, ranks |-> Sorted(This(r).ranks)]
    BY DEF GroupFor, Comm
  <2>4. World(r).sub # 1 /\ NoGroup.sub # 1
    BY DEF World, NoGroup, Comm
  <2>. QED
    BY <1>1, <2>1, <2>2, <2>3, <2>4, RangeOf DEF Communicators
<1>. QED
  BY <1>2, <1>3, <1>4

LEMMA PlaceFacts ==
    ASSUME TypeOK, NEW r \in Ranks
    PROVE  /\ pos[r] \in Nat /\ pos[r] <= Len(Script) /\ Len(Script) \in Nat
           /\ pos[r] > 0 <=> InCall(r)
           /\ pos[r] < Len(Script) => pos[r] + 1 \in Calls
<1>1. Len(Script) \in Nat
  BY GroupsAssumption
<1>. QED
  BY <1>1 DEF TypeOK, InCall, Calls

\* What holds of one rank.
LocalInv(r) == PlacedAt(r) /\ HasAt(r) /\ PostedAt(r) /\ OwnedAt(r)

LEMMA InvParts ==
    ASSUME GroupsInv
    PROVE  TypeOK /\ Lockstep /\ \A r \in Ranks : LocalInv(r)
BY DEF GroupsInv, LocalInv

\* Where a rank that waits stands.
LEMMA PostedFacts ==
    ASSUME TypeOK, NEW r \in Ranks, LocalInv(r), posted[r] # Nothing
    PROVE  /\ InCall(r) /\ pc[r] \in {"group", "gather", "enter", "size", "send", "vote", "finish"}
           /\ initialized[r]
           /\ posted[r].comm # NoGroup /\ posted[r].kind # "none"
           /\ \/ posted[r].comm = World(r) /\ group[r] = NoGroup
              \/ /\ posted[r].comm = GroupFor(r) /\ P2P(r) /\ IsMember(r) /\ This(r).op = "update"
                 /\ pc[r] = "group" => backend = "hccl"
                 /\ pc[r] # "group" => group[r] = GroupFor(r)
           /\ r \in Range(posted[r].comm.ranks) /\ Range(posted[r].comm.ranks) \subseteq Ranks
           /\ pc[r] # "group" \/ backend = "hccl" => IsMember(r)
<1>1. pc[r] \in {"group", "gather", "enter", "size", "send", "vote", "finish"}
  BY KindFacts DEF LocalInv, PostedAt
<1>2. InCall(r)
  BY <1>1, PlaceFacts DEF LocalInv, PlacedAt
<1>3. initialized[r]
  BY <1>1 DEF LocalInv, PlacedAt
<1>4. This(r).op = "gather" => ~P2P(r)
  BY <1>2, ScriptFacts DEF InCall, This, P2P
<1>5. pc[r] # "group" \/ backend = "hccl" => IsMember(r)
  BY <1>1, <1>4 DEF LocalInv, PlacedAt, PostedAt, InGroup, IsMember
<1>6. \/ posted[r].comm = World(r) /\ group[r] = NoGroup
      \/ /\ posted[r].comm = GroupFor(r) /\ P2P(r) /\ IsMember(r) /\ This(r).op = "update"
         /\ pc[r] = "group" => backend = "hccl"
         /\ pc[r] # "group" => group[r] = GroupFor(r)
  <2>1. CASE pc[r] = "group"
    <3>1. group[r] = NoGroup /\ P2P(r) /\ This(r).op = "update"
      BY <2>1 DEF LocalInv, HasAt, PlacedAt, InGroup
    <3>2. posted[r].comm = IF backend = "hccl" THEN GroupFor(r) ELSE World(r)
      BY <2>1 DEF LocalInv, PostedAt
    <3>. QED
      BY <1>5, <2>1, <3>1, <3>2
  <2>2. CASE pc[r] # "group"
    <3>1. posted[r].comm = IF group[r] = NoGroup THEN World(r) ELSE group[r]
      BY <2>2 DEF LocalInv, PostedAt
    <3>2. group[r] # NoGroup => /\ group[r] = GroupFor(r) /\ P2P(r) /\ IsMember(r)
                                /\ This(r).op = "update"
      BY DEF LocalInv, HasAt, PlacedAt
    <3>. QED
      BY <2>2, <3>1, <3>2
  <2>. QED
    BY <2>1, <2>2
<1>7. posted[r].comm # NoGroup
  BY <1>2, <1>6, CommFacts
<1>8. posted[r].kind # "none"
  BY <1>1, KindFacts DEF LocalInv, PostedAt
<1>9. r \in Range(posted[r].comm.ranks) /\ Range(posted[r].comm.ranks) \subseteq Ranks
  BY <1>2, <1>6, CommFacts, EveryoneFacts DEF IsMember
<1>. QED
  BY <1>1, <1>2, <1>3, <1>5, <1>6, <1>7, <1>8, <1>9

\* Ranks that wait on the same communicator are at the same place, in a group or not.
LEMMA Meeting ==
    ASSUME GroupsInv, NEW q \in Ranks, NEW r \in Ranks,
           posted[q] # Nothing, posted[q].comm = posted[r].comm
    PROVE  /\ posted[r] # Nothing
           /\ pos[q] = pos[r] /\ pc[q] = pc[r] /\ turn[q] = turn[r] /\ group[q] = group[r]
           /\ posted[q] = posted[r]
<1>0. TypeOK /\ LocalInv(q) /\ LocalInv(r) /\ Lockstep
  BY InvParts
<1>1. posted[q].comm # NoGroup
  BY <1>0, PostedFacts
<1>2. posted[r] # Nothing
  BY <1>1 DEF Nothing
<1>3. /\ InCall(q) /\ InCall(r)
      /\ pc[q] \in {"group", "gather", "enter", "size", "send", "vote", "finish"}
      /\ pc[r] \in {"group", "gather", "enter", "size", "send", "vote", "finish"}
  BY <1>0, <1>2, PostedFacts
<1>4. ASSUME NEW a \in Ranks, NEW b \in Ranks, InCall(a),
             pc[a] \notin {"idle", "init"}, pc[b] \notin {"idle", "init"}
      PROVE  ~(pos[a] < pos[b])
  BY <1>0, <1>4, PlaceFacts DEF Lockstep, Behind
<1>5. pos[q] = pos[r] /\ This(q) = This(r)
  <2>1. ~(pos[q] < pos[r]) /\ ~(pos[r] < pos[q])
    BY <1>3, <1>4
  <2>. QED
    BY <1>0, <2>1, PlaceFacts DEF This
<1>6. Joint(q, r) /\ worlds[q] = worlds[r]
  BY <1>0, <1>3, <1>5, PlaceFacts DEF Lockstep
<1>7. GroupFor(q) = GroupFor(r) /\ World(q) = World(r) /\ (P2P(q) <=> P2P(r))
  BY <1>5, <1>6 DEF GroupFor, World, P2P
<1>8. pc[q] = pc[r] /\ turn[q] = turn[r]
  <2>1. CASE IsMember(q) /\ IsMember(r)
    BY <1>3, <1>6, <2>1 DEF Joint, SamePlace, Over
  <2>2. CASE ~IsMember(q) \/ ~IsMember(r)
    <3>1. backend # "hccl" /\ (pc[q] = "group" \/ pc[r] = "group")
      BY <1>0, <1>2, <2>2, PostedFacts
    <3>2. pc[q] = "group" /\ pc[r] = "group"
      BY <1>6, <3>1 DEF Joint
    <3>. QED
      BY <1>0, <3>2 DEF LocalInv, PlacedAt
  <2>. QED
    BY <2>1, <2>2
<1>9. group[q] = group[r]
  <2>1. CASE pc[q] = "group"
    BY <1>0, <1>8, <2>1 DEF LocalInv, HasAt, InGroup
  <2>2. CASE pc[q] # "group"
    <3>1. GroupFor(q) # World(q)
      BY <1>0, <1>3, CommFacts
    <3>2. \/ posted[q].comm = World(q) /\ group[q] = NoGroup
          \/ posted[q].comm = GroupFor(q) /\ group[q] = GroupFor(q)
      BY <1>0, <2>2, PostedFacts
    <3>3. \/ posted[r].comm = World(q) /\ group[r] = NoGroup
          \/ posted[r].comm = GroupFor(q) /\ group[r] = GroupFor(q)
      BY <1>0, <1>2, <1>7, <1>8, <2>2, PostedFacts
    <3>. QED
      BY <3>1, <3>2, <3>3
  <2>. QED
    BY <2>1, <2>2
<1>10. Source(q) = Source(r) /\ RankIn(group[q], Source(q)) = RankIn(group[r], Source(r))
  BY <1>5, <1>8, <1>9 DEF Source
<1>11. posted[q] = posted[r]
  BY <1>0, <1>2, <1>7, <1>8, <1>9, <1>10 DEF LocalInv, PostedAt
<1>. QED
  BY <1>2, <1>5, <1>8, <1>9, <1>11

\* A collective that is over: the ranks of its communicator are all ranks or the
\* members of one P2P update, and they have all been at the same place of it.
LEMMA MetFacts ==
    ASSUME GroupsInv, NEW c \in Waiting, NEW kind, Met(c, kind)
    PROVE  /\ c \in Communicators /\ Range(c.ranks) \subseteq Ranks
           /\ \A r \in Range(c.ranks) :
                 /\ posted[r] # Nothing /\ posted[r].comm = c /\ posted[r].kind = kind
                 /\ \/ c = World(r) /\ group[r] = NoGroup /\ Range(c.ranks) = Ranks
                    \/ /\ c = GroupFor(r) /\ P2P(r) /\ IsMember(r) /\ This(r).op = "update"
                       /\ Range(c.ranks) = Range(This(r).ranks)
                       /\ pc[r] = "group" => backend = "hccl"
           /\ \A q, r \in Range(c.ranks) :
                 /\ pos[q] = pos[r] /\ pc[q] = pc[r] /\ turn[q] = turn[r]
                 /\ group[q] = group[r] /\ posted[q] = posted[r]
<1>0. TypeOK /\ Lockstep /\ \A r \in Ranks : LocalInv(r)
  BY InvParts
<1>1. PICK r0 \in Ranks : posted[r0].comm = c /\ c # NoGroup
  BY DEF Waiting
<1>2. posted[r0] # Nothing
  BY <1>1 DEF Nothing
<1>3. Range(c.ranks) \subseteq Ranks
  BY <1>0, <1>1, <1>2, PostedFacts
<1>4. c \in Communicators
  BY <1>0, <1>1, <1>2, PostedFacts, CommFacts
<1>5. ASSUME NEW r \in Range(c.ranks)
      PROVE  /\ posted[r] # Nothing /\ posted[r].comm = c /\ posted[r].kind = kind
             /\ \/ c = World(r) /\ group[r] = NoGroup /\ Range(c.ranks) = Ranks
                \/ /\ c = GroupFor(r) /\ P2P(r) /\ IsMember(r) /\ This(r).op = "update"
                   /\ Range(c.ranks) = Range(This(r).ranks)
                   /\ pc[r] = "group" => backend = "hccl"
  <2>1. r \in Ranks /\ posted[r].comm = c /\ posted[r].kind = kind
    BY <1>3 DEF Met
  <2>2. posted[r] # Nothing
    BY <1>1, <2>1 DEF Nothing
  <2>3. LocalInv(r) /\ InCall(r)
    BY <1>0, <2>1, <2>2, PostedFacts
  <2>4. \/ c = World(r) /\ group[r] = NoGroup
        \/ /\ c = GroupFor(r) /\ P2P(r) /\ IsMember(r) /\ This(r).op = "update"
           /\ pc[r] = "group" => backend = "hccl"
    BY <1>0, <2>1, <2>2, <2>3, PostedFacts
  <2>. QED
    BY <1>0, <2>1, <2>2, <2>3, <2>4, CommFacts, EveryoneFacts
<1>6. ASSUME NEW q \in Range(c.ranks), NEW r \in Range(c.ranks)
      PROVE  /\ pos[q] = pos[r] /\ pc[q] = pc[r] /\ turn[q] = turn[r]
             /\ group[q] = group[r] /\ posted[q] = posted[r]
  BY <1>3, <1>5, Meeting
<1>. QED
  BY <1>3, <1>4, <1>5, <1>6

\* The root of a broadcast is the source, by its rank in the group if there is one.
LEMMA RootFacts ==
    ASSUME TypeOK, NEW r \in Ranks, LocalInv(r), pc[r] = "send"
    PROVE  LET g == group[r]
               ranks == IF g = NoGroup THEN Everyone ELSE g.ranks
           IN  /\ Source(r) \in Ranks
               /\ RankIn(g, Source(r)) \in Int /\ RankIn(g, r) \in Int
               /\ RankIn(g, Source(r)) + 1 \in DOMAIN ranks
               /\ ranks[RankIn(g, Source(r)) + 1] = Source(r)
               /\ RankIn(g, r) = RankIn(g, Source(r)) <=> r = Source(r)
<1>. DEFINE g == group[r]
            src == Source(r)
<1>1. InCall(r) /\ turn[r] \in DOMAIN This(r).sources /\ IsMember(r)
  BY PlaceFacts DEF LocalInv, PlacedAt, InGroup
<1>2. /\ This(r).sources \in Seq(Ranks)
      /\ P2P(r) => Range(This(r).sources) \subseteq Range(This(r).ranks)
  BY <1>1, ScriptFacts DEF InCall, This, P2P
<1>3. src \in Range(This(r).sources) /\ src \in Ranks
  BY <1>1, <1>2 DEF Source, Range
<1>4. CASE g = NoGroup
  <2>1. RankIn(g, src) = src /\ RankIn(g, r) = r
    BY <1>4 DEF RankIn
  <2>2. \A x \in Ranks : x \in Int
    BY RanksFinite
  <2>. QED
    BY <1>3, <1>4, <2>1, <2>2, EveryoneFacts
<1>5. CASE g # NoGroup
  <2>1. P2P(r) /\ g = GroupFor(r)
    BY <1>5 DEF LocalInv, HasAt
  <2>2. g.ranks \in Seq(Ranks) /\ Range(g.ranks) = Range(This(r).ranks)
    BY <1>1, <2>1, CommFacts DEF Communicators
  <2>3. src \in Range(g.ranks) /\ r \in Range(g.ranks)
    BY <1>1, <1>2, <1>3, <2>1, <2>2 DEF IsMember
  <2>4. RankIn(g, src) = Index(g.ranks, src) /\ RankIn(g, r) = Index(g.ranks, r)
    BY <1>5 DEF RankIn
  <2>5. /\ Index(g.ranks, src) + 1 \in DOMAIN g.ranks /\ g.ranks[Index(g.ranks, src) + 1] = src
        /\ Index(g.ranks, r) + 1 \in DOMAIN g.ranks /\ g.ranks[Index(g.ranks, r) + 1] = r
        /\ Index(g.ranks, src) \in Int /\ Index(g.ranks, r) \in Int
    BY <2>2, <2>3, IndexFacts
  <2>. QED
    BY <1>3, <1>5, <2>4, <2>5
<1>. QED
  BY <1>4, <1>5

-----------------------------------------------------------------------------
(* Types.                                                                  *)

LEMMA StepsFacts ==
    /\ Steps = {"gather", "enter", "size", "send", "vote", "finish", "idle", "init", "group", "close"}
    /\ Kinds = {"gather", "barrier", "reduce", "broadcast", "none", "group"}
BY KindFacts DEF Steps, Kinds

LEMMA TypeInit == Init => TypeOK
<1>. SUFFICES ASSUME Init PROVE TypeOK
  OBVIOUS
<1>1. /\ NoGroup \in Communicators
      /\ Nothing \in [comm : Communicators, kind : Kinds, root : Int]
  BY StepsFacts DEF NoGroup, Nothing, Comm, Communicators
<1>2. Len(Script) \in Nat /\ \A r \in Ranks : r \in Int
  BY GroupsAssumption, RanksFinite
<1>3. /\ pos \in [Ranks -> 0 .. Len(Script)] /\ turn \in [Ranks -> Nat] /\ worlds \in [Ranks -> Nat]
      /\ rank \in [Ranks -> Int] /\ nextSub \in [Ranks -> Nat] /\ pc \in [Ranks -> Steps]
  BY <1>2, StepsFacts DEF Init, All
<1>. QED
  BY <1>1, <1>3 DEF Init, All, TypeOK

\* What follows a step is a step.
LEMMA NextStepType ==
    ASSUME TypeOK, NEW r \in Ranks PROVE NextStep(r) \in Steps
BY StepsFacts DEF TypeOK, NextStep

LEMMA TypeStep == ASSUME GroupsInv, [Next]_vars PROVE TypeOK'
<1>0. TypeOK /\ \A r \in Ranks : LocalInv(r)
  BY InvParts
<1>. USE DEF TypeOK
<1>1. ASSUME NEW r \in Ranks, Call(r) PROVE TypeOK'
  <2>1. pos[r] + 1 \in 0 .. Len(Script)
    BY <1>0, <1>1, PlaceFacts DEF Call, Calls
  <2>2. FirstStep(r, pos[r] + 1) \in Steps /\ "init" \in Steps
    BY StepsFacts DEF FirstStep
  <2>3. pos' \in [Ranks -> 0 .. Len(Script)] /\ pc' \in [Ranks -> Steps] /\ turn' \in [Ranks -> Nat]
    BY <1>0, <1>1, <2>1, <2>2 DEF Call, Goto
  <2>. QED
    BY <1>0, <1>1, <2>3 DEF Call, object, history
<1>2. ASSUME Opened PROVE TypeOK'
  <2>. DEFINE world == Comm(worlds[0] + 1, 0, Everyone)
  <2>1. world \in Communicators
    <3>1. worlds[0] + 1 \in Nat
      BY <1>0, RanksFinite
    <3>. QED
      BY <3>1, EveryoneFacts DEF Comm, Communicators
  <2>. HIDE DEF world
  <2>2. comm' = All(world) /\ current' = All(world)
        /\ created' = [r \in Ranks |-> created[r] \cup {world}]
    BY <1>2 DEF Opened, world
  <2>3. /\ comm' \in [Ranks -> Communicators] /\ current' \in [Ranks -> Communicators]
        /\ created' \in [Ranks -> SUBSET Communicators]
    BY <1>0, <2>1, <2>2 DEF All
  <2>4. pc' \in [Ranks -> Steps]
    BY <1>2, StepsFacts DEF Opened, FirstStep
  <2>5. /\ worlds' \in [Ranks -> Nat] /\ initialized' \in [Ranks -> BOOLEAN]
        /\ rank' \in [Ranks -> Int] /\ nextSub' \in [Ranks -> Nat]
    <3>1. \A r \in Ranks : r \in Int
      BY RanksFinite
    <3>. QED
      BY <1>0, <1>2, <3>1 DEF Opened, All, NewCounters
  <2>. QED
    BY <1>0, <1>2, <2>3, <2>4, <2>5 DEF Opened
<1>3. ASSUME NEW r \in Ranks, Post(r) PROVE TypeOK'
  <2>. DEFINE src == IF pc[r] = "send" THEN This(r).sources[turn[r]] ELSE 0
              root == IF Kind[pc[r]] = "broadcast" THEN RankIn(group[r], src) ELSE 0
  <2>1. Kind[pc[r]] = "broadcast" => pc[r] = "send"
    BY <1>3, KindFacts DEF Post
  <2>2. root \in Int /\ (Kind[pc[r]] = "broadcast" => RankIn(group[r], r) \in Int)
    BY <1>0, <2>1, RootFacts DEF Source
  <2>. HIDE DEF root
  <2>3. rank' \in [Ranks -> Int] /\ current' \in [Ranks -> Communicators]
    BY <1>0, <1>3, <2>2 DEF Post, UseGroup
  <2>4. posted' = [posted EXCEPT ![r] = [comm |-> current'[r], kind |-> Kind[pc[r]], root |-> root]]
    BY <1>3 DEF Post, UseGroup, root
  <2>5. Kind[pc[r]] \in Kinds
    BY <1>3, KindFacts, StepsFacts DEF Post
  <2>6. posted' \in [Ranks -> [comm : Communicators, kind : Kinds, root : Int]]
    BY <1>0, <2>2, <2>3, <2>4, <2>5
  <2>. QED
    BY <1>0, <1>3, <2>3, <2>6 DEF Post, caller, history
<1>4. ASSUME NEW r \in Ranks, NewGroup(r) PROVE TypeOK'
  <2>1. pc' \in [Ranks -> Steps]
    <3>1. pc' = pc \/ pc' = [pc EXCEPT ![r] = "close"]
      BY <1>4 DEF NewGroup, Goto
    <3>. QED
      BY <1>0, <3>1, StepsFacts
  <2>2. posted' \in [Ranks -> [comm : Communicators, kind : Kinds, root : Int]]
    <3>. DEFINE c == IF backend = "hccl" THEN Comm(comm[r].world, nextSub[r], Sorted(This(r).ranks))
                     ELSE current[r]
    <3>1. Sorted(This(r).ranks) \in Seq(Ranks)
      <4>1. This(r).ranks \in Seq(Ranks)
        BY <1>0, <1>4, ScriptFacts, PlaceFacts DEF NewGroup, LocalInv, PlacedAt, InCall, This
      <4>. QED
        BY <4>1, SortedFacts
    <3>2. c \in Communicators
      BY <1>0, <3>1 DEF Comm, Communicators
    <3>3. [comm |-> c, kind |-> "group", root |-> 0] \in [comm : Communicators, kind : Kinds, root : Int]
      BY <3>2, StepsFacts
    <3>. HIDE DEF c
    <3>4. posted' = posted \/ posted' = [posted EXCEPT ![r] = [comm |-> c, kind |-> "group", root |-> 0]]
      BY <1>4 DEF NewGroup, c
    <3>. QED
      BY <1>0, <3>3, <3>4
  <2>. QED
    BY <1>0, <1>4, <2>1, <2>2 DEF NewGroup, object, history
<1>5. ASSUME NEW c \in Waiting, GroupMade(c) \/ \E kind \in Range(Kind) : Complete(c, kind)
      PROVE  posted' \in [Ranks -> [comm : Communicators, kind : Kinds, root : Int]]
  <2>1. Nothing \in [comm : Communicators, kind : Kinds, root : Int]
    BY StepsFacts DEF NoGroup, Nothing, Comm, Communicators
  <2>2. posted' = Of(c, posted, All(Nothing))
    BY <1>5 DEF GroupMade, Complete
  <2>. QED
    BY <1>0, <2>1, <2>2 DEF Of, All
<1>6. ASSUME NEW c \in Waiting, GroupMade(c) PROVE TypeOK'
  <2>. DEFINE made == IF backend = "hccl" THEN c
                      ELSE Comm(c.world, nextSub[c.ranks[1]], Sorted(This(c.ranks[1]).ranks))
              has(r) == r \in Range(made.ranks)
  <2>0. Met(c, "group")
    BY <1>6 DEF GroupMade
  <2>1. made \in Communicators
    <3>1. c \in Communicators /\ c.ranks \in Seq(Ranks) /\ Range(c.ranks) \subseteq Ranks
      BY <1>0, <2>0, MetFacts DEF Communicators
    <3>2. ASSUME backend # "hccl" PROVE made \in Communicators
      <4>1. PICK r0 \in Ranks : posted[r0].comm = c /\ c # NoGroup
        BY DEF Waiting
      <4>2. posted[r0] # Nothing
        BY <4>1 DEF Nothing
      <4>3. r0 \in Range(c.ranks)
        BY <1>0, <4>1, <4>2, PostedFacts
      <4>4. c.ranks[1] \in Range(c.ranks) /\ c.ranks[1] \in Ranks
        BY <3>1, <4>3 DEF Range
      <4>5. InCall(c.ranks[1])
        <5>1. posted[c.ranks[1]] # Nothing
          BY <2>0, <4>4, MetFacts
        <5>. QED
          BY <1>0, <4>4, <5>1, PostedFacts
      <4>6. This(c.ranks[1]).ranks \in Seq(Ranks)
        BY <4>5, ScriptFacts DEF InCall, This
      <4>7. Sorted(This(c.ranks[1]).ranks) \in Seq(Ranks)
        BY <4>6, SortedFacts
      <4>. QED
        BY <1>0, <3>1, <3>2, <4>4, <4>7 DEF Comm, Communicators
    <3>. QED
      BY <3>1, <3>2
  <2>. HIDE DEF made
  <2>2. /\ group' = Of(c, group, [r \in Ranks |-> IF has(r) THEN made ELSE NoGroup])
        /\ subs' = [r \in Ranks |-> IF has(r) THEN subs[r] \cup {made} ELSE subs[r]]
        /\ created' = [r \in Ranks |-> IF has(r) THEN created[r] \cup {made} ELSE created[r]]
        /\ nextSub' = Of(c, nextSub, [r \in Ranks |-> nextSub[r] + 1])
        /\ pc' = Of(c, pc, [r \in Ranks |-> IF has(r) THEN "enter" ELSE "close"])
    BY <1>6 DEF GroupMade, made
  <2>3. NoGroup \in Communicators
    BY DEF NoGroup, Comm, Communicators
  <2>4. group' \in [Ranks -> Communicators]
    BY <1>0, <2>1, <2>2, <2>3 DEF Of
  <2>5. subs' \in [Ranks -> SUBSET Communicators] /\ created' \in [Ranks -> SUBSET Communicators]
    BY <1>0, <2>1, <2>2
  <2>6. nextSub' \in [Ranks -> Nat] /\ pc' \in [Ranks -> Steps]
    BY <1>0, <2>2, StepsFacts DEF Of
  <2>. QED
    BY <1>0, <1>5, <1>6, <2>4, <2>5, <2>6 DEF GroupMade
<1>7. ASSUME NEW c \in Waiting, NEW kind \in Range(Kind), Complete(c, kind) PROVE TypeOK'
  <2>1. pc' \in [Ranks -> Steps]
    <3>1. \/ pc' = Of(c, pc, [r \in Ranks |-> NextStep(r)])
          \/ pc' = Of(c, pc, All("finish"))
      BY <1>7 DEF Complete
    <3>2. \A r \in Ranks : NextStep(r) \in Steps /\ "finish" \in Steps
      BY <1>0, NextStepType, StepsFacts
    <3>. DEFINE follow == [r \in Ranks |-> NextStep(r)]
    <3>3. follow \in [Ranks -> Steps] /\ All("finish") \in [Ranks -> Steps]
      BY <3>2 DEF All
    <3>. HIDE DEF follow
    <3>4. PICK g \in [Ranks -> Steps] : pc' = Of(c, pc, g)
      BY <3>1, <3>3 DEF follow
    <3>. QED
      BY <1>0, <3>4 DEF Of
  <2>2. turn' \in [Ranks -> Nat] /\ current' \in [Ranks -> Communicators] /\ rank' \in [Ranks -> Int]
    <3>1. \A r \in Ranks : r \in Int
      BY RanksFinite
    <3>. QED
      BY <1>0, <1>7, <3>1 DEF Complete, LeaveGroup, Of
  <2>. QED
    BY <1>0, <1>5, <1>7, <2>1, <2>2 DEF Complete, history
<1>8. ASSUME NEW r \in Ranks, Close(r) PROVE TypeOK'
  <2>1. NoGroup \in Communicators
    BY DEF NoGroup, Comm, Communicators
  <2>2. group' \in [Ranks -> Communicators]
    BY <1>0, <1>8, <2>1 DEF Close, Destroy
  <2>3. subs' = subs \/ subs' = [subs EXCEPT ![r] = @ \ {group[r]}]
    BY <1>8 DEF Close, Destroy
  <2>4. PICK c \in Communicators : freed' = [freed EXCEPT ![r] = Append(@, c)]
    BY <1>0, <1>8 DEF Close, Destroy
  <2>5. /\ initialized' = initialized \/ initialized' = [initialized EXCEPT ![r] = FALSE]
        /\ pc' = pc \/ pc' = [pc EXCEPT ![r] = "idle"]
    BY <1>8 DEF Close, Destroy, Goto
  <2>6. subs' \in [Ranks -> SUBSET Communicators]
    BY <1>0, <2>3
  <2>7. freed' \in [Ranks -> Seq(Communicators)]
    BY <1>0, <2>4
  <2>8. initialized' \in [Ranks -> BOOLEAN] /\ pc' \in [Ranks -> Steps]
    BY <1>0, <2>5, StepsFacts
  <2>. QED
    BY <1>0, <1>8, <2>2, <2>6, <2>7, <2>8 DEF Close, Destroy
<1>9. CASE UNCHANGED vars
  BY <1>0, <1>9 DEF vars, caller, object, history
<1>. QED
  BY <1>1, <1>2, <1>3, <1>4, <1>6, <1>7, <1>8, <1>9 DEF Next, Step, Meet, AllDone

-----------------------------------------------------------------------------
(* What holds of one rank is kept by every step.                           *)

LEMMA AppendFacts ==
    ASSUME NEW S, NEW s \in Seq(S), NEW x \in S
    PROVE  /\ Range(Append(s, x)) = Range(s) \cup {x}
           /\ IsInjective(s) /\ x \notin Range(s) => IsInjective(Append(s, x))
<1>1. /\ DOMAIN Append(s, x) = 1 .. Len(s) + 1 /\ DOMAIN s = 1 .. Len(s) /\ Len(s) \in Nat
      /\ Append(s, x)[Len(s) + 1] = x /\ \A i \in 1 .. Len(s) : Append(s, x)[i] = s[i]
  OBVIOUS
<1>2. Range(Append(s, x)) = Range(s) \cup {x}
  BY <1>1 DEF Range
<1>3. ASSUME IsInjective(s), x \notin Range(s) PROVE IsInjective(Append(s, x))
  <2>1. \A i \in 1 .. Len(s) : s[i] # x
    BY <1>1, <1>3 DEF Range
  <2>. QED
    BY <1>1, <1>3, <2>1 DEF IsInjective
<1>. QED
  BY <1>2, <1>3

\* A step that leaves a rank where and what it is.
Still(r) ==
    /\ pos'[r] = pos[r] /\ pc'[r] = pc[r] /\ turn'[r] = turn[r] /\ group'[r] = group[r]
    /\ worlds'[r] = worlds[r] /\ initialized'[r] = initialized[r]
    /\ comm'[r] = comm[r] /\ current'[r] = current[r] /\ rank'[r] = rank[r]
    /\ subs'[r] = subs[r] /\ nextSub'[r] = nextSub[r] /\ posted'[r] = posted[r]
    /\ created'[r] = created[r] /\ freed'[r] = freed[r]

LEMMA StillLocal ==
    ASSUME NEW r \in Ranks, LocalInv(r), Still(r), backend' = backend
    PROVE  LocalInv(r)'
<1>1. PlacedAt(r)'
  BY DEF LocalInv, PlacedAt, Still, This, P2P, IsMember
<1>2. HasAt(r)'
  BY DEF LocalInv, HasAt, Still, This, P2P, IsMember, GroupFor, World, RankIn
<1>3. PostedAt(r)'
  BY DEF LocalInv, PostedAt, Still, This, P2P, IsMember, GroupFor, World, RankIn, Source
<1>4. OwnedAt(r)'
  BY DEF LocalInv, OwnedAt, Still
<1>. QED
  BY <1>1, <1>2, <1>3, <1>4 DEF LocalInv

LEMMA CallLocal ==
    ASSUME TypeOK, NEW r \in Ranks, LocalInv(r), Call(r) PROVE LocalInv(r)'
<1>. DEFINE u == pos[r] + 1
            next == Script[u]
<1>1. u \in Calls /\ u # 0 /\ u > 0
  BY PlaceFacts DEF Call
<1>2. /\ next.op \in {"gather", "update"} /\ next.ranks \in Seq(Ranks)
      /\ next.op = "gather" => next.ranks = <<>>
  BY <1>1, ScriptFacts
<1>3. /\ pos'[r] = u /\ turn'[r] = 1 /\ pc[r] = "idle"
      /\ pc'[r] = IF initialized[r] THEN FirstStep(r, u) ELSE "init"
  BY DEF TypeOK, Call, Goto
<1>4. /\ group' = group /\ worlds' = worlds /\ initialized' = initialized /\ comm' = comm
      /\ current' = current /\ rank' = rank /\ subs' = subs /\ nextSub' = nextSub
      /\ posted' = posted /\ created' = created /\ freed' = freed /\ backend' = backend
  BY DEF Call, object, history
<1>5. This(r)' = next
  BY <1>3 DEF This
<1>6. posted[r] = Nothing /\ group[r] = NoGroup
  BY <1>3, KindFacts DEF LocalInv, PostedAt, HasAt, InGroup
<1>7. PlacedAt(r)'
  BY <1>1, <1>2, <1>3, <1>4, <1>5 DEF PlacedAt, P2P, IsMember, InGroup, FirstStep, TypeOK
<1>8. HasAt(r)'
  <2>1. Nothing.kind = "none" /\ "none" \notin Range(Kind)
    BY KindFacts DEF Nothing
  <2>2. pc'[r] \in InGroup => next.ranks = <<>>
    BY <1>3 DEF InGroup, FirstStep
  <2>. QED
    BY <1>3, <1>4, <1>5, <1>6, <2>1, <2>2 DEF LocalInv, HasAt, P2P, World, RankIn
<1>9. PostedAt(r)'
  BY <1>4, <1>6 DEF PostedAt
<1>10. OwnedAt(r)'
  BY <1>3, <1>4 DEF LocalInv, OwnedAt
<1>. QED
  BY <1>7, <1>8, <1>9, <1>10 DEF LocalInv

LEMMA OpenedLocal ==
    ASSUME TypeOK, NEW r \in Ranks, LocalInv(r), Opened PROVE LocalInv(r)'
<1>. DEFINE world == Comm(worlds[0] + 1, 0, Everyone)
<1>1. /\ pc[r] = "init" /\ worlds'[r] = worlds[r] + 1 /\ worlds[r] \in Nat
      /\ comm'[r] = world /\ current'[r] = world /\ created'[r] = created[r] \cup {world}
      /\ initialized'[r] = TRUE /\ rank'[r] = r /\ nextSub'[r] = 1
      /\ pc'[r] = FirstStep(r, pos[r])
  BY DEF TypeOK, Opened, NewCounters, All
<1>2. /\ pos' = pos /\ turn' = turn /\ group' = group /\ subs' = subs /\ posted' = posted
      /\ freed' = freed /\ backend' = backend
  BY DEF Opened
<1>3. InCall(r) /\ pos[r] # 0 /\ turn[r] = 1
  BY <1>1, PlaceFacts DEF LocalInv, PlacedAt
<1>4. /\ This(r).op \in {"gather", "update"} /\ This(r).ranks \in Seq(Ranks)
      /\ This(r).op = "gather" => This(r).ranks = <<>>
  BY <1>3, ScriptFacts DEF InCall, This
<1>5. posted[r] = Nothing /\ group[r] = NoGroup /\ subs[r] = {} /\ ~initialized[r]
  BY <1>1, KindFacts DEF LocalInv, PostedAt, HasAt, PlacedAt, InGroup
<1>6. world = World(r)' /\ world.world = worlds[r] + 1 /\ world.sub = 0 /\ world # NoGroup
  <2>1. worlds[r] = worlds[0]
    BY DEF Opened
  <2>. QED
    BY <1>1, <2>1, EveryoneFacts DEF World, Comm, NoGroup
<1>7. PlacedAt(r)'
  BY <1>1, <1>2, <1>3, <1>4 DEF PlacedAt, P2P, IsMember, InGroup, FirstStep, This
<1>. HIDE DEF world
<1>8. HasAt(r)'
  <2>1. Nothing.kind = "none" /\ "none" \notin Range(Kind)
    BY KindFacts DEF Nothing
  <2>2. pc'[r] \in InGroup => This(r).ranks = <<>>
    BY <1>1 DEF InGroup, FirstStep, This
  <2>. QED
    BY <1>1, <1>2, <1>5, <1>6, <2>1, <2>2 DEF HasAt, P2P, This
<1>9. PostedAt(r)'
  BY <1>2, <1>5 DEF PostedAt
<1>10. OwnedAt(r)'
  <2>1. /\ IsInjective(freed[r]) /\ Range(freed[r]) = created[r]
        /\ \A c \in created[r] : c # NoGroup /\ c.world <= worlds[r] /\ c.world \in Nat
    <3>1. created[r] \subseteq Communicators
      BY DEF TypeOK
    <3>2. Range(freed[r]) \subseteq created[r] /\ created[r] \ Range(freed[r]) = {}
      BY <1>5 DEF LocalInv, OwnedAt
    <3>. QED
      BY <3>1, <3>2 DEF LocalInv, OwnedAt, Communicators
  <2>2. world \notin created[r]
    BY <1>1, <1>6, <2>1
  <2>3. \A c \in created[r] : c.world <= worlds[r] + 1 /\ c.world # worlds[r] + 1
    BY <1>1, <2>1
  <2>. QED
    BY <1>1, <1>2, <1>5, <1>6, <2>1, <2>2, <2>3 DEF OwnedAt
<1>. QED
  BY <1>7, <1>8, <1>9, <1>10 DEF LocalInv

LEMMA PostLocal ==
    ASSUME TypeOK, NEW r \in Ranks, LocalInv(r), Post(r) PROVE LocalInv(r)'
<1>. DEFINE g == group[r]
<1>1. /\ pc[r] \in {"gather", "enter", "size", "send", "vote", "finish"} /\ posted[r] = Nothing
      /\ initialized[r]
  BY KindFacts DEF Post
<1>2. /\ pos' = pos /\ pc' = pc /\ turn' = turn /\ group' = group /\ worlds' = worlds
      /\ initialized' = initialized /\ comm' = comm /\ subs' = subs /\ nextSub' = nextSub
      /\ created' = created /\ freed' = freed /\ backend' = backend
  BY DEF Post, caller, history
<1>3. comm[r] = World(r) /\ current[r] = World(r) /\ rank[r] = r
  <2>1. Nothing.kind = "none" /\ "none" \notin Range(Kind)
    BY KindFacts DEF Nothing
  <2>. QED
    BY <1>1, <2>1 DEF LocalInv, HasAt
<1>4. current'[r] = IF g = NoGroup THEN World(r) ELSE g
  BY <1>3 DEF TypeOK, Post, UseGroup
<1>5. Kind[pc[r]] = "broadcast" <=> pc[r] = "send"
  BY <1>1, KindFacts
<1>6. rank'[r] = IF Kind[pc[r]] = "broadcast" THEN RankIn(g, r) ELSE r
  BY <1>3 DEF TypeOK, Post, UseGroup, RankIn
<1>7. posted'[r] = [comm |-> IF g = NoGroup THEN World(r) ELSE g, kind |-> Kind[pc[r]],
                    root |-> IF pc[r] = "send" THEN RankIn(g, Source(r)) ELSE 0]
  <2>1. posted' = [posted EXCEPT ![r] =
                    [comm |-> current'[r], kind |-> Kind[pc[r]],
                     root |-> IF Kind[pc[r]] = "broadcast"
                              THEN RankIn(g, IF pc[r] = "send" THEN Source(r) ELSE 0) ELSE 0]]
    BY DEF Post, UseGroup, Source
  <2>. QED
    BY <1>4, <1>5, <2>1 DEF TypeOK
<1>8. Kind[pc[r]] \in Range(Kind)
  BY <1>1, KindFacts
<1>9. PlacedAt(r)'
  BY <1>2 DEF LocalInv, PlacedAt, P2P, IsMember, This
<1>10. HasAt(r)'
  <2>1. posted'[r].kind = Kind[pc[r]]
    BY <1>7
  <2>. QED
    BY <1>2, <1>3, <1>4, <1>6, <1>8, <2>1 DEF LocalInv, HasAt, P2P, IsMember, This, GroupFor, World, RankIn
<1>11. PostedAt(r)'
  <2>1. pc[r] # "group" /\ pc[r] \in DOMAIN Kind
    BY <1>1, KindFacts
  <2>. QED
    BY <1>2, <1>7, <2>1 DEF PostedAt, World, RankIn, Source, This
<1>12. OwnedAt(r)'
  BY <1>2 DEF LocalInv, OwnedAt
<1>. QED
  BY <1>9, <1>10, <1>11, <1>12 DEF LocalInv

LEMMA NewGroupLocal ==
    ASSUME TypeOK, NEW r \in Ranks, LocalInv(r), NewGroup(r) PROVE LocalInv(r)'
<1>1. /\ pc[r] = "group" /\ posted[r] = Nothing /\ initialized[r]
      /\ This(r).op = "update" /\ P2P(r) /\ group[r] = NoGroup /\ nextSub[r] = 1
      /\ pos[r] # 0
  BY DEF NewGroup, LocalInv, PlacedAt, HasAt, InGroup
<1>2. /\ pos' = pos /\ turn' = turn /\ group' = group /\ worlds' = worlds
      /\ initialized' = initialized /\ comm' = comm /\ subs' = subs /\ nextSub' = nextSub
      /\ created' = created /\ freed' = freed /\ backend' = backend
      /\ current' = current /\ rank' = rank
  BY DEF NewGroup, object, history
<1>3. comm[r] = World(r) /\ current[r] = World(r) /\ rank[r] = r
  <2>1. Nothing.kind = "none" /\ "none" \notin Range(Kind)
    BY KindFacts DEF Nothing
  <2>. QED
    BY <1>1, <2>1 DEF LocalInv, HasAt
<1>4. \/ /\ pc'[r] = "close" /\ posted'[r] = Nothing
      \/ /\ pc'[r] = "group"
         /\ posted'[r] = [comm |-> IF backend = "hccl" THEN GroupFor(r) ELSE World(r),
                          kind |-> "group", root |-> 0]
         /\ backend = "hccl" => IsMember(r)
  <2>1. CASE backend = "hccl" /\ ~IsMember(r)
    BY <1>1, <2>1 DEF TypeOK, NewGroup, Goto
  <2>2. CASE ~(backend = "hccl" /\ ~IsMember(r))
    <3>1. Comm(comm[r].world, nextSub[r], Sorted(This(r).ranks)) = GroupFor(r)
      BY <1>1, <1>3 DEF GroupFor, World, Comm
    <3>2. /\ posted' = [posted EXCEPT ![r] =
                  [comm |-> IF backend = "hccl"
                            THEN Comm(comm[r].world, nextSub[r], Sorted(This(r).ranks))
                            ELSE current[r],
                   kind |-> "group", root |-> 0]]
          /\ pc' = pc
      BY <2>2 DEF NewGroup
    <3>. QED
      BY <1>1, <1>3, <2>2, <3>1, <3>2 DEF TypeOK
  <2>. QED
    BY <2>1, <2>2
<1>5. PlacedAt(r)'
  BY <1>1, <1>2, <1>4 DEF LocalInv, PlacedAt, P2P, IsMember, InGroup, This
<1>6. HasAt(r)'
  <2>1. /\ Nothing.kind = "none" /\ "none" \notin Range(Kind) /\ "group" \notin Range(Kind)
        /\ posted'[r].kind \in {"none", "group"}
    BY <1>4, KindFacts DEF Nothing
  <2>. QED
    BY <1>1, <1>2, <1>3, <1>4, <2>1
    DEF LocalInv, HasAt, P2P, IsMember, InGroup, This, GroupFor, World, RankIn
<1>7. PostedAt(r)'
  BY <1>2, <1>4 DEF PostedAt, World, GroupFor, This, P2P, IsMember
<1>8. OwnedAt(r)'
  BY <1>1, <1>2, <1>4 DEF LocalInv, OwnedAt
<1>. QED
  BY <1>5, <1>6, <1>7, <1>8 DEF LocalInv

\* The group that is made for the ranks of a communicator: theirs.
LEMMA MadeFacts ==
    ASSUME GroupsInv, NEW c \in Waiting, Met(c, "group"), NEW r \in Range(c.ranks)
    PROVE  LET made == IF backend = "hccl" THEN c
                       ELSE Comm(c.world, nextSub[c.ranks[1]], Sorted(This(c.ranks[1]).ranks))
           IN  /\ made = GroupFor(r) /\ pc[r] = "group" /\ InCall(r) /\ P2P(r)
               /\ r \in Ranks
               /\ Range(made.ranks) = Range(This(r).ranks) /\ Range(made.ranks) \subseteq Range(c.ranks)
<1>. DEFINE made == IF backend = "hccl" THEN c
                    ELSE Comm(c.world, nextSub[c.ranks[1]], Sorted(This(c.ranks[1]).ranks))
<1>0. TypeOK /\ Lockstep /\ \A q \in Ranks : LocalInv(q)
  BY InvParts
<1>1. Range(c.ranks) \subseteq Ranks /\ c.ranks \in Seq(Ranks)
  BY MetFacts DEF Communicators
<1>2. ASSUME NEW q \in Range(c.ranks)
      PROVE  /\ posted[q] # Nothing /\ posted[q].comm = c /\ InCall(q)
             /\ pc[q] = "group" /\ P2P(q) /\ nextSub[q] = 1 /\ initialized[q]
             /\ c = IF backend = "hccl" THEN GroupFor(q) ELSE World(q)
  <2>1. q \in Ranks /\ posted[q] # Nothing /\ posted[q].comm = c /\ posted[q].kind = "group"
    BY <1>1, MetFacts
  <2>2. InCall(q) /\ initialized[q]
    BY <1>0, <2>1, PostedFacts
  <2>3. pc[q] = "group"
    <3>1. LocalInv(q)
      BY <1>0, <2>1
    <3>2. pc[q] # "group" => pc[q] \in DOMAIN Kind /\ posted[q].kind = Kind[pc[q]]
      BY <2>1, <3>1 DEF LocalInv, PostedAt
    <3>. QED
      BY <2>1, <3>2, KindFacts
  <2>4. P2P(q) /\ nextSub[q] = 1
    BY <1>0, <2>1, <2>2, <2>3 DEF LocalInv, PlacedAt, HasAt
  <2>5. c = IF backend = "hccl" THEN GroupFor(q) ELSE World(q)
    <3>1. LocalInv(q)
      BY <1>0, <2>1
    <3>2. posted[q].comm = IF backend = "hccl" THEN GroupFor(q) ELSE World(q)
      BY <2>1, <2>3, <3>1 DEF LocalInv, PostedAt
    <3>. QED
      BY <2>1, <3>2
  <2>. QED
    BY <2>1, <2>2, <2>3, <2>4, <2>5
<1>3. made = GroupFor(r)
  <2>1. CASE backend = "hccl"
    BY <1>2, <2>1
  <2>2. CASE backend # "hccl"
    <3>1. c.ranks[1] \in Range(c.ranks)
      BY <1>1 DEF Range
    <3>2. nextSub[c.ranks[1]] = 1 /\ This(c.ranks[1]) = This(r)
      BY <1>2, <3>1, MetFacts DEF This
    <3>3. c.world = worlds[r]
      BY <1>0, <1>1, <1>2, <2>2, CommFacts
    <3>. QED
      BY <2>2, <3>2, <3>3 DEF GroupFor
  <2>. QED
    BY <2>1, <2>2
<1>4. Range(made.ranks) = Range(This(r).ranks) /\ Range(made.ranks) \subseteq Ranks
  BY <1>0, <1>1, <1>2, <1>3, CommFacts
<1>5. Range(made.ranks) \subseteq Range(c.ranks)
  <2>1. CASE backend = "hccl"
    BY <2>1
  <2>2. CASE backend # "hccl"
    <3>1. c.ranks = Everyone
      BY <1>0, <1>1, <1>2, <2>2, CommFacts
    <3>. QED
      BY <1>4, <3>1, EveryoneFacts
  <2>. QED
    BY <2>1, <2>2
<1>. QED
  BY <1>1, <1>2, <1>3, <1>4, <1>5

LEMMA GroupMadeMoves ==
    ASSUME GroupsInv, NEW c \in Waiting, GroupMade(c), NEW r \in Ranks
    PROVE  /\ r \notin Range(c.ranks) => Still(r)
           /\ r \in Range(c.ranks) =>
                 /\ pc[r] = "group" /\ posted'[r] = Nothing
                 /\ IF IsMember(r)
                    THEN /\ pc'[r] = "enter" /\ group'[r] = GroupFor(r)
                         /\ subs'[r] = subs[r] \cup {GroupFor(r)}
                         /\ created'[r] = created[r] \cup {GroupFor(r)}
                    ELSE /\ pc'[r] = "close" /\ group'[r] = NoGroup
                         /\ subs'[r] = subs[r] /\ created'[r] = created[r]
<1>. DEFINE made == IF backend = "hccl" THEN c
                    ELSE Comm(c.world, nextSub[c.ranks[1]], Sorted(This(c.ranks[1]).ranks))
            has(q) == q \in Range(made.ranks)
<1>0. TypeOK /\ Met(c, "group")
  BY InvParts DEF GroupMade
<1>1. \A q \in Range(c.ranks) :
         /\ made = GroupFor(q) /\ pc[q] = "group" /\ P2P(q) /\ Range(made.ranks) = Range(This(q).ranks)
         /\ Range(made.ranks) \subseteq Range(c.ranks)
  BY <1>0, MadeFacts
<1>2. PICK r0 \in Ranks : posted[r0].comm = c /\ c # NoGroup
  BY DEF Waiting
<1>3. r0 \in Range(c.ranks)
  <2>1. posted[r0] # Nothing
    BY <1>2 DEF Nothing
  <2>. QED
    BY <1>0, <1>2, <2>1, PostedFacts, InvParts
<1>4. Range(made.ranks) \subseteq Range(c.ranks)
  BY <1>1, <1>3
<1>. HIDE DEF made
<1>5. /\ posted' = Of(c, posted, All(Nothing))
      /\ group' = Of(c, group, [q \in Ranks |-> IF has(q) THEN made ELSE NoGroup])
      /\ subs' = [q \in Ranks |-> IF has(q) THEN subs[q] \cup {made} ELSE subs[q]]
      /\ created' = [q \in Ranks |-> IF has(q) THEN created[q] \cup {made} ELSE created[q]]
      /\ nextSub' = Of(c, nextSub, [q \in Ranks |-> nextSub[q] + 1])
      /\ pc' = Of(c, pc, [q \in Ranks |-> IF has(q) THEN "enter" ELSE "close"])
      /\ UNCHANGED <<backend, pos, turn, worlds, initialized, comm, current, rank, got, freed>>
  BY DEF GroupMade, made
<1>6. ASSUME r \notin Range(c.ranks) PROVE Still(r)
  BY <1>0, <1>4, <1>5, <1>6 DEF Still, Of, TypeOK
<1>7. ASSUME r \in Range(c.ranks)
      PROVE  /\ posted'[r] = Nothing
             /\ IF has(r)
                THEN /\ pc'[r] = "enter" /\ group'[r] = made
                     /\ subs'[r] = subs[r] \cup {made} /\ created'[r] = created[r] \cup {made}
                ELSE /\ pc'[r] = "close" /\ group'[r] = NoGroup
                     /\ subs'[r] = subs[r] /\ created'[r] = created[r]
  BY <1>5, <1>7 DEF Of, All
<1>8. r \in Range(c.ranks) => (has(r) <=> IsMember(r))
  BY <1>1 DEF IsMember
<1>. QED
  BY <1>1, <1>6, <1>7, <1>8

LEMMA GroupMadeLocal ==
    ASSUME GroupsInv, NEW c \in Waiting, GroupMade(c), NEW r \in Ranks PROVE LocalInv(r)'
<1>0. TypeOK /\ LocalInv(r) /\ backend' = backend
  BY InvParts DEF GroupMade
<1>1. CASE r \notin Range(c.ranks)
  BY <1>0, <1>1, GroupMadeMoves, StillLocal
<1>2. CASE r \in Range(c.ranks)
  <2>1. /\ pc[r] = "group" /\ posted'[r] = Nothing
        /\ IF IsMember(r)
           THEN /\ pc'[r] = "enter" /\ group'[r] = GroupFor(r)
                /\ subs'[r] = subs[r] \cup {GroupFor(r)}
                /\ created'[r] = created[r] \cup {GroupFor(r)}
           ELSE /\ pc'[r] = "close" /\ group'[r] = NoGroup
                /\ subs'[r] = subs[r] /\ created'[r] = created[r]
    BY <1>2, GroupMadeMoves
  <2>2. /\ pos' = pos /\ turn' = turn /\ worlds' = worlds /\ initialized' = initialized
        /\ comm' = comm /\ current' = current /\ rank' = rank /\ freed' = freed
    BY DEF GroupMade
  <2>3. /\ This(r).op = "update" /\ P2P(r) /\ group[r] = NoGroup /\ subs[r] = {} /\ turn[r] = 1
        /\ initialized[r] /\ pos[r] # 0 /\ InCall(r)
    BY <1>0, <2>1, PlaceFacts DEF LocalInv, PlacedAt, HasAt, InGroup
  <2>4. /\ This(r)' = This(r) /\ GroupFor(r)' = GroupFor(r) /\ World(r)' = World(r)
        /\ P2P(r)' = P2P(r) /\ IsMember(r)' = IsMember(r)
    BY <2>2 DEF This, GroupFor, World, P2P, IsMember
  <2>5. GroupFor(r) # NoGroup /\ GroupFor(r).sub = 1 /\ GroupFor(r).world = worlds[r]
    BY <1>0, <2>3, CommFacts
  <2>6. PlacedAt(r)'
    BY <1>0, <2>1, <2>2, <2>3, <2>4 DEF PlacedAt, InGroup
  <2>7. HasAt(r)'
    <3>1. /\ Nothing.kind = "none" /\ "none" \notin Range(Kind)
      BY KindFacts DEF Nothing
    <3>2. comm[r] = World(r) /\ current[r] = World(r) /\ rank[r] = r
      <4>1. posted[r].kind \notin Range(Kind) /\ posted[r].kind # "broadcast"
        BY <1>0, <2>1, <3>1, KindFacts DEF LocalInv, PostedAt
      <4>. QED
        BY <1>0, <2>3, <4>1 DEF LocalInv, HasAt
    <3>. QED
      BY <2>1, <2>2, <2>3, <2>4, <2>5, <3>1, <3>2 DEF HasAt, InGroup
  <2>8. PostedAt(r)'
    BY <2>1 DEF PostedAt
  <2>9. OwnedAt(r)'
    <3>1. /\ IsInjective(freed[r]) /\ Range(freed[r]) \subseteq created[r]
          /\ created[r] \ Range(freed[r]) = {comm[r]}
          /\ \A x \in created[r] :
                x # NoGroup /\ x.world <= worlds[r] /\ (x.world = worlds[r] => x.sub = 0)
      BY <1>0, <2>1, <2>3 DEF LocalInv, OwnedAt
    <3>2. GroupFor(r) \notin created[r]
      BY <2>5, <3>1
    <3>3. worlds[r] <= worlds[r]
      BY <1>0 DEF TypeOK
    <3>4. CASE IsMember(r)
      <4>1. /\ created'[r] = created[r] \cup {GroupFor(r)} /\ pc'[r] = "enter"
            /\ subs'[r] = {GroupFor(r)}
        BY <2>1, <2>3, <3>4
      <4>2. created'[r] \ Range(freed[r]) = {comm[r]} \cup {GroupFor(r)}
        BY <3>1, <3>2, <4>1
      <4>. QED
        BY <2>2, <2>3, <2>5, <3>1, <3>3, <4>1, <4>2 DEF OwnedAt
    <3>5. CASE ~IsMember(r)
      BY <2>1, <2>2, <2>3, <3>1, <3>5 DEF OwnedAt
    <3>. QED
      BY <3>4, <3>5
  <2>. QED
    BY <2>6, <2>7, <2>8, <2>9 DEF LocalInv
<1>. QED
  BY <1>1, <1>2

LEMMA CompleteMoves ==
    ASSUME GroupsInv, NEW c \in Waiting, NEW kind \in Range(Kind), Complete(c, kind), NEW r \in Ranks
    PROVE  /\ r \notin Range(c.ranks) => Still(r)
           /\ r \in Range(c.ranks) =>
                 /\ posted[r].kind = kind /\ pc[r] \in DOMAIN Kind
                 /\ posted'[r] = Nothing /\ current'[r] = comm[r] /\ rank'[r] = r
                 /\ turn'[r] = IF pc[r] = "vote" THEN turn[r] + 1 ELSE turn[r]
                 /\ pc'[r] = NextStep(r) \/ (pc[r] = "vote" /\ pc'[r] = "finish")
<1>0. TypeOK /\ Met(c, kind) /\ Range(c.ranks) \subseteq Ranks
  BY InvParts, MetFacts DEF Complete
<1>1. /\ posted' = Of(c, posted, All(Nothing))
      /\ current' = Of(c, current, comm) /\ rank' = Of(c, rank, [q \in Ranks |-> q])
      /\ turn' = [q \in Ranks |-> IF q \in Range(c.ranks) /\ pc[q] = "vote" THEN turn[q] + 1 ELSE turn[q]]
      /\ UNCHANGED <<backend, pos, group, worlds, initialized, comm, subs, nextSub, history>>
  BY DEF Complete, LeaveGroup
<1>2. \/ pc' = Of(c, pc, [q \in Ranks |-> NextStep(q)])
      \/ pc' = Of(c, pc, All("finish")) /\ \A q \in Range(c.ranks) : pc[q] = "vote"
  BY DEF Complete
<1>3. \/ pc'[r] = IF r \in Range(c.ranks) THEN NextStep(r) ELSE pc[r]
      \/ /\ pc'[r] = IF r \in Range(c.ranks) THEN "finish" ELSE pc[r]
         /\ r \in Range(c.ranks) => pc[r] = "vote"
  BY <1>2 DEF Of, All
<1>4. ASSUME r \notin Range(c.ranks) PROVE Still(r)
  BY <1>0, <1>1, <1>3, <1>4 DEF Still, Of, TypeOK, history
<1>5. ASSUME r \in Range(c.ranks)
      PROVE  posted[r].kind = kind /\ pc[r] \in DOMAIN Kind
  <2>1. posted[r] # Nothing /\ posted[r].kind = kind /\ kind # "group"
    BY <1>0, <1>5, MetFacts, KindFacts
  <2>2. LocalInv(r)
    BY InvParts
  <2>3. pc[r] = "group" => posted[r].kind = "group"
    BY <2>1, <2>2 DEF LocalInv, PostedAt
  <2>. QED
    BY <2>1, <2>2, <2>3 DEF LocalInv, PostedAt
<1>. QED
  BY <1>0, <1>1, <1>3, <1>4, <1>5 DEF Of, All

LEMMA CompleteLocal ==
    ASSUME GroupsInv, NEW c \in Waiting, NEW kind \in Range(Kind), Complete(c, kind), NEW r \in Ranks
    PROVE  LocalInv(r)'
<1>0. TypeOK /\ LocalInv(r) /\ backend' = backend
  BY InvParts DEF Complete
<1>1. CASE r \notin Range(c.ranks)
  BY <1>0, <1>1, CompleteMoves, StillLocal
<1>2. CASE r \in Range(c.ranks)
  <2>1. /\ pc[r] \in {"gather", "enter", "size", "send", "vote", "finish"}
        /\ posted'[r] = Nothing /\ current'[r] = comm[r] /\ rank'[r] = r
        /\ turn'[r] = IF pc[r] = "vote" THEN turn[r] + 1 ELSE turn[r]
        /\ pc'[r] = NextStep(r) \/ (pc[r] = "vote" /\ pc'[r] = "finish")
    BY <1>2, CompleteMoves, KindFacts
  <2>2. /\ pos' = pos /\ group' = group /\ worlds' = worlds /\ initialized' = initialized
        /\ comm' = comm /\ subs' = subs /\ nextSub' = nextSub /\ created' = created /\ freed' = freed
    BY DEF Complete, history
  <2>3. initialized[r] /\ pos[r] # 0 /\ InCall(r)
    BY <1>0, <2>1, PlaceFacts DEF LocalInv, PlacedAt
  <2>4. /\ This(r)' = This(r) /\ GroupFor(r)' = GroupFor(r) /\ World(r)' = World(r)
        /\ P2P(r)' = P2P(r) /\ IsMember(r)' = IsMember(r)
    BY <2>2 DEF This, GroupFor, World, P2P, IsMember
  <2>5. /\ This(r).sources \in Seq(Ranks) /\ Len(This(r).sources) \in Nat
        /\ This(r).op = "gather" => ~P2P(r)
    BY <2>3, ScriptFacts DEF InCall, This, P2P
  <2>6. /\ pc[r] = "gather" => pc'[r] = "idle"
        /\ pc[r] = "enter" => pc'[r] = "size"
        /\ pc[r] = "size" => pc'[r] = IF This(r).sources = <<>> THEN "finish" ELSE "send"
        /\ pc[r] = "send" => pc'[r] = "vote"
        /\ pc[r] = "vote" => pc'[r] = "finish" \/ (pc'[r] = "send" /\ turn[r] < Len(This(r).sources))
        /\ pc[r] = "finish" => pc'[r] = "close"
    BY <2>1 DEF NextStep
  <2>7. PlacedAt(r)'
    <3>1. pc'[r] \in {"send", "vote"} => turn'[r] \in DOMAIN This(r).sources
      <4>1. CASE pc[r] = "vote" /\ pc'[r] = "send"
        BY <1>0, <2>1, <2>5, <2>6, <4>1 DEF TypeOK
      <4>2. CASE pc[r] = "size" /\ pc'[r] = "send"
        BY <1>0, <2>1, <2>5, <2>6, <4>2 DEF LocalInv, PlacedAt
      <4>3. CASE pc[r] = "send"
        BY <1>0, <2>1, <4>3 DEF LocalInv, PlacedAt
      <4>. QED
        BY <2>1, <2>6, <4>1, <4>2, <4>3
    <3>2. /\ pc'[r] \in {"init", "gather", "group", "enter", "size"} => turn'[r] = 1
          /\ pc'[r] \in InGroup => IsMember(r)
          /\ pc'[r] \in InGroup \cup {"group", "close"} => This(r).op = "update"
          /\ pc'[r] = "idle" => This(r).op = "gather"
          /\ pc'[r] \notin {"init", "gather", "group", "enter"}
      BY <1>0, <2>1, <2>6 DEF LocalInv, PlacedAt, InGroup
    <3>3. initialized[r] <=> pc'[r] \notin {"idle", "init"}
                             \/ (pos[r] > 0 /\ pc'[r] = "idle" /\ This(r).op = "gather")
      BY <1>0, <2>3, <3>2, PlaceFacts
    <3>. QED
      BY <2>2, <2>3, <2>4, <3>1, <3>2, <3>3 DEF PlacedAt
  <2>8. HasAt(r)'
    <3>1. Nothing.kind = "none" /\ "none" \notin Range(Kind)
      BY KindFacts DEF Nothing
    <3>2. /\ pc'[r] \in InGroup \cup {"close"} \/ (pc'[r] = "idle" /\ pc[r] = "gather")
          /\ pc[r] # "gather" => pc[r] \in InGroup
          /\ pc'[r] \in InGroup => pc[r] \in InGroup
      BY <2>1, <2>6 DEF InGroup
    <3>3. group[r] = NoGroup \/ (group[r] = GroupFor(r) /\ P2P(r) /\ IsMember(r) /\ pc'[r] \in InGroup \cup {"close"})
      BY <1>0, <2>5, <3>2 DEF LocalInv, HasAt, PlacedAt
    <3>4. pc'[r] \in {"idle", "gather", "group"} => nextSub[r] = 1
      BY <1>0, <2>3, <3>2 DEF LocalInv, HasAt, InGroup
    <3>5. comm[r] = World(r) /\ subs[r] = {group[r]} \ {NoGroup}
      BY <1>0, <2>3 DEF LocalInv, HasAt
    <3>6. pc'[r] \in InGroup /\ P2P(r) => group[r] = GroupFor(r)
      BY <1>0, <3>2 DEF LocalInv, HasAt
    <3>. QED
      BY <2>1, <2>2, <2>4, <3>1, <3>3, <3>4, <3>5, <3>6 DEF HasAt
  <2>9. PostedAt(r)'
    BY <2>1 DEF PostedAt
  <2>10. OwnedAt(r)'
    <3>1. pc'[r] \in {"idle", "gather", "group"} => pc[r] = "gather"
      BY <2>1, <2>6
    <3>. QED
      BY <1>0, <2>2, <3>1 DEF LocalInv, OwnedAt
  <2>. QED
    BY <2>7, <2>8, <2>9, <2>10 DEF LocalInv
<1>. QED
  BY <1>1, <1>2

LEMMA CloseLocal ==
    ASSUME TypeOK, NEW r \in Ranks, LocalInv(r), Close(r) PROVE LocalInv(r)'
<1>. DEFINE g == group[r]
<1>1. /\ pc[r] = "close" /\ initialized[r] /\ pos[r] # 0 /\ InCall(r)
      /\ This(r).op = "update" /\ posted[r] = Nothing
  BY KindFacts, PlaceFacts DEF Close, Destroy, LocalInv, PlacedAt, PostedAt
<1>2. /\ pos' = pos /\ turn' = turn /\ worlds' = worlds /\ comm' = comm /\ current' = current
      /\ rank' = rank /\ nextSub' = nextSub /\ posted' = posted /\ created' = created
      /\ group'[r] = NoGroup
  BY DEF TypeOK, Close, Destroy
<1>3. /\ This(r)' = This(r) /\ GroupFor(r)' = GroupFor(r) /\ World(r)' = World(r)
      /\ P2P(r)' = P2P(r) /\ IsMember(r)' = IsMember(r)
  BY <1>2 DEF This, GroupFor, World, P2P, IsMember
<1>4. Nothing.kind = "none" /\ "none" \notin Range(Kind)
  BY KindFacts DEF Nothing
<1>5. /\ comm[r] = World(r) /\ current[r] = World(r) /\ rank[r] = r
      /\ subs[r] = {g} \ {NoGroup} /\ (g = NoGroup \/ g = GroupFor(r))
  BY <1>1, <1>4 DEF LocalInv, HasAt
<1>6. /\ freed[r] \in Seq(Communicators) /\ g \in Communicators /\ comm[r] \in Communicators
      /\ IsInjective(freed[r]) /\ Range(freed[r]) \subseteq created[r]
      /\ created[r] \ Range(freed[r]) = {comm[r]} \cup subs[r]
      /\ \A c \in created[r] : c # NoGroup /\ c.world <= worlds[r]
  BY <1>1 DEF LocalInv, OwnedAt, TypeOK
<1>7. CASE g \in subs[r]
  <2>1. /\ freed'[r] = Append(freed[r], g) /\ subs'[r] = subs[r] \ {g}
        /\ initialized' = initialized /\ pc' = pc
    BY <1>7 DEF TypeOK, Close, Destroy
  <2>2. g = GroupFor(r) /\ g # NoGroup /\ g # comm[r] /\ subs'[r] = {}
    BY <1>1, <1>5, <1>7, <2>1, CommFacts
  <2>3. PlacedAt(r)'
    BY <1>1, <1>2, <1>3, <2>1 DEF LocalInv, PlacedAt
  <2>4. HasAt(r)'
    BY <1>1, <1>2, <1>3, <1>4, <1>5, <2>1, <2>2 DEF HasAt, InGroup
  <2>5. PostedAt(r)'
    BY <1>1, <1>2 DEF PostedAt
  <2>6. OwnedAt(r)'
    <3>1. g \in created[r] /\ g \notin Range(freed[r])
      BY <1>6, <1>7
    <3>2. IsInjective(freed'[r]) /\ Range(freed'[r]) = Range(freed[r]) \cup {g}
      BY <1>6, <2>1, <3>1, AppendFacts
    <3>3. created[r] \ Range(freed'[r]) = {comm[r]}
      BY <1>5, <1>6, <2>2, <3>2
    <3>. QED
      BY <1>1, <1>2, <1>6, <2>1, <2>2, <3>1, <3>2, <3>3 DEF OwnedAt
  <2>. QED
    BY <2>3, <2>4, <2>5, <2>6 DEF LocalInv
<1>8. CASE g \notin subs[r]
  <2>1. /\ freed'[r] = Append(freed[r], current[r]) /\ subs' = subs
        /\ initialized'[r] = FALSE /\ pc'[r] = "idle"
    BY <1>8 DEF TypeOK, Close, Destroy, Goto
  <2>2. g = NoGroup /\ subs[r] = {}
    BY <1>5, <1>8
  <2>3. PlacedAt(r)'
    BY <1>1, <1>2, <1>3, <2>1 DEF PlacedAt, InGroup
  <2>4. HasAt(r)'
    BY <1>2, <1>3, <2>1, <2>2 DEF HasAt, InGroup
  <2>5. PostedAt(r)'
    BY <1>1, <1>2 DEF PostedAt
  <2>6. OwnedAt(r)'
    <3>1. comm[r] \in created[r] /\ comm[r] \notin Range(freed[r]) /\ current[r] = comm[r]
      BY <1>5, <1>6
    <3>2. IsInjective(freed'[r]) /\ Range(freed'[r]) = Range(freed[r]) \cup {comm[r]}
      BY <1>6, <2>1, <3>1, AppendFacts
    <3>3. created[r] \ Range(freed'[r]) = {}
      BY <1>6, <2>2, <3>2
    <3>. QED
      BY <1>2, <1>6, <2>1, <3>1, <3>2, <3>3 DEF OwnedAt
  <2>. QED
    BY <2>3, <2>4, <2>5, <2>6 DEF LocalInv
<1>. QED
  BY <1>7, <1>8

-----------------------------------------------------------------------------
(* How far apart two ranks are is kept by every step.                      *)

Apart(q, r) ==
    /\ worlds[q] = worlds[r]
    /\ pos[q] = pos[r] /\ pos[q] > 0 => Joint(q, r)
    /\ pos[q] < pos[r] => Behind(q, r)

\* Two ranks that stay where they are stay as far apart.
LEMMA StayApart ==
    ASSUME NEW q \in Ranks, NEW r \in Ranks, Apart(q, r), backend' = backend,
           pos'[q] = pos[q], pos'[r] = pos[r], worlds'[q] = worlds[q], worlds'[r] = worlds[r],
           pc'[q] = pc[q], pc'[r] = pc[r], turn'[q] = turn[q], turn'[r] = turn[r]
    PROVE  Apart(q, r)'
<1>1. Joint(q, r)' <=> Joint(q, r)
  BY DEF Joint, SamePlace, Over, IsMember, P2P, This
<1>2. Behind(q, r)' <=> Behind(q, r)
  BY DEF Behind, FarApart, MemberOf, Over, FirstStep, This
<1>. QED
  BY <1>1, <1>2 DEF Apart

\* A step of one rank keeps all ranks together if it keeps the others with that one.
LEMMA LockstepOfOne ==
    ASSUME TypeOK', Lockstep, NEW r \in Ranks, backend' = backend,
           \A q \in Ranks \ {r} :
              /\ pos'[q] = pos[q] /\ worlds'[q] = worlds[q]
              /\ pc'[q] = pc[q] /\ turn'[q] = turn[q],
           \A q \in Ranks \ {r} : Apart(q, r)' /\ Apart(r, q)'
    PROVE  Lockstep'
<1>1. ASSUME NEW p \in Ranks, NEW q \in Ranks PROVE Apart(p, q)'
  <2>1. CASE p # r /\ q # r
    <3>1. Apart(p, q)
      BY DEF Lockstep, Apart
    <3>. QED
      BY <2>1, <3>1, StayApart
  <2>2. CASE p = r /\ q = r
    <3>1. ~(pos'[r] < pos'[r])
      BY DEF TypeOK
    <3>2. Joint(r, r)'
      BY DEF Joint, SamePlace
    <3>. QED
      BY <2>2, <3>1, <3>2 DEF Apart
  <2>. QED
    BY <2>1, <2>2
<1>. QED
  BY <1>1 DEF Lockstep, Apart

LEMMA CallLockstep ==
    ASSUME GroupsInv, TypeOK', NEW r \in Ranks, Call(r) PROVE Lockstep'
<1>0. TypeOK /\ Lockstep /\ \A q \in Ranks : LocalInv(q)
  BY InvParts
<1>1. /\ pc[r] = "idle" /\ pos'[r] = pos[r] + 1 /\ turn'[r] = 1 /\ pos[r] \in Nat
      /\ pc'[r] = IF initialized[r] THEN FirstStep(r, pos[r] + 1) ELSE "init"
      /\ pos[r] + 1 \in Calls
  BY <1>0, PlaceFacts DEF TypeOK, Call, Goto
<1>2. /\ worlds' = worlds /\ backend' = backend
      /\ \A q \in Ranks \ {r} : /\ pos'[q] = pos[q] /\ worlds'[q] = worlds[q]
                                /\ pc'[q] = pc[q] /\ turn'[q] = turn[q]
  BY <1>0 DEF TypeOK, Call, Goto, history, object
<1>3. initialized[r] <=> pos[r] > 0 /\ This(r).op = "gather"
  BY <1>0, <1>1 DEF LocalInv, PlacedAt
<1>4. /\ Script[pos[r] + 1].op \in {"gather", "update"}
      /\ Script[pos[r] + 1].op = "gather" => Script[pos[r] + 1].ranks = <<>>
      /\ FirstStep(r, pos[r] + 1) \in {"gather", "size", "group"}
  BY <1>1, ScriptFacts DEF FirstStep
<1>5. pos[r] > 0 => /\ This(r).op \in {"gather", "update"}
                    /\ This(r).op = "gather" => This(r).ranks = <<>>
  BY <1>0, PlaceFacts, ScriptFacts DEF InCall, This
<1>6. ASSUME NEW q \in Ranks \ {r} PROVE Apart(q, r)' /\ Apart(r, q)'
  <2>1. /\ Apart(q, r) /\ Apart(r, q) /\ LocalInv(q) /\ pos[q] \in Nat
        /\ worlds'[q] = worlds'[r]
    BY <1>0, <1>2, PlaceFacts DEF Lockstep, Apart
  <2>2. /\ pos'[q] = pos[q] /\ pc'[q] = pc[q] /\ turn'[q] = turn[q]
    BY <1>2
  <2>3. CASE pos[q] < pos[r]
    <3>1. Behind(q, r)
      BY <2>1, <2>3 DEF Apart
    <3>2. /\ pos[q] > 0 /\ This(q).op = "gather" /\ pc[q] = "idle"
          /\ pos[r] = pos[q] + 1 /\ FarApart(q, r)
      BY <1>1, <2>1, <3>1 DEF Behind, FirstStep
    <3>3. This(r).op = "update"
      <4>1. This(r).op # "gather"
        BY <1>5, <2>1, <3>2 DEF FarApart, MemberOf, This
      <4>. QED
        BY <1>5, <2>1, <3>2, <4>1
    <3>4. pc'[r] = "init" /\ pos'[r] = pos[q] + 2
      BY <1>1, <1>3, <2>1, <3>2, <3>3
    <3>5. Behind(q, r)'
      BY <1>2, <2>2, <3>2, <3>3, <3>4 DEF Behind, FarApart, MemberOf, This
    <3>. QED
      BY <2>1, <2>2, <3>4, <3>5 DEF Apart
  <2>4. CASE pos[q] = pos[r]
    <3>1. pos'[r] = pos'[q] + 1 /\ ~(pos'[r] < pos'[q]) /\ pos'[r] # pos'[q]
      BY <1>1, <2>1, <2>2, <2>4
    <3>2. CASE pos[r] = 0
      <4>1. Behind(q, r)'
        BY <1>1, <1>3, <2>2, <2>4, <3>2 DEF Behind
      <4>. QED
        BY <2>1, <3>1, <4>1 DEF Apart
    <3>3. CASE pos[r] > 0
      <4>1. Joint(q, r) /\ This(q) = This(r)
        BY <2>1, <2>4, <3>3 DEF Apart, This
      <4>2. CASE This(r).op = "gather"
        <5>1. IsMember(q) /\ IsMember(r) /\ ~Over(q) /\ ~Over(r)
          BY <1>5, <3>3, <4>1, <4>2 DEF IsMember, P2P, Over
        <5>2. pc[q] = "idle"
          BY <1>1, <4>1, <5>1 DEF Joint, SamePlace
        <5>3. pc'[r] = FirstStep(r, pos'[r])
          BY <1>1, <1>3, <3>3, <4>2
        <5>4. Behind(q, r)'
          BY <1>1, <2>2, <2>4, <3>1, <3>3, <4>1, <4>2, <5>2, <5>3 DEF Behind, FirstStep, This
        <5>. QED
          BY <2>1, <3>1, <5>4 DEF Apart
      <4>3. CASE This(r).op = "update"
        <5>1. pc'[r] = "init"
          BY <1>1, <1>3, <4>3
        <5>2. pc[q] # "init" /\ (backend # "hccl" => pc[q] # "group")
          BY <1>1, <4>1 DEF Joint
        <5>3. MemberOf(q, pos[q]) /\ MemberOf(r, pos[q]) => Over(q)
          BY <1>1, <2>4, <4>1, <4>3 DEF Joint, SamePlace, IsMember, P2P, MemberOf, Over, This
        <5>4. Behind(q, r)'
          BY <1>2, <2>2, <2>4, <3>1, <3>3, <4>1, <4>3, <5>1, <5>2, <5>3 DEF Behind, MemberOf, Over, This
        <5>. QED
          BY <2>1, <3>1, <5>4 DEF Apart
      <4>. QED
        BY <1>5, <3>3, <4>2, <4>3
    <3>. QED
      BY <1>1, <3>2, <3>3
  <2>5. CASE pos[q] > pos[r]
    <3>1. Behind(r, q)
      BY <2>1, <2>5 DEF Apart
    <3>2. CASE pos[q] = pos[r] + 1
      <4>1. pos'[q] = pos'[r] /\ ~(pos'[r] < pos'[q]) /\ ~(pos'[q] < pos'[r]) /\ This(r)' = This(q)'
            /\ This(q)' = This(q)
        BY <1>1, <2>1, <2>2, <3>2 DEF This
      <4>2. CASE pc[q] = "init"
        <5>1. pc'[r] = "init"
          BY <1>1, <1>3, <3>1, <3>2, <4>2, <1>4, <2>1 DEF Behind, FirstStep
        <5>2. turn[q] = 1
          BY <2>1, <4>2 DEF LocalInv, PlacedAt
        <5>3. Joint(q, r)' /\ Joint(r, q)'
          BY <1>1, <2>2, <4>2, <5>1, <5>2 DEF Joint, SamePlace
        <5>. QED
          BY <2>1, <4>1, <5>3 DEF Apart
      <4>3. CASE pc[q] # "init"
        <5>1. /\ pos[r] > 0 /\ This(r).op = "gather"
              /\ \/ pc[q] = FirstStep(q, pos[q]) /\ turn[q] = 1
                 \/ FarApart(r, q)
          BY <3>1, <3>2, <4>3 DEF Behind
        <5>2. pc'[r] = FirstStep(q, pos[q]) /\ pc'[r] # "init"
          BY <1>1, <1>3, <1>4, <3>2, <5>1 DEF FirstStep
        <5>3. CASE pc[q] = FirstStep(q, pos[q]) /\ turn[q] = 1
          <6>1. Joint(q, r)' /\ Joint(r, q)'
            BY <1>1, <2>2, <5>2, <5>3 DEF Joint, SamePlace
          <6>. QED
            BY <2>1, <4>1, <6>1 DEF Apart
        <5>4. CASE FarApart(r, q)
          <6>1. backend' = "hccl" /\ ~(IsMember(q)' /\ IsMember(r)')
            BY <1>1, <1>2, <2>2, <3>2, <4>1, <5>4 DEF FarApart, MemberOf, IsMember, P2P, This
          <6>2. Joint(q, r)' /\ Joint(r, q)'
            BY <2>2, <4>3, <5>2, <6>1 DEF Joint
          <6>. QED
            BY <2>1, <4>1, <6>2 DEF Apart
        <5>. QED
          BY <5>1, <5>3, <5>4
      <4>. QED
        BY <4>2, <4>3
    <3>3. CASE pos[q] # pos[r] + 1
      <4>1. /\ pos[r] > 0 /\ This(r).op = "gather" /\ pos[q] = pos[r] + 2 /\ pc[q] = "init"
            /\ FarApart(r, q) /\ Script[pos[r] + 1].op = "update"
        BY <1>1, <2>1, <2>5, <3>1, <3>3 DEF Behind
      <4>2. pc'[r] \in {"gather", "size", "group"}
        BY <1>1, <1>3, <1>4, <4>1
      <4>3. Behind(r, q)'
        BY <1>1, <1>2, <2>2, <4>1, <4>2 DEF Behind, FarApart, MemberOf, This
      <4>4. pos'[r] < pos'[q] /\ ~(pos'[q] < pos'[r]) /\ pos'[q] # pos'[r]
        BY <1>1, <2>1, <2>2, <4>1
      <4>. QED
        BY <2>1, <4>3, <4>4 DEF Apart
    <3>. QED
      BY <3>2, <3>3
  <2>. QED
    BY <1>1, <2>1, <2>3, <2>4, <2>5
<1>. QED
  BY <1>0, <1>2, <1>6, LockstepOfOne

LEMMA OpenedLockstep ==
    ASSUME GroupsInv, Opened PROVE Lockstep'
<1>0. TypeOK /\ Lockstep /\ \A r \in Ranks : LocalInv(r)
  BY InvParts
<1>1. ASSUME NEW r \in Ranks
      PROVE  /\ pc[r] = "init" /\ worlds[r] = worlds[0] /\ worlds'[r] = worlds[r] + 1
             /\ pos'[r] = pos[r] /\ pos[r] > 0 /\ turn'[r] = 1 /\ pos[r] \in Nat
             /\ pc'[r] = FirstStep(r, pos[r]) /\ FirstStep(r, pos[r]) \in {"gather", "size", "group"}
  <2>1. pc[r] = "init" /\ worlds[r] = worlds[0]
    BY DEF Opened
  <2>2. pos[r] > 0 /\ turn[r] = 1
    BY <1>0, <2>1, PlaceFacts DEF LocalInv, PlacedAt
  <2>. QED
    BY <1>0, <2>1, <2>2, PlaceFacts DEF TypeOK, Opened, FirstStep
<1>2. ASSUME NEW q \in Ranks, NEW r \in Ranks PROVE ~(pos[q] < pos[r])
  <2>1. pc[q] = "init" /\ pos[q] > 0 /\ pos[q] \in Nat
    BY <1>1
  <2>2. ~Behind(q, r)
    BY <2>1 DEF Behind
  <2>. QED
    BY <1>0, <2>2 DEF Lockstep
<1>3. ASSUME NEW q \in Ranks, NEW r \in Ranks PROVE Apart(q, r)'
  <2>1. pos[q] = pos[r]
    BY <1>1, <1>2
  <2>2. pc'[q] = pc'[r] /\ turn'[q] = turn'[r]
    BY <1>1, <2>1 DEF FirstStep
  <2>3. Joint(q, r)'
    BY <2>2 DEF Joint, SamePlace
  <2>. QED
    BY <1>1, <2>1, <2>3 DEF Apart
<1>. QED
  BY <1>3 DEF Lockstep, Apart

LEMMA NewGroupLockstep ==
    ASSUME GroupsInv, TypeOK', NEW r \in Ranks, NewGroup(r) PROVE Lockstep'
<1>0. TypeOK /\ Lockstep /\ \A q \in Ranks : LocalInv(q)
  BY InvParts
<1>1. /\ pos' = pos /\ turn' = turn /\ worlds' = worlds /\ backend' = backend
      /\ \A q \in Ranks \ {r} : pc'[q] = pc[q]
      /\ pc[r] = "group"
      /\ pc'[r] = pc[r] \/ (pc'[r] = "close" /\ backend = "hccl" /\ ~IsMember(r))
  BY <1>0 DEF TypeOK, NewGroup, Goto
<1>2. pos[r] > 0 /\ pos[r] \in Nat /\ This(r).op = "update"
  BY <1>0, <1>1, PlaceFacts DEF LocalInv, PlacedAt
<1>3. ASSUME NEW q \in Ranks \ {r} PROVE Apart(q, r)' /\ Apart(r, q)'
  <2>1. Apart(q, r) /\ Apart(r, q) /\ pos[q] \in Nat
    BY <1>0, PlaceFacts DEF Lockstep, Apart
  <2>2. CASE pc'[r] = pc[r]
    BY <1>1, <2>1, <2>2, StayApart
  <2>3. CASE pc'[r] = "close" /\ backend = "hccl" /\ ~IsMember(r)
    <3>1. pos[q] = pos[r] => Joint(q, r)' /\ Joint(r, q)'
      BY <1>1, <1>2, <2>1, <2>3 DEF Apart, Joint, IsMember, P2P, This
    <3>2. pos[q] < pos[r] => Behind(q, r)'
      <4>. SUFFICES ASSUME pos[q] < pos[r] PROVE Behind(q, r)'
        OBVIOUS
      <4>1. Behind(q, r)
        BY <2>1 DEF Apart
      <4>2. /\ pos[q] > 0 /\ This(q).op = "gather" /\ pc[q] = "idle" /\ pos[r] = pos[q] + 1
        BY <1>1, <4>1 DEF Behind
      <4>3. FarApart(q, r)
        BY <2>3, <4>2 DEF FarApart, MemberOf, IsMember, P2P, This
      <4>. QED
        BY <1>1, <2>3, <4>2, <4>3 DEF Behind, FarApart, MemberOf, This
    <3>3. pos[r] < pos[q] => Behind(r, q)'
      <4>. SUFFICES ASSUME pos[r] < pos[q] PROVE Behind(r, q)'
        OBVIOUS
      <4>1. Behind(r, q)
        BY <2>1 DEF Apart
      <4>2. pos[q] = pos[r] + 1 /\ pc[q] = "init"
        BY <1>1, <1>2, <4>1 DEF Behind
      <4>3. ~MemberOf(r, pos[r])
        BY <2>3 DEF MemberOf, IsMember, P2P, This
      <4>. QED
        BY <1>1, <1>2, <2>3, <4>2, <4>3 DEF Behind, MemberOf, This
    <3>. QED
      BY <1>1, <2>1, <3>1, <3>2, <3>3 DEF Apart
  <2>. QED
    BY <1>1, <2>2, <2>3
<1>. QED
  BY <1>0, <1>1, <1>3, LockstepOfOne

LEMMA CloseLockstep ==
    ASSUME GroupsInv, TypeOK', NEW r \in Ranks, Close(r) PROVE Lockstep'
<1>0. TypeOK /\ Lockstep /\ \A q \in Ranks : LocalInv(q)
  BY InvParts
<1>1. /\ pos' = pos /\ turn' = turn /\ worlds' = worlds /\ backend' = backend
      /\ pc[r] = "close"
  BY DEF Close
<1>2. pc' = pc \/ pc' = [pc EXCEPT ![r] = "idle"]
  BY DEF Close, Destroy, Goto
<1>3. (\A q \in Ranks \ {r} : pc'[q] = pc[q]) /\ (pc'[r] = pc[r] \/ pc'[r] = "idle")
  BY <1>0, <1>2 DEF TypeOK
<1>4. pos[r] > 0 /\ pos[r] \in Nat /\ This(r).op = "update"
  BY <1>0, <1>1, PlaceFacts DEF LocalInv, PlacedAt
<1>5. ASSUME NEW q \in Ranks \ {r} PROVE Apart(q, r)' /\ Apart(r, q)'
  <2>1. Apart(q, r) /\ Apart(r, q) /\ pos[q] \in Nat
    BY <1>0, PlaceFacts DEF Lockstep, Apart
  <2>2. CASE pc'[r] = pc[r]
    BY <1>1, <1>3, <2>1, <2>2, StayApart
  <2>3. CASE pc'[r] = "idle"
    <3>1. pos[q] = pos[r] => Joint(q, r)' /\ Joint(r, q)'
      <4>. SUFFICES ASSUME pos[q] = pos[r] PROVE Joint(q, r)' /\ Joint(r, q)'
        OBVIOUS
      <4>1. Joint(q, r) /\ This(q) = This(r)
        BY <1>4, <2>1 DEF Apart, This
      <4>2. IsMember(q) /\ IsMember(r) => Over(q)
        BY <1>1, <1>4, <4>1 DEF Joint, SamePlace, Over
      <4>3. Over(r)' /\ (Over(q)' <=> Over(q))
        BY <1>1, <1>3, <1>4, <2>3 DEF Over, This
      <4>. QED
        BY <1>1, <1>3, <2>3, <4>1, <4>2, <4>3 DEF Joint, SamePlace, IsMember, P2P, This
    <3>2. pos[q] < pos[r] => Behind(q, r)'
      <4>. SUFFICES ASSUME pos[q] < pos[r] PROVE Behind(q, r)'
        OBVIOUS
      <4>1. Behind(q, r)
        BY <2>1 DEF Apart
      <4>. QED
        BY <1>1, <1>3, <2>3, <4>1 DEF Behind, FarApart, FirstStep, MemberOf, This
    <3>3. pos[r] < pos[q] => Behind(r, q)'
      <4>. SUFFICES ASSUME pos[r] < pos[q] PROVE Behind(r, q)'
        OBVIOUS
      <4>1. Behind(r, q)
        BY <2>1 DEF Apart
      <4>2. pos[q] = pos[r] + 1 /\ pc[q] = "init"
        BY <1>1, <1>4, <4>1 DEF Behind
      <4>. QED
        BY <1>1, <1>3, <1>4, <2>3, <4>2 DEF Behind, MemberOf, Over, This
    <3>. QED
      BY <1>1, <2>1, <3>1, <3>2, <3>3 DEF Apart
  <2>. QED
    BY <1>3, <2>2, <2>3
<1>. QED
  BY <1>0, <1>1, <1>3, <1>5, LockstepOfOne

\* Ranks that met go on together; a rank that is not one of them is no member of
\* their update, or has not come to it.
LEMMA MeetLockstep ==
    ASSUME GroupsInv, TypeOK', NEW c \in Waiting, NEW kind, Met(c, kind),
           pos' = pos, worlds' = worlds, backend' = backend,
           \A r \in Ranks \ Range(c.ranks) : pc'[r] = pc[r] /\ turn'[r] = turn[r],
           \A r \in Range(c.ranks) : pc'[r] \notin {"init", "group"},
           \A q, r \in Range(c.ranks) :
              turn'[q] = turn'[r] /\ (IsMember(q) /\ IsMember(r) => pc'[q] = pc'[r])
    PROVE  Lockstep'
<1>0. TypeOK /\ Lockstep /\ \A q \in Ranks : LocalInv(q)
  BY InvParts
<1>1. \A q, r \in Range(c.ranks) : pos[q] = pos[r] /\ q \in Ranks /\ r \in Ranks
  BY MetFacts
<1>2. ASSUME NEW q \in Range(c.ranks), NEW r \in Range(c.ranks) PROVE Apart(q, r)'
  <2>1. Apart(q, r) /\ ~(pos[q] < pos[r]) /\ pos'[q] = pos[q] /\ pos'[r] = pos[r]
    BY <1>0, <1>1, PlaceFacts DEF Lockstep, Apart
  <2>2. Joint(q, r)'
    BY <1>2 DEF Joint, SamePlace, IsMember, P2P, This
  <2>. QED
    BY <2>1, <2>2 DEF Apart
<1>3. ASSUME NEW r \in Range(c.ranks), NEW q \in Ranks \ Range(c.ranks)
      PROVE  Apart(q, r)' /\ Apart(r, q)'
  <2>1. /\ posted[r] # Nothing /\ P2P(r) /\ This(r).op = "update" /\ r \in Ranks
        /\ Range(c.ranks) = Range(This(r).ranks) /\ (pc[r] = "group" => backend = "hccl")
    BY <1>3, MetFacts
  <2>2. Apart(q, r) /\ Apart(r, q) /\ pos[q] \in Nat /\ pos[r] \in Nat /\ pos[r] > 0
    BY <1>0, <1>3, <2>1, PlaceFacts, PostedFacts DEF Lockstep, Apart
  <2>3. /\ pc[r] \in {"group", "gather", "enter", "size", "send", "vote", "finish"}
        /\ pc'[q] = pc[q] /\ turn'[q] = turn[q] /\ pc'[r] \notin {"init", "group"}
    BY <1>0, <1>3, <2>1, PostedFacts
  <2>4. ~MemberOf(q, pos[r])
    BY <1>3, <2>1 DEF MemberOf, P2P, This
  <2>5. pos[q] = pos[r] => Joint(q, r)' /\ Joint(r, q)'
    <3>. SUFFICES ASSUME pos[q] = pos[r] PROVE Joint(q, r)' /\ Joint(r, q)'
      OBVIOUS
    <3>1. Joint(q, r) /\ ~IsMember(q)
      BY <2>2, <2>4 DEF Apart, MemberOf, IsMember, P2P, This
    <3>2. pc[q] # "init" /\ (backend # "hccl" => pc[q] # "group")
      BY <2>1, <2>3, <3>1 DEF Joint
    <3>3. ~IsMember(q)'
      BY <3>1 DEF IsMember, P2P, This
    <3>. QED
      BY <2>3, <3>2, <3>3 DEF Joint
  <2>6. pos[q] < pos[r] => Behind(q, r)'
    <3>. SUFFICES ASSUME pos[q] < pos[r] PROVE Behind(q, r)'
      OBVIOUS
    <3>1. Behind(q, r)
      BY <2>2 DEF Apart
    <3>2. /\ pos[q] > 0 /\ This(q).op = "gather" /\ pc[q] = "idle" /\ pos[r] = pos[q] + 1
          /\ pc[r] = FirstStep(r, pos[r]) \/ FarApart(q, r)
      BY <2>3, <3>1 DEF Behind
    <3>3. FarApart(q, r)
      <4>1. CASE pc[r] = FirstStep(r, pos[r])
        <5>1. pc[r] = "group"
          BY <2>1, <4>1 DEF FirstStep, P2P, This
        <5>. QED
          BY <2>1, <2>4, <3>2, <5>1 DEF FarApart
      <4>. QED
        BY <3>2, <4>1
    <3>. QED
      BY <2>3, <3>2, <3>3 DEF Behind, FarApart, MemberOf, This
  <2>7. pos[r] < pos[q] => Behind(r, q)'
    <3>. SUFFICES ASSUME pos[r] < pos[q] PROVE Behind(r, q)'
      OBVIOUS
    <3>1. Behind(r, q)
      BY <2>2 DEF Apart
    <3>2. pos[q] = pos[r] + 1 /\ pc[q] = "init"
      BY <2>2, <2>3, <3>1 DEF Behind
    <3>. QED
      BY <2>1, <2>2, <2>3, <2>4, <3>2 DEF Behind, MemberOf, This
  <2>. QED
    BY <2>2, <2>5, <2>6, <2>7 DEF Apart
<1>4. ASSUME NEW q \in Ranks \ Range(c.ranks), NEW r \in Ranks \ Range(c.ranks) PROVE Apart(q, r)'
  <2>1. Apart(q, r)
    BY <1>0 DEF Lockstep, Apart
  <2>. QED
    BY <1>4, <2>1, StayApart
<1>. QED
  BY <1>2, <1>3, <1>4 DEF Lockstep, Apart

LEMMA GroupMadeLockstep ==
    ASSUME GroupsInv, TypeOK', NEW c \in Waiting, GroupMade(c) PROVE Lockstep'
<1>1. /\ Met(c, "group") /\ pos' = pos /\ worlds' = worlds /\ backend' = backend /\ turn' = turn
  BY DEF GroupMade
<1>2. Range(c.ranks) \subseteq Ranks /\ \A q, r \in Range(c.ranks) : turn[q] = turn[r]
  BY <1>1, MetFacts
<1>3. \A r \in Range(c.ranks) : pc'[r] = IF IsMember(r) THEN "enter" ELSE "close"
  BY <1>2, GroupMadeMoves
<1>4. \A r \in Ranks \ Range(c.ranks) : pc'[r] = pc[r] /\ turn'[r] = turn[r]
  BY GroupMadeMoves DEF Still
<1>. QED
  BY <1>1, <1>2, <1>3, <1>4, MeetLockstep

LEMMA CompleteLockstep ==
    ASSUME GroupsInv, TypeOK', NEW c \in Waiting, NEW kind \in Range(Kind), Complete(c, kind)
    PROVE  Lockstep'
<1>1. /\ Met(c, kind) /\ pos' = pos /\ worlds' = worlds /\ backend' = backend
  BY DEF Complete, history
<1>2. /\ Range(c.ranks) \subseteq Ranks
      /\ \A q, r \in Range(c.ranks) : turn[q] = turn[r] /\ pc[q] = pc[r] /\ This(q) = This(r)
  BY <1>1, MetFacts DEF This
<1>3. \A r \in Range(c.ranks) :
         /\ pc[r] \in {"gather", "enter", "size", "send", "vote", "finish"}
         /\ turn'[r] = IF pc[r] = "vote" THEN turn[r] + 1 ELSE turn[r]
  BY <1>2, CompleteMoves, KindFacts
<1>4. \A r \in Ranks \ Range(c.ranks) : pc'[r] = pc[r] /\ turn'[r] = turn[r]
  BY CompleteMoves DEF Still
<1>5. \/ pc' = Of(c, pc, [r \in Ranks |-> NextStep(r)])
      \/ pc' = Of(c, pc, All("finish"))
  BY DEF Complete
<1>6. \/ \A r \in Range(c.ranks) : pc'[r] = NextStep(r)
      \/ \A r \in Range(c.ranks) : pc'[r] = "finish"
  BY <1>2, <1>5 DEF Of, All
<1>7. \A q, r \in Range(c.ranks) : NextStep(q) = NextStep(r)
  BY <1>2 DEF NextStep
<1>8. \A r \in Range(c.ranks) : NextStep(r) \notin {"init", "group"}
  BY <1>3 DEF NextStep
<1>9. \A q, r \in Range(c.ranks) : turn'[q] = turn'[r] /\ pc'[q] = pc'[r]
  BY <1>2, <1>3, <1>6, <1>7
<1>10. \A r \in Range(c.ranks) : pc'[r] \notin {"init", "group"}
  BY <1>6, <1>8
<1>. QED
  BY <1>1, <1>4, <1>9, <1>10, MeetLockstep

-----------------------------------------------------------------------------
(* The theorems.                                                           *)

LEMMA GroupsInit == Init => GroupsInv
<1>. SUFFICES ASSUME Init PROVE GroupsInv
  OBVIOUS
<1>1. TypeOK
  BY TypeInit
<1>2. ASSUME NEW r \in Ranks
      PROVE  /\ pos[r] = 0 /\ pc[r] = "idle" /\ group[r] = NoGroup /\ worlds[r] = 0
             /\ initialized[r] = FALSE /\ subs[r] = {} /\ posted[r] = Nothing
             /\ created[r] = {} /\ freed[r] = <<>>
             /\ ~(pos[r] > 0)
  BY DEF Init, All
<1>3. ASSUME NEW q \in Ranks, NEW r \in Ranks PROVE Apart(q, r)
  <2>1. worlds[q] = worlds[r] /\ ~(pos[q] < pos[r]) /\ ~(pos[q] > 0)
    BY <1>2
  <2>. QED
    BY <2>1 DEF Apart
<1>4. ASSUME NEW r \in Ranks PROVE LocalInv(r)
  <2>1. PlacedAt(r)
    <3>1. /\ pos[r] = 0 => pc[r] = "idle"
          /\ pc[r] = "idle" /\ ~initialized[r] /\ ~(pos[r] > 0)
      BY <1>2
    <3>. QED
      BY <3>1 DEF PlacedAt, InGroup
  <2>2. HasAt(r)
    BY <1>2 DEF HasAt, InGroup
  <2>3. PostedAt(r)
    BY <1>2 DEF PostedAt
  <2>4. OwnedAt(r)
    <3>1. IsInjective(<<>>) /\ Range(<<>>) = {}
      BY DEF IsInjective, Range
    <3>. QED
      BY <1>2, <3>1 DEF OwnedAt
  <2>. QED
    BY <2>1, <2>2, <2>3, <2>4 DEF LocalInv
<1>. QED
  BY <1>1, <1>3, <1>4 DEF GroupsInv, LocalInv, Lockstep, Apart

\* A step of one rank keeps what holds of the others.
LEMMA OthersLocal ==
    ASSUME TypeOK, NEW r \in Ranks, Step(r), NEW q \in Ranks \ {r}, LocalInv(q)
    PROVE  LocalInv(q)'
<1>1. backend' = backend
  BY DEF Step, Call, Post, NewGroup, Close
<1>2. ASSUME Call(r) PROVE Still(q)
  BY <1>2 DEF TypeOK, Call, Goto, object, history, Still
<1>3. ASSUME Post(r) PROVE Still(q)
  BY <1>3 DEF TypeOK, Post, UseGroup, caller, history, Still
<1>4. ASSUME NewGroup(r) PROVE Still(q)
  <2>1. (pc' = pc \/ pc' = [pc EXCEPT ![r] = "close"]) /\ posted'[q] = posted[q]
    BY <1>4 DEF TypeOK, NewGroup, Goto
  <2>. QED
    BY <1>4, <2>1 DEF TypeOK, NewGroup, object, history, Still
<1>5. ASSUME Close(r) PROVE Still(q)
  <2>1. /\ group'[q] = group[q] /\ freed'[q] = freed[q] /\ subs'[q] = subs[q]
        /\ initialized'[q] = initialized[q] /\ pc'[q] = pc[q]
    <3>1. CASE group[r] \in subs[r]
      BY <1>5, <3>1 DEF TypeOK, Close, Destroy
    <3>2. CASE group[r] \notin subs[r]
      BY <1>5, <3>2 DEF TypeOK, Close, Destroy, Goto
    <3>. QED
      BY <3>1, <3>2
  <2>. QED
    BY <1>5, <2>1 DEF Close, Still
<1>. QED
  BY <1>1, <1>2, <1>3, <1>4, <1>5, StillLocal DEF Step

LEMMA GroupsStep == ASSUME GroupsInv, [Next]_vars PROVE GroupsInv'
<1>0. TypeOK /\ Lockstep /\ (\A r \in Ranks : LocalInv(r)) /\ TypeOK'
  BY InvParts, TypeStep
<1>1. ASSUME NEW r \in Ranks, Step(r) PROVE Lockstep' /\ \A q \in Ranks : LocalInv(q)'
  <2>1. LocalInv(r)'
    BY <1>0, <1>1, CallLocal, PostLocal, NewGroupLocal, CloseLocal DEF Step
  <2>2. \A q \in Ranks : LocalInv(q)'
    BY <1>0, <1>1, <2>1, OthersLocal
  <2>3. CASE Post(r)
    <3>1. pos' = pos /\ pc' = pc /\ turn' = turn /\ worlds' = worlds /\ backend' = backend
      BY <2>3 DEF Post, caller
    <3>2. \A p, q \in Ranks : Apart(p, q)'
      BY <1>0, <3>1, StayApart DEF Lockstep, Apart
    <3>. QED
      BY <2>2, <3>2 DEF Lockstep, Apart
  <2>. QED
    BY <1>0, <1>1, <2>2, <2>3, CallLockstep, NewGroupLockstep, CloseLockstep DEF Step
<1>2. ASSUME Opened PROVE Lockstep' /\ \A q \in Ranks : LocalInv(q)'
  BY <1>0, <1>2, OpenedLocal, OpenedLockstep
<1>3. ASSUME NEW c \in Waiting, GroupMade(c) PROVE Lockstep' /\ \A q \in Ranks : LocalInv(q)'
  BY <1>0, <1>3, GroupMadeLocal, GroupMadeLockstep
<1>4. ASSUME NEW c \in Waiting, NEW kind \in Range(Kind), Complete(c, kind)
      PROVE  Lockstep' /\ \A q \in Ranks : LocalInv(q)'
  BY <1>0, <1>4, CompleteLocal, CompleteLockstep
<1>5. ASSUME UNCHANGED vars PROVE Lockstep' /\ \A q \in Ranks : LocalInv(q)'
  <2>1. backend' = backend /\ \A q \in Ranks : Still(q)
    BY <1>5 DEF vars, caller, object, history, Still
  <2>2. \A q \in Ranks : LocalInv(q)'
    BY <1>0, <2>1, StillLocal
  <2>3. \A p, q \in Ranks : Apart(p, q)'
    BY <1>0, <2>1, StayApart DEF Lockstep, Apart, Still
  <2>. QED
    BY <2>2, <2>3 DEF Lockstep, Apart
<1>6. Lockstep' /\ \A q \in Ranks : LocalInv(q)'
  BY <1>1, <1>2, <1>3, <1>4, <1>5 DEF Next, Meet, AllDone
<1>. QED
  BY <1>0, <1>6 DEF GroupsInv, LocalInv

\* GroupsInv holds in every state: the ranks of a call are at the same step of it
\* or apart in the few ways Behind lists, and what each of them has of
\* communicators is what its step says.
THEOREM GroupsInductive == Spec => []GroupsInv
<1>1. GroupsInv /\ [Next]_vars => GroupsInv'
  BY GroupsStep
<1>. QED
  BY <1>1, GroupsInit, PTL DEF Spec

\* Every variable of the process groups has its type in every state.
THEOREM GroupsTypeCorrect == Spec => []TypeOK
<1>1. GroupsInv => TypeOK
  BY DEF GroupsInv
<1>. QED
  BY <1>1, GroupsInductive, PTL

\* Ranks that wait on the same communicator are in the same collective of the same
\* call, a broadcast has the source update means, by its rank in the group, and
\* only the source takes itself for it (_use_group).
THEOREM CollectivesAlwaysMatch == Spec => []CollectivesMatch
<1>1. ASSUME GroupsInv PROVE CollectivesMatch
  <2>0. TypeOK /\ \A r \in Ranks : LocalInv(r)
    BY <1>1, InvParts
  <2>1. ASSUME NEW r \in Ranks, posted[r] # Nothing
        PROVE  /\ r \in Range(posted[r].comm.ranks)
               /\ \A q \in Ranks : posted[q].comm = posted[r].comm => posted[q].kind = posted[r].kind
    BY <1>1, <2>0, <2>1, PostedFacts, Meeting
  <2>2. ASSUME NEW r \in Ranks, posted[r] # Nothing, posted[r].kind = "broadcast"
        PROVE  /\ posted[r].root + 1 \in DOMAIN posted[r].comm.ranks
               /\ posted[r].comm.ranks[posted[r].root + 1] = Source(r)
               /\ (rank[r] = posted[r].root) <=> (r = Source(r))
    <3>1. LocalInv(r) /\ initialized[r]
      BY <2>0, <2>2, PostedFacts
    <3>2. pc[r] = "send"
      <4>1. pc[r] # "group"
        BY <2>2, <3>1 DEF LocalInv, PostedAt
      <4>2. pc[r] \in DOMAIN Kind /\ posted[r].kind = Kind[pc[r]]
        BY <2>2, <3>1, <4>1 DEF LocalInv, PostedAt
      <4>. QED
        BY <2>2, <4>2, KindFacts
    <3>3. /\ posted[r].comm = IF group[r] = NoGroup THEN World(r) ELSE group[r]
          /\ posted[r].root = RankIn(group[r], Source(r))
      BY <2>2, <3>1, <3>2 DEF LocalInv, PostedAt
    <3>4. posted[r].comm.ranks = IF group[r] = NoGroup THEN Everyone ELSE group[r].ranks
      BY <3>3 DEF World, Comm
    <3>5. rank[r] = RankIn(group[r], r)
      BY <2>2, <3>1 DEF LocalInv, HasAt
    <3>. QED
      BY <2>0, <3>1, <3>2, <3>3, <3>4, <3>5, RootFacts
  <2>. QED
    BY <2>1, <2>2 DEF CollectivesMatch
<1>. QED
  BY <1>1, GroupsInductive, PTL

\* A rank destroys each communicator it has got once, all of them before it has no
\* process group again, and waits on none that it has destroyed.
THEOREM CommunicatorsAlwaysBalanced == Spec => []CommunicatorsBalanced
<1>1. ASSUME GroupsInv PROVE CommunicatorsBalanced
  <2>0. TypeOK /\ \A r \in Ranks : LocalInv(r)
    BY <1>1, InvParts
  <2>1. ASSUME NEW r \in Ranks
        PROVE  /\ IsInjective(freed[r]) /\ Range(freed[r]) \subseteq created[r]
               /\ ~initialized[r] => Range(freed[r]) = created[r] /\ subs[r] = {}
    <3>1. ~initialized[r] => subs[r] = {}
      BY <2>0 DEF LocalInv, HasAt, PlacedAt, InGroup
    <3>. QED
      BY <2>0, <3>1 DEF LocalInv, OwnedAt
  <2>2. ASSUME NEW r \in Ranks PROVE posted[r].comm \notin Range(freed[r])
    <3>1. /\ Range(freed[r]) \subseteq created[r] /\ NoGroup \notin created[r]
          /\ initialized[r] => /\ comm[r] \notin Range(freed[r])
                               /\ \A g \in subs[r] : g \notin Range(freed[r])
      BY <2>0 DEF LocalInv, OwnedAt
    <3>2. CASE posted[r] = Nothing
      BY <3>1, <3>2 DEF Nothing
    <3>3. CASE posted[r] # Nothing
      <4>1. /\ initialized[r] /\ InCall(r)
            /\ \/ posted[r].comm = World(r)
               \/ posted[r].comm = GroupFor(r) /\ pc[r] = "group"
               \/ posted[r].comm = GroupFor(r) /\ group[r] = GroupFor(r)
        BY <2>0, <3>3, PostedFacts
      <4>2. CASE posted[r].comm = World(r)
        BY <2>0, <3>1, <4>1, <4>2 DEF LocalInv, HasAt
      <4>3. CASE posted[r].comm = GroupFor(r) /\ pc[r] = "group"
        <5>1. \A c \in created[r] : c.world = worlds[r] => c.sub = 0
          BY <2>0, <4>1, <4>3 DEF LocalInv, OwnedAt
        <5>2. GroupFor(r).world = worlds[r] /\ GroupFor(r).sub = 1
          BY <2>0, <4>1, CommFacts
        <5>. QED
          BY <3>1, <4>3, <5>1, <5>2
      <4>4. CASE posted[r].comm = GroupFor(r) /\ group[r] = GroupFor(r)
        <5>1. GroupFor(r) \in subs[r]
          BY <2>0, <4>1, <4>4, CommFacts DEF LocalInv, HasAt
        <5>. QED
          BY <3>1, <4>1, <4>4, <5>1
      <4>. QED
        BY <4>1, <4>2, <4>3, <4>4
    <3>. QED
      BY <3>2, <3>3
  <2>. QED
    BY <2>1, <2>2 DEF CommunicatorsBalanced
<1>. QED
  BY <1>1, GroupsInductive, PTL

-----------------------------------------------------------------------------
(* _common_all_gather_object: what FlattenSeq and the cuts compute.         *)

\* Positions in blocks of w: the k-th position of the j-th of i blocks.
LEMMA Blocks ==
    ASSUME NEW w \in Nat, NEW i \in Nat, NEW j \in 1 .. i, NEW k \in 1 .. w
    PROVE  /\ w * (i + 1) = w * i + w /\ w * i \in Nat
           /\ w * (j - 1) + k \in 1 .. w * i
           /\ w * j = w * (j - 1) + w
<1>1. w * i \in Nat /\ w * (i + 1) = w * i + w /\ w * j = w * (j - 1) + w
  OBVIOUS
<1>2. j - 1 \in Nat /\ i - j \in Nat
  OBVIOUS
<1>3. w * (j - 1) \in Nat /\ w * (i - j) \in Nat
  BY <1>2
<1>4. w * i = w * (i - j) + w * j
  OBVIOUS
<1>. QED
  BY <1>1, <1>3, <1>4

\* u is the first i of the sequences, each w long, one after the other.
Joined(u, seqs, w, i) ==
    /\ Len(u) = w * i
    /\ \A j \in 1 .. i, k \in 1 .. w : u[w * (j - 1) + k] = seqs[j][k]

LEMMA JoinedStep ==
    ASSUME NEW T, NEW s \in Seq(T), NEW t \in Seq(T), NEW seqs, NEW w \in Nat, NEW i \in Nat,
           Joined(s, seqs, w, i), t = seqs[i + 1], Len(t) = w
    PROVE  Joined(s \o t, seqs, w, i + 1)
<1>. DEFINE u == s \o t
<1>1. /\ Len(u) = w * i + w /\ w * i \in Nat /\ w * (i + 1) = w * i + w
      /\ \A p \in 1 .. w * i : u[p] = s[p]
      /\ \A p \in 1 .. w : u[w * i + p] = t[p]
  <2>1. Len(s) = w * i /\ w * i \in Nat /\ w * (i + 1) = w * i + w
    BY DEF Joined
  <2>2. /\ Len(u) = Len(s) + Len(t)
        /\ \A p \in 1 .. Len(s) : u[p] = s[p]
        /\ \A p \in 1 .. Len(t) : u[Len(s) + p] = t[p]
    <3>1. s \in Seq(T) /\ t \in Seq(T)
      OBVIOUS
    <3>2. /\ Len(s \o t) = Len(s) + Len(t)
          /\ \A p \in 1 .. Len(s) : (s \o t)[p] = s[p]
          /\ \A p \in 1 .. Len(t) : (s \o t)[Len(s) + p] = t[p]
      BY ONLY <3>1, ConcatFacts
    <3>. QED
      BY <3>2, Zenon
  <2>. HIDE DEF u
  <2>. QED
    BY <2>1, <2>2
<1>. HIDE DEF u
<1>2. ASSUME NEW j \in 1 .. i + 1, NEW k \in 1 .. w PROVE u[w * (j - 1) + k] = seqs[j][k]
  <2>1. CASE j \in 1 .. i
    <3>1. w * (j - 1) + k \in 1 .. w * i
      BY <2>1, Blocks
    <3>2. u[w * (j - 1) + k] = s[w * (j - 1) + k]
      BY <1>1, <3>1
    <3>. QED
      BY <2>1, <3>2 DEF Joined
  <2>2. CASE j = i + 1
    <3>1. j - 1 = i
      BY <2>2
    <3>2. u[w * i + k] = t[k]
      BY <1>1
    <3>. QED
      BY <2>2, <3>1, <3>2
  <2>. QED
    BY <2>1, <2>2
<1>. QED
  BY <1>1, <1>2 DEF Joined, u

\* Sequences of one length, one after the other: where their elements are.
LEMMA FlattenEqual ==
    ASSUME NEW T, NEW seqs \in Seq(Seq(T)), Len(seqs) # 0,
           NEW w \in Nat, \A i \in 1 .. Len(seqs) : Len(seqs[i]) = w
    PROVE  FlattenSeq(seqs) \in Seq(T) /\ Joined(FlattenSeq(seqs), seqs, w, Len(seqs))
<1>. DEFINE n == Len(seqs)
<1>1. PICK f \in [1 .. n -> Seq(T)] :
         /\ FlattenSeq(seqs) = f[n]
         /\ \A i \in 1 .. n : f[i] = IF i = 1 THEN seqs[i] ELSE f[i - 1] \o seqs[i]
  BY FlattenDefined
<1>2. /\ n \in Nat /\ n # 0 /\ 1 \in 1 .. n /\ n - 1 \in Nat
      /\ \A i \in 1 .. n : seqs[i] \in Seq(T) /\ Len(seqs[i]) = w
  OBVIOUS
<1>. HIDE DEF n
<1>. DEFINE S == {m \in Nat : m + 1 <= n => Joined(f[m + 1], seqs, w, m + 1)}
<1>3. 0 \in S
  <2>1. f[1] = seqs[1] /\ Len(f[1]) = w
    BY <1>1, <1>2
  <2>2. \A j \in 1 .. 1 : j = 1 /\ w * (j - 1) = 0
    OBVIOUS
  <2>3. \A j \in 1 .. 1, k \in 1 .. w : f[1][w * (j - 1) + k] = seqs[j][k]
    BY <2>1, <2>2
  <2>4. Joined(f[0 + 1], seqs, w, 0 + 1)
    BY <2>1, <2>3 DEF Joined
  <2>. QED
    BY <2>4
<1>4. ASSUME NEW m \in S PROVE m + 1 \in S
  <2>0. m \in Nat /\ m + 1 \in Nat /\ (m + 1) + 1 = m + 2
    OBVIOUS
  <2>. SUFFICES ASSUME m + 2 <= n PROVE Joined(f[m + 2], seqs, w, m + 2)
    BY <2>0
  <2>1. Joined(f[m + 1], seqs, w, m + 1) /\ m + 1 \in 1 .. n /\ m + 2 \in 1 .. n
    BY <1>2, <2>0
  <2>2. m + 2 # 1 /\ (m + 2) - 1 = m + 1
    BY <2>0
  <2>3. f[m + 2] = f[m + 1] \o seqs[m + 2]
    BY <1>1, <2>1, <2>2
  <2>4. f[m + 1] \in Seq(T) /\ seqs[m + 2] \in Seq(T) /\ Len(seqs[m + 2]) = w
    BY <1>2, <2>1
  <2>5. Joined(f[m + 1] \o seqs[m + 2], seqs, w, (m + 1) + 1)
    BY <2>0, <2>1, <2>4, JoinedStep
  <2>. QED
    BY <2>0, <2>3, <2>5
<1>5. n - 1 \in S
  <2>. HIDE DEF S
  <2>1. S \subseteq Nat
    BY DEF S
  <2>. QED
    BY <1>2, <1>3, <1>4, <2>1, Induction
<1>6. Joined(f[n], seqs, w, n)
  <2>1. (n - 1) + 1 = n
    BY <1>2
  <2>. QED
    BY <1>2, <1>5, <2>1
<1>. QED
  <2>1. f[n] \in Seq(T) /\ FlattenSeq(seqs) = f[n]
    BY <1>1, <1>2
  <2>. HIDE DEF S
  <2>. QED
    BY <1>6, <2>1 DEF n

-----------------------------------------------------------------------------
\* What _common_all_gather_object returns is what was given to it.
LEMMA GatherIsExact == GatherObjects(Objects) = Objects
<1>. DEFINE sizes == [i \in DOMAIN Objects |-> Len(Objects[i])]
            largest == CHOOSE n \in Range(sizes) : \A i \in DOMAIN sizes : sizes[i] <= n
            resized == [i \in DOMAIN Objects |->
                          [k \in 1 .. largest |-> IF k <= sizes[i] THEN Objects[i][k] ELSE Junk]]
<1>1. /\ N \in Nat \ {0} /\ DOMAIN Objects = 1 .. N
      /\ \A i \in 1 .. N : Objects[i] \in Seq(Nat)
      /\ Objects = [i \in 1 .. N |-> Objects[i]]
  BY GroupsAssumption
<1>2. sizes \in [1 .. N -> Nat]
  BY <1>1
<1>3. largest \in Nat /\ \A i \in 1 .. N : sizes[i] <= largest
  <2>. HIDE DEF sizes
  <2>1. PICK k \in 1 .. N : \A i \in 1 .. N : sizes[i] <= sizes[k]
    BY <1>1, <1>2, LargestExists
  <2>2. sizes[k] \in Range(sizes) /\ DOMAIN sizes = 1 .. N
    BY <1>2 DEF Range
  <2>3. largest \in Range(sizes) /\ \A i \in DOMAIN sizes : sizes[i] <= largest
    BY <2>1, <2>2
  <2>. QED
    BY <1>2, <2>2, <2>3 DEF Range
<1>. HIDE DEF largest
<1>4. resized \in Seq(Seq(Int)) /\ Len(resized) = N /\ \A i \in 1 .. N : Len(resized[i]) = largest
  <2>1. ASSUME NEW i \in 1 .. N
        PROVE  resized[i] \in Seq(Int) /\ Len(resized[i]) = largest
    <3>1. \A k \in 1 .. largest : (IF k <= sizes[i] THEN Objects[i][k] ELSE Junk) \in Int
      BY <1>1 DEF Junk
    <3>2. resized[i] \in [1 .. largest -> Int]
      BY <1>1, <3>1
    <3>. HIDE DEF resized, sizes
    <3>3. largest \in Nat
      BY <1>3
    <3>. QED
      BY <3>2, <3>3
  <2>. DEFINE T == Seq(Int)
  <2>2. resized = [i \in 1 .. N |-> resized[i]] /\ \A i \in 1 .. N : resized[i] \in T
    BY <1>1, <2>1
  <2>. HIDE DEF resized, T
  <2>3. resized \in Seq(T) /\ Len(resized) = N
    BY <1>1, <2>2
  <2>. QED
    BY <2>1, <2>3 DEF T
<1>5. ASSUME NEW i \in 1 .. N
      PROVE  CutObject(FlattenSeq(resized), sizes, i, largest) = Objects[i]
  <2>. DEFINE all == FlattenSeq(resized)
              first == largest * (i - 1)
              cut == SubSeq(all, first + 1, first + sizes[i])
  <2>1. sizes[i] \in Nat /\ sizes[i] <= largest /\ Len(Objects[i]) = sizes[i] /\ Objects[i] \in Seq(Nat)
    BY <1>1, <1>2, <1>3
  <2>2. \A k \in 1 .. sizes[i] : all[first + k] = Objects[i][k]
    <3>1. \A k \in 1 .. sizes[i] : k \in 1 .. largest /\ resized[i][k] = Objects[i][k]
      BY <1>1, <1>3, <2>1
    <3>. HIDE DEF resized
    <3>2. \A k \in 1 .. largest : all[first + k] = resized[i][k]
      <4>1. /\ Len(resized) # 0 /\ i \in 1 .. Len(resized)
            /\ \A j \in 1 .. Len(resized) : Len(resized[j]) = largest
        BY <1>1, <1>4
      <4>2. Joined(all, resized, largest, N)
        BY <1>3, <1>4, <4>1, FlattenEqual
      <4>. QED
        BY <1>1, <4>2 DEF Joined
    <3>. QED
      BY <3>1, <3>2
  <2>3. first \in Nat
    BY <1>1, <1>3
  <2>. HIDE DEF all, first
  <2>4. cut = [k \in 1 .. sizes[i] |-> Objects[i][k]]
    <3>. DEFINE m == first + 1
                n == first + sizes[i]
    <3>1. m \in Int /\ n \in Int /\ n - m + 1 = sizes[i] /\ (m <= n \/ sizes[i] = 0)
      BY <2>1, <2>3
    <3>2. \A p \in m .. n : all[p] \in Nat
      <4>1. ASSUME NEW p \in m .. n PROVE p - first \in 1 .. sizes[i] /\ p = first + (p - first)
        BY <2>1, <2>3
      <4>2. \A k \in 1 .. sizes[i] : Objects[i][k] \in Nat
        BY <2>1
      <4>. HIDE DEF m, n
      <4>. QED
        BY <2>2, <4>1, <4>2
    <3>3. cut = SubSeq(all, m, n)
      OBVIOUS
    <3>4. \A k \in 1 .. sizes[i] : m + k - 1 = first + k
      BY <2>1, <2>3
    <3>. HIDE DEF m, n, cut
    <3>5. /\ cut \in Seq(Nat) /\ Len(cut) = sizes[i]
          /\ \A k \in 1 .. n - m + 1 : cut[k] = all[m + k - 1]
      BY <2>1, <3>1, <3>2, <3>3, SubSeqProperties
    <3>6. cut = [k \in 1 .. sizes[i] |-> cut[k]]
      BY <3>5
    <3>7. \A k \in 1 .. sizes[i] : cut[k] = Objects[i][k]
      BY <2>2, <3>1, <3>4, <3>5
    <3>. QED
      BY <3>6, <3>7
  <2>5. Objects[i] = [k \in 1 .. sizes[i] |-> Objects[i][k]]
    <3>. DEFINE o == Objects[i]
    <3>1. o \in Seq(Nat) /\ Len(o) = sizes[i]
      BY <2>1
    <3>. HIDE DEF o, sizes
    <3>2. o = [k \in 1 .. sizes[i] |-> o[k]]
      BY <3>1
    <3>. QED
      BY <3>2 DEF o
  <2>. QED
    BY <2>4, <2>5 DEF CutObject, all, first
<1>6. GatherObjects(Objects) =
        [i \in DOMAIN Objects |-> CutObject(FlattenSeq(resized), sizes, i, largest)]
  BY DEF GatherObjects, largest
<1>. HIDE DEF resized, sizes
<1>. QED
  BY <1>1, <1>5, <1>6

\* What gather_metas returned last, on every rank.
GotInv == got \in [Ranks -> {<<>>, Objects}]

LEMMA GotStep == ASSUME GotInv, [Next]_vars PROVE GotInv'
<1>1. ASSUME NEW c, NEW kind, Complete(c, kind) PROVE GotInv'
  <2>1. \/ got' = got
        \/ got' = [r \in Ranks |-> IF r \in Range(c.ranks) THEN Objects ELSE got[r]]
    BY <1>1, GatherIsExact DEF Complete, Of, All
  <2>. QED
    BY <2>1 DEF GotInv
<1>2. ASSUME UNCHANGED got PROVE GotInv'
  BY <1>2 DEF GotInv
<1>3. CASE \E r \in Ranks : Step(r)
  BY <1>2, <1>3 DEF Step, Call, Post, NewGroup, Close
<1>4. CASE Meet
  BY <1>1, <1>2, <1>4 DEF Meet, Opened, GroupMade
<1>. QED
  BY <1>2, <1>3, <1>4 DEF Next, AllDone, vars

\* gather_metas returns every object as it was sent, whatever their lengths and
\* whatever resize_ leaves in the bytes it adds.
THEOREM ObjectsAlwaysExact == Spec => []ObjectsExact
<1>1. Init => GotInv
  BY DEF Init, GotInv, All
<1>2. GotInv /\ [Next]_vars => GotInv'
  BY GotStep
<1>3. GotInv => ObjectsExact
  BY DEF GotInv, ObjectsExact
<1>. QED
  BY <1>1, <1>2, <1>3, PTL DEF Spec

=============================================================================
