----------------------- MODULE ClusterThreadTracking -----------------------
(***************************************************************************)
(* The proof that no node is forgotten: one that came back as a primary,   *)
(* follows another node or none, or is not known to the primary, has an    *)
(* update ahead of it.                                                     *)
(***************************************************************************)
EXTENDS ClusterThreadSafety

\* The nodes that take themselves for the primary; the others that have not
\* their data from p; the others that are not registered on p.
Leaders(d)   == {p \in Pods : d[p].type = Primary}
Unfed(d, p)  == {q \in Pods \ {p} : ~(d[q].type = RSS /\ d[q].src = p)}
Missed(d, p) == Pods \ ({p} \cup d[p].subs)

\* As long as there is no primary, and the operator is not replaced, no more
\* than one node takes itself for it, and it is the one that is chosen.
LoneInv ==
    MaxFaults["restart"] = 0 /\ primary = NoPod =>
        /\ \A p, q \in Leaders(db) : p = q
        /\ pc = "add" => Leaders(db) \subseteq {tgt}

\* The premise about the faults: then an update that ends unfinished is followed
\* by another one.
NothingLost == MaxFaults["lost"] = 0 /\ MaxFaults["api"] = 0

\* An update that will end with nil still has all nodes to restore that its
\* primary does not feed, and all to register that a primary chosen by it does not
\* know; or there was nothing to do. With a primary, an idle thread, or one whose
\* failover may still be given up, has an update ahead when a node is not fed.
TrackInv ==
    /\ pc \in {"add", "setrss"} => gOn /\ tgt \notin todo
    /\ pc \in {"idle", "collect", "promote"} => tgt = NoPod
    /\ pc = "add" => tgt # NoPod
    /\ pc = "setrss" /\ tgt # NoPod => missing = {}
    /\ pc \in {"add", "setrss"} /\ tgt # NoPod /\ clean =>
          /\ Unfed(db, tgt) \subseteq todo
          /\ primary = NoPod => Missed(db, tgt) \subseteq missing
    /\ pc = "setrss" /\ tgt = NoPod =>
          /\ todo = {}
          /\ \E p \in Leaders(db) : Unfed(db, p) = {} /\ Missed(db, p) = {}
    /\ NothingLost /\ primary # NoPod /\ pc \in {"idle", "collect", "promote"} =>
          (gOn \/ active \/ Unfed(db, primary) = {})

\* The same of the nodes that the known primary has not registered.
RegInv ==
    /\ pc \in {"add", "setrss"} /\ tgt # NoPod /\ clean =>
          Missed(db, tgt) \subseteq missing
    /\ NothingLost /\ primary # NoPod /\ pc \in {"idle", "collect", "promote"} =>
          (gOn \/ active \/ Missed(db, primary) = {})

\* A kind of fault that does not happen has not happened yet, and its budget
\* is not used.
Spent == \A k \in FaultKinds : MaxFaults[k] = 0 => budget[k] = 0

Tracked == TypeOK /\ HandlerInv /\ Shaped(db) /\ Spent /\ LoneInv /\ TrackInv

\* Whether isGbase8sClusterNormal can be trusted (NormalIsComplete).
OneHalf     == MaxFaults["restart"] = 0 \/ Cardinality(Pods) <= 3

\* What is shown of every step.
TrackedNext == LoneInv' /\ TrackInv' /\ (PrimaryInv /\ RegInv => RegInv')

LEMMA TrackInit == Init => LoneInv /\ TrackInv /\ RegInv /\ Spent
<1> SUFFICES ASSUME Init PROVE LoneInv /\ TrackInv /\ RegInv /\ Spent
  OBVIOUS
<1>1. Leaders(db) = {}
  BY DEF Init, Leaders, Standard, Primary
<1> QED
  BY <1>1 DEF Init, LoneInv, TrackInv, RegInv, Spent

LEMMA SpentStep == TypeOK /\ Spent /\ [Next]_vars => Spent'
<1> SUFFICES ASSUME TypeOK, Spent, [Next]_vars,
                    NEW k \in FaultKinds, MaxFaults[k] = 0
             PROVE  budget'[k] = 0
  BY DEF Spent
<1>1. budget'[k] <= 0
  BY BudgetStep DEF Spent
<1>2. budget' \in [FaultKinds -> Nat]
  BY TypeStep DEF TypeOK
<1> QED
  BY <1>1, <1>2

----------------------------------------------------------------------------
(* Who is fed and known after a command.                                   *)

LEMMA AllSame ==
    ASSUME NEW d, NEW e, KeepsData(d, e)
    PROVE  /\ Leaders(e) = Leaders(d)
           /\ \A p \in Pods : /\ Unfed(e, p) = Unfed(d, p)
                              /\ Missed(e, p) = Missed(d, p)
BY DEF KeepsData, Leaders, Unfed, Missed

LEMMA AfterSetRss ==
    ASSUME NEW d \in [Pods -> NodeState], NEW q \in Pods,
           NEW p \in Pods \cup {NoPod}
    PROVE  /\ Leaders(SetRss(d, q, p)) = Leaders(d) \ {q}
           /\ Unfed(SetRss(d, q, p), p) = Unfed(d, p) \ {q}
           /\ q # p => Missed(SetRss(d, q, p), p) = Missed(d, p)
<1> DEFINE e == SetRss(d, q, p)
<1>1. /\ e[q].type = RSS /\ e[q].src = p
      /\ \A r \in Pods \ {q} : e[r] = d[r]
  BY DEF SetRss, NodeState
<1>2. Leaders(e) = Leaders(d) \ {q}
  BY <1>1 DEF Leaders, Primary, RSS
<1>3. Unfed(e, p) = Unfed(d, p) \ {q}
  BY <1>1 DEF Unfed
<1>4. ASSUME q # p PROVE Missed(e, p) = Missed(d, p)
  BY <1>1, <1>4 DEF Missed, SetRss
<1> QED
  BY <1>2, <1>3, <1>4

LEMMA AfterAddRss ==
    ASSUME NEW d \in [Pods -> NodeState], NEW p \in Pods,
           NEW S \in SUBSET Pods
    PROVE  /\ Leaders(AddRss(d, p, S)) = Leaders(d) \cup {p}
           /\ Unfed(AddRss(d, p, S), p) = Unfed(d, p)
           /\ Missed(AddRss(d, p, S), p) = Missed(d, p) \ S
<1> DEFINE e == AddRss(d, p, S)
<1>1. /\ e[p].type = Primary /\ e[p].subs = d[p].subs \cup S
      /\ \A r \in Pods \ {p} : e[r] = d[r]
  BY AddEffect
<1> QED
  BY <1>1 DEF Leaders, Unfed, Missed

\* Steps that leave the data and the handler alone.
LEMMA OtherStep ==
    ASSUME TypeOK, LoneInv, TrackInv, primary' = primary, KeepsData(db, db'),
           UNCHANGED <<pc, todo, tgt, missing, clean>>,
           \/ gOn' = gOn /\ (active => active')
           \/ gOn'
    PROVE  TrackedNext
<1>1. /\ Leaders(db') = Leaders(db)
      /\ \A p \in Pods : /\ Unfed(db', p) = Unfed(db, p)
                         /\ Missed(db', p) = Missed(db, p)
  BY AllSame
<1>2. /\ (gOn \/ active) => (gOn' \/ active')
      /\ gOn => gOn'
  OBVIOUS
<1>3. Leaders(db) \subseteq Pods /\ primary \in Pods \cup {NoPod}
      /\ tgt \in Pods \cup {NoPod}
  BY DEF Leaders, TypeOK
<1>4. LoneInv'
  BY <1>1 DEF LoneInv
<1>5. TrackInv'
  BY <1>1, <1>2, <1>3 DEF TrackInv
<1>6. RegInv => RegInv'
  BY <1>1, <1>2, <1>3 DEF RegInv
<1> QED
  BY <1>4, <1>5, <1>6 DEF TrackedNext

----------------------------------------------------------------------------
(* What the answers of all pods tell.                                      *)

\* A cluster that passes for normal is complete when only one node takes
\* itself for the primary. It need not be with two that have a node linked to
\* each; that takes four pods.
LEMMA TwoHalves ==
    ASSUME NEW d, NEW p \in Pods, NEW r \in Pods, NEW q1 \in Pods,
           NEW q2 \in Pods, Linked(d, q1, p), Linked(d, q2, r), p # r
    PROVE  ~(Cardinality(Pods) <= 3)
<1>1. p # q1 /\ p # q2 /\ r # q1 /\ r # q2 /\ q1 # q2
  BY DEF Linked, Primary, RSS
<1>2. IsFiniteSet({}) /\ Cardinality({}) = 0
  BY FS_EmptySet
<1>3. IsFiniteSet({p}) /\ Cardinality({p}) = 1
  BY FS_Singleton
<1>4. IsFiniteSet({p, r}) /\ Cardinality({p, r}) = 2
  <2>1. {p, r} = {p} \cup {r}
    OBVIOUS
  <2> QED
    BY <1>3, <2>1, FS_AddElement
<1>5. IsFiniteSet({p, r, q1}) /\ Cardinality({p, r, q1}) = 3
  <2>1. {p, r, q1} = {p, r} \cup {q1} /\ q1 \notin {p, r}
    BY <1>1
  <2>2. /\ IsFiniteSet({p, r} \cup {q1})
        /\ Cardinality({p, r} \cup {q1})
              = IF q1 \in {p, r} THEN Cardinality({p, r}) ELSE Cardinality({p, r}) + 1
    BY <1>4, FS_AddElement
  <2> QED
    BY <1>4, <2>1, <2>2
<1>6. Cardinality({p, r, q1, q2}) = 4
  <2>1. {p, r, q1, q2} = {p, r, q1} \cup {q2} /\ q2 \notin {p, r, q1}
    BY <1>1
  <2>2. /\ IsFiniteSet({p, r, q1} \cup {q2})
        /\ Cardinality({p, r, q1} \cup {q2})
              = IF q2 \in {p, r, q1} THEN Cardinality({p, r, q1}) ELSE Cardinality({p, r, q1}) + 1
    BY <1>5, FS_AddElement
  <2> QED
    BY <1>5, <2>1, <2>2
<1>7. /\ Cardinality({p, r, q1, q2}) <= Cardinality(Pods)
      /\ Cardinality(Pods) \in Nat
  <2>1. {p, r, q1, q2} \subseteq Pods
    OBVIOUS
  <2> QED
    BY <2>1, ConstantFacts, FS_Subset, FS_CardinalityType
<1> QED
  BY <1>6, <1>7

\* isGbase8sClusterNormal looks for "Connected" in every answer and never asks
\* to whom. That is enough when all pods are on line and no two take themselves
\* for the primary, or there are at most three pods: one primary then feeds and
\* knows all the others, so ending the update without naming it is right. With
\* four pods, two primaries with a replica each pass as well.
THEOREM NormalIsComplete ==
    ASSUME NEW d \in [Pods -> NodeState],
           \A n \in RssStatus(d, Pods) : ~NeedsWait(n),
           IsGbase8sClusterNormal(RssStatus(d, Pods)),
           (\A p, q \in Leaders(d) : p = q) \/ Cardinality(Pods) <= 3
    PROVE  \E p \in Leaders(d) : Unfed(d, p) = {} /\ Missed(d, p) = {}
<1>1. ASSUME NEW p \in Pods PROVE ShowsConnected(d, p)
  <2>1. ParseNodeInfo(d, p) \in RssStatus(d, Pods)
    BY DEF RssStatus
  <2>2. ParseNodeInfo(d, p).connected
    BY <2>1 DEF IsGbase8sClusterNormal
  <2> QED
    BY <2>2 DEF ParseNodeInfo
<1>2. ASSUME NEW q \in Pods \ Leaders(d)
      PROVE  \E r \in Leaders(d) : Linked(d, q, r)
  BY <1>1 DEF ShowsConnected, Leaders, Linked
<1>3. ASSUME NEW r \in Leaders(d) PROVE \E q \in Pods : Linked(d, q, r)
  <2>1. r \in Pods /\ d[r].type = Primary /\ d[r].subs \subseteq Pods
    BY DEF Leaders, NodeState
  <2> QED
    BY <1>1, <2>1 DEF ShowsConnected, Primary, RSS
<1>4. PICK p \in Leaders(d) : TRUE
  <2>1. Pods # {}
    BY ThreadAssumption, FS_EmptySet
  <2> QED
    BY <1>2, <2>1
<1>5. ASSUME NEW r \in Leaders(d) PROVE r = p
  <2> SUFFICES ASSUME r # p PROVE FALSE
    OBVIOUS
  <2>1. PICK q1 \in Pods : Linked(d, q1, p)
    BY <1>3
  <2>2. PICK q2 \in Pods : Linked(d, q2, r)
    BY <1>3
  <2>3. p \in Pods /\ r \in Pods
    BY DEF Leaders
  <2> QED
    BY <2>1, <2>2, <2>3, TwoHalves
<1>6. \A q \in Pods \ {p} : Linked(d, q, p)
  BY <1>2, <1>5
<1> QED
  BY <1>6 DEF Linked, Unfed, Missed

\* The answers of all pods name every node that p does not feed.
LEMMA UnfedHaveNoSource ==
    ASSUME NEW d \in [Pods -> NodeState], Shaped(d), NEW p \in Pods
    PROVE  Unfed(d, p) \subseteq WrongSource(RssStatus(d, Pods), p)
<1> SUFFICES ASSUME NEW q \in Unfed(d, p)
             PROVE  q \in WrongSource(RssStatus(d, Pods), p)
  OBVIOUS
<1>1. q \in Pods /\ q # p /\ p # NoPod
  BY ConstantFacts DEF Unfed
<1>2. d[q].src # p
  BY <1>1 DEF Unfed, Shaped
<1>3. ParseNodeInfo(d, q).source # p
  BY <1>1, <1>2, ParsedFields
<1>4. ParseNodeInfo(d, q).pod = q /\ ParseNodeInfo(d, q) \in RssStatus(d, Pods)
  BY <1>1, ParsedFields DEF RssStatus
<1> QED
  BY <1>1, <1>3, <1>4 DEF WrongSource

\* They name every node that is not registered on p.
LEMMA MissedAreUnregistered ==
    ASSUME NEW d \in [Pods -> NodeState], NEW p \in Pods,
           NEW s \in SUBSET d[p].subs
    PROVE  Missed(d, p) \subseteq Unregistered(RssStatus(d, Pods), p, s)
<1>1. {n.pod : n \in RssStatus(d, Pods)} = Pods
  BY ParsedFields DEF RssStatus
<1> QED
  BY <1>1 DEF Missed, Unregistered

\* A chosen primary's list is the one it has, when every pod is on line, and
\* the only node that takes itself for the primary is the one that is chosen.
LEMMA ChosenIsLeader ==
    ASSUME NEW d \in [Pods -> NodeState],
           \A n \in RssStatus(d, Pods) : ~NeedsWait(n),
           NEW n \in RealPrimaries(RssStatus(d, Pods))
    PROVE  /\ n.pod \in Pods /\ n.sub = d[n.pod].subs
           /\ Leaders(d) # {} => n.pod \in Leaders(d)
<1> DEFINE nodes == RssStatus(d, Pods)
<1>1. ASSUME NEW p \in Pods
      PROVE  /\ Online(d, p)
             /\ ParseNodeInfo(d, p).type = d[p].type
             /\ ParseNodeInfo(d, p).sub = d[p].subs
  <2>1. ParseNodeInfo(d, p) \in nodes
    BY DEF RssStatus
  <2>2. ParseNodeInfo(d, p).status = "online"
    BY <2>1 DEF NeedsWait
  <2>3. Online(d, p)
    BY <2>2 DEF ParseNodeInfo, Online
  <2> QED
    BY <2>3 DEF ParseNodeInfo
<1>2. n \in nodes
  BY DEF RealPrimaries, Primaries
<1>3. PICK q \in Pods : n = ParseNodeInfo(d, q)
  BY <1>2 DEF RssStatus
<1>4. n.pod = q /\ n.sub = d[q].subs /\ n.type = d[q].type
  BY <1>1, <1>3, ParsedFields
<1>5. ASSUME NEW p \in Leaders(d) PROVE n.pod \in Leaders(d)
  <2>1. p \in Pods /\ d[p].type = Primary
    BY DEF Leaders
  <2>2. ParseNodeInfo(d, p) \in Primaries(nodes) \ Standards(nodes)
    BY <1>1, <2>1 DEF Primaries, Standards, RssStatus
  <2>3. n \in Primaries(nodes)
    BY <2>2 DEF RealPrimaries, Primaries, Standards
  <2> QED
    BY <1>4, <2>3 DEF Primaries, Leaders
<1> QED
  BY <1>3, <1>4, <1>5

----------------------------------------------------------------------------
(* Every step keeps track of the nodes.                                    *)

LEMMA NoSpending ==
    ASSUME Spent, NEW k \in FaultKinds, MaxFaults[k] = 0 PROVE ~Spend(k, 1)
BY DEF Spent, Spend

LEMMA TrackedFacts ==
    ASSUME Tracked
    PROVE  /\ db \in [Pods -> NodeState] /\ NoPod \notin Pods
           /\ primary \in Pods \cup {NoPod} /\ tgt \in Pods \cup {NoPod}
           /\ sub \in SUBSET Pods /\ todo \in SUBSET Pods
           /\ missing \in SUBSET Pods /\ listed \in SUBSET Pods
           /\ Leaders(db) \subseteq Pods
           /\ TypeOK /\ HandlerInv /\ Shaped(db) /\ LoneInv /\ TrackInv
BY ConstantFacts DEF Tracked, TypeOK, Leaders

LEMMA PromoteTracked ==
    ASSUME Tracked, NEW v \in Pods, Promote(v)
    PROVE  TrackedNext
<1>1. primary \in Pods /\ pc = "promote" /\ tgt = NoPod /\ v # NoPod
  BY TrackedFacts DEF HandlerInv, Promote, TrackInv
<1>2. CASE PromoteLost(v)
  <2>1. ~NothingLost
    BY <1>2, NoSpending DEF PromoteLost, Tracked, NothingLost, FaultKinds
  <2>2. primary' = primary /\ tgt' = tgt /\ pc' \in {"idle", "promote"}
    BY <1>2, Promote(v) DEF PromoteLost, NextCandidate, Promote
  <2> QED
    BY <1>1, <2>1, <2>2, TrackedFacts DEF TrackedNext, LoneInv, TrackInv, RegInv
<1>3. CASE PromoteSkipped(v)
  <2>1. /\ db' = db /\ primary' = primary /\ active' = active /\ gOn' = gOn
        /\ tgt' = tgt /\ pc' \in {"idle", "promote"}
    BY <1>3, Promote(v) DEF PromoteSkipped, NextCandidate, Promote
  <2> QED
    BY <1>1, <2>1, TrackedFacts DEF TrackedNext, LoneInv, TrackInv, RegInv
<1>4. CASE Promoted(v) \/ PromoteStderr(v)
  <2>1. primary' = v /\ pc' = "rejoin"
    BY <1>4 DEF Promoted, PromoteStderr, AdoptPrimary
  <2> QED
    BY <1>1, <2>1 DEF TrackedNext, LoneInv, TrackInv, RegInv
<1> QED
  BY <1>2, <1>3, <1>4 DEF Promote

LEMMA RejoinTracked ==
    ASSUME Tracked, NEW q \in Pods, Rejoin(q) PROVE TrackedNext
<1>1. /\ primary' = primary /\ pc = "rejoin" /\ pc' = pc
      /\ db' = db \/ db' = SetRss(db, q, tgt)
  BY DEF Rejoin, RestoreWorks
<1>2. Leaders(db') \subseteq Leaders(db)
  BY <1>1, AfterSetRss, TrackedFacts
<1> QED
  BY <1>1, <1>2, TrackedFacts DEF TrackedNext, LoneInv, TrackInv, RegInv

LEMMA RejoinDoneTracked == ASSUME Tracked, RejoinDone PROVE TrackedNext
<1>1. /\ db' = db /\ primary' = primary /\ active' = TRUE /\ pc' = "idle"
      /\ tgt' = NoPod
  BY DEF RejoinDone, env
<1> QED
  BY <1>1, TrackedFacts DEF TrackedNext, LoneInv, TrackInv, RegInv

LEMMA UpdateAddTracked ==
    ASSUME Tracked, UpdateAdd PROVE TrackedNext
<1>1. /\ primary' = primary /\ pc = "add" /\ gOn' = gOn /\ active' = active
      /\ gOn /\ tgt \in Pods
  BY TrackedFacts DEF UpdateAdd, timers, TrackInv
<1>2. CASE LeaveUpdate
  <2>1. pc' = "idle" /\ tgt' = NoPod
    BY <1>2 DEF LeaveUpdate
  <2>2. Leaders(db') \subseteq Leaders(db) \cup {tgt}
    <3>1. db' = db \/ db' = AddRss(db, tgt, missing)
      BY DEF UpdateAdd
    <3> QED
      BY <1>1, <3>1, AfterAddRss, TrackedFacts
  <2> QED
    BY <1>1, <2>1, <2>2, TrackedFacts DEF TrackedNext, LoneInv, TrackInv, RegInv
<1>3. CASE ~LeaveUpdate
  <2>2. /\ db' = AddRss(db, tgt, missing) /\ missing' = {} /\ pc' = "setrss"
        /\ UNCHANGED <<tgt, todo, clean>>
    BY <1>3 DEF UpdateAdd
  <2>3. /\ Leaders(db') = Leaders(db) \cup {tgt}
        /\ Unfed(db', tgt) = Unfed(db, tgt)
        /\ Missed(db', tgt) = Missed(db, tgt) \ missing
    BY <1>1, <2>2, AfterAddRss, TrackedFacts
  <2> QED
    BY <1>1, <2>2, <2>3, TrackedFacts DEF TrackedNext, LoneInv, TrackInv, RegInv
<1> QED
  BY <1>2, <1>3

LEMMA UpdateSetRssTracked ==
    ASSUME Tracked, NEW q \in Pods, UpdateSetRss(q)
    PROVE  TrackedNext
<1>1. /\ primary' = primary /\ pc = "setrss" /\ q \in todo
      /\ todo' = todo \ {q} /\ UNCHANGED <<pc, tgt, missing, gOn, active>>
  BY DEF UpdateSetRss, timers
<1>2. tgt \in Pods
  BY <1>1, TrackedFacts DEF TrackInv
<1>3. \/ clean' = FALSE /\ (db' = db \/ db' = SetRss(db, q, tgt))
      \/ clean' = clean /\ db' = SetRss(db, q, tgt)
  BY DEF UpdateSetRss, RestoreWorks
<1>4. Leaders(db') \subseteq Leaders(db)
  BY <1>2, <1>3, AfterSetRss, TrackedFacts
<1>5. LoneInv'
  BY <1>1, <1>4, TrackedFacts DEF LoneInv
<1>6. clean' => /\ clean /\ q # tgt
                /\ Unfed(db', tgt) = Unfed(db, tgt) \ {q}
                /\ Missed(db', tgt) = Missed(db, tgt)
  <2> SUFFICES ASSUME clean'
               PROVE  /\ clean /\ q # tgt
                      /\ Unfed(db', tgt) = Unfed(db, tgt) \ {q}
                      /\ Missed(db', tgt) = Missed(db, tgt)
    OBVIOUS
  <2>1. clean' = clean /\ db' = SetRss(db, q, tgt)
    BY <1>3
  <2>2. q # tgt
    BY <1>1, TrackedFacts DEF TrackInv
  <2> QED
    BY <1>2, <2>1, <2>2, AfterSetRss, TrackedFacts
<1>7. tgt # NoPod /\ tgt \notin todo'
  BY <1>1, <1>2, TrackedFacts DEF TrackInv
<1>8. TrackInv'
  BY <1>1, <1>6, <1>7, TrackedFacts DEF TrackInv
<1>9. RegInv => RegInv'
  BY <1>1, <1>6, <1>7, TrackedFacts DEF RegInv
<1> QED
  BY <1>5, <1>8, <1>9 DEF TrackedNext

LEMMA UpdateWaitsTracked == ASSUME Tracked, UpdateWaits PROVE TrackedNext
<1>1. /\ db' = db /\ primary' = primary /\ gOn' = gOn /\ gOn
      /\ pc' = "idle" /\ tgt' = NoPod
  BY TrackedFacts
     DEF UpdateWaits, LeaveUpdate, env, timers, TrackInv
<1> QED
  BY <1>1, TrackedFacts DEF TrackedNext, LoneInv, TrackInv, RegInv

\* The update ends with nil: some node feeds and knows all others, and it is the
\* one startDetecting finds.
LEMMA DoneIsLinked ==
    ASSUME Tracked, UpdateDone
    PROVE  \E p \in Pods : /\ Unfed(db, p) = {}
                           /\ primary = NoPod \/ RegInv => Missed(db, p) = {}
                           /\ primary' \in {NoPod, p}
<1>1. pc = "setrss" /\ todo = {} /\ clean
  BY DEF UpdateDone
<1>2. PICK p \in Pods : /\ Unfed(db, p) = {}
                        /\ primary = NoPod \/ RegInv => Missed(db, p) = {}
                        /\ primary # NoPod => p = primary
  <2>1. CASE tgt = NoPod
    <3>1. primary = NoPod
      BY <1>1, <2>1, TrackedFacts DEF HandlerInv
    <3>2. PICK p \in Leaders(db) : Unfed(db, p) = {} /\ Missed(db, p) = {}
      BY <1>1, <2>1, TrackedFacts DEF TrackInv
    <3> QED
      BY <3>1, <3>2 DEF Leaders
  <2>2. CASE tgt # NoPod
    <3>1. tgt \in Pods /\ (primary # NoPod => tgt = primary)
      BY <1>1, <2>2, TrackedFacts DEF HandlerInv
    <3>2. /\ Unfed(db, tgt) = {} /\ missing = {}
          /\ primary = NoPod => Missed(db, tgt) \subseteq missing
      BY <1>1, <2>2, TrackedFacts DEF TrackInv
    <3>3. RegInv => Missed(db, tgt) \subseteq missing
      BY <1>1, <2>2 DEF RegInv
    <3> QED
      BY <3>1, <3>2, <3>3
  <2> QED
    BY <2>1, <2>2
<1>3. primary' \in {NoPod, p}
  <2>1. CASE primary # NoPod
    BY <1>2, <2>1, UpdateDone DEF UpdateDone, StartDetecting
  <2>2. CASE primary = NoPod
    <3>1. primary' = NoPod \/ \E n \in FoundPrimaries : primary' = n.pod
      BY <2>2, UpdateDone DEF UpdateDone, StartDetecting
    <3>2. ASSUME NEW n \in FoundPrimaries PROVE n.pod = p
      <4>1. n.pod \in Pods /\ db[n.pod].type = Primary
        BY FoundTyped, TrackedFacts
      <4> QED
        BY <1>2, <4>1 DEF Unfed, Primary, RSS
    <3> QED
      BY <3>1, <3>2
  <2> QED
    BY <2>1, <2>2
<1> QED
  BY <1>2, <1>3

LEMMA UpdateDoneTracked == ASSUME Tracked, UpdateDone PROVE TrackedNext
<1>1. db' = db /\ pc' = "idle" /\ tgt' = NoPod
  BY DEF UpdateDone, LeaveUpdate
<1>2. PICK p \in Pods : /\ Unfed(db, p) = {}
                        /\ primary = NoPod \/ RegInv => Missed(db, p) = {}
                        /\ primary' \in {NoPod, p}
  BY DoneIsLinked
<1>3. primary' = NoPod => primary = NoPod
  BY UpdateDone DEF UpdateDone, StartDetecting
<1> QED
  BY <1>1, <1>2, <1>3, TrackedFacts
     DEF TrackedNext, LoneInv, TrackInv, RegInv

\* An update over the answers of all pods has before it whatever p lacks.
LEMMA StartTracked ==
    ASSUME Tracked, NEW A \in SUBSET Pods, NEW p \in Pods, NEW s \in SUBSET Pods,
           StartUpdate(RssStatus(db, A), p, s, A = Pods)
    PROVE  /\ tgt' = p /\ pc' \in {"add", "setrss"} /\ p \notin todo'
           /\ pc' = "setrss" => missing' = {}
           /\ clean' => Unfed(db, p) \subseteq todo'
           /\ clean' /\ s \subseteq db[p].subs => Missed(db, p) \subseteq missing'
<1>1. /\ tgt' = p /\ clean' = (A = Pods)
      /\ missing' = Unregistered(RssStatus(db, A), p, s)
      /\ todo' = WrongSource(RssStatus(db, A), p)
      /\ pc' = IF missing' = {} THEN "setrss" ELSE "add"
  BY DEF StartUpdate
<1>2. p \notin todo'
  BY <1>1 DEF WrongSource
<1>3. clean' => Unfed(db, p) \subseteq todo'
  BY <1>1, UnfedHaveNoSource, TrackedFacts
<1>4. clean' /\ s \subseteq db[p].subs => Missed(db, p) \subseteq missing'
  BY <1>1, MissedAreUnregistered, TrackedFacts
<1> QED
  BY <1>1, <1>2, <1>3, <1>4

LEMMA UpdateKnownTracked == ASSUME Tracked, UpdateKnown PROVE TrackedNext
<1>1. /\ primary' = primary /\ primary \in Pods /\ db' = db /\ gOn /\ gOn' = gOn
  BY TrackedFacts DEF UpdateKnown, UpdateTick, timers
<1>2. PICK A \in SUBSET Pods \ {{}} :
        StartUpdate(RssStatus(db, A), primary, sub, A = Pods)
  BY Zenon DEF UpdateKnown
<1>3. /\ tgt' = primary /\ pc' \in {"add", "setrss"} /\ primary \notin todo'
      /\ pc' = "setrss" => missing' = {}
      /\ clean' => Unfed(db, primary) \subseteq todo'
      /\ clean' /\ sub \subseteq db[primary].subs =>
            Missed(db, primary) \subseteq missing'
  BY <1>1, <1>2, StartTracked, TrackedFacts
<1>4. primary # NoPod
  BY <1>1, ConstantFacts
<1> QED
  BY <1>1, <1>3, <1>4 DEF TrackedNext, LoneInv, TrackInv, RegInv, PrimaryInv

LEMMA UpdateUnknownTracked ==
    ASSUME Tracked, OneHalf, UpdateUnknown PROVE TrackedNext
<1> DEFINE nodes == RssStatus(db, Pods)
<1>1. /\ primary' = primary /\ primary = NoPod /\ db' = db /\ gOn /\ gOn' = gOn
      /\ pc = "idle" /\ tgt = NoPod /\ \A n \in nodes : ~NeedsWait(n)
  BY TrackedFacts DEF UpdateUnknown, UpdateTick, timers, env, TrackInv
<1>2. CASE IsGbase8sClusterNormal(nodes)
  <2>1. /\ pc' = "setrss" /\ todo' = {} /\ UNCHANGED <<tgt, missing>>
    BY <1>2 DEF UpdateUnknown
  <2>2. (\A p, q \in Leaders(db) : p = q) \/ Cardinality(Pods) <= 3
    BY <1>1, TrackedFacts DEF OneHalf, LoneInv
  <2>3. \E p \in Leaders(db) : Unfed(db, p) = {} /\ Missed(db, p) = {}
    BY <1>1, <1>2, <2>2, NormalIsComplete, TrackedFacts
  <2> QED
    BY <1>1, <2>1, <2>3, TrackedFacts
       DEF TrackedNext, LoneInv, TrackInv, RegInv
<1>3. CASE ~IsGbase8sClusterNormal(nodes)
  <2>1. PICK n \in RealPrimaries(nodes) : StartUpdate(nodes, n.pod, n.sub, TRUE)
    BY <1>3, Zenon DEF UpdateUnknown
  <2>2. /\ n.pod \in Pods /\ n.sub = db[n.pod].subs
        /\ Leaders(db) # {} => n.pod \in Leaders(db)
    BY <1>1, ChosenIsLeader, TrackedFacts
  <2>3. n.sub \in SUBSET Pods
    BY <2>2, TrackedFacts DEF NodeState
  <2>4. /\ tgt' = n.pod /\ pc' \in {"add", "setrss"} /\ n.pod \notin todo'
        /\ pc' = "setrss" => missing' = {}
        /\ clean' => Unfed(db, n.pod) \subseteq todo'
        /\ clean' => Missed(db, n.pod) \subseteq missing'
    <3>1. StartUpdate(nodes, n.pod, n.sub, Pods = Pods)
      BY <2>1
    <3> QED
      BY <2>2, <2>3, <3>1, StartTracked
  <2>5. n.pod # NoPod
    BY <2>2, ConstantFacts
  <2> QED
    BY <1>1, <2>2, <2>4, <2>5, TrackedFacts
       DEF TrackedNext, LoneInv, TrackInv, RegInv
<1> QED
  BY <1>2, <1>3

LEMMA TrackStep ==
    ASSUME Tracked, OneHalf, [Next]_vars PROVE TrackedNext
<1>1. ASSUME NEW v \in Pods, Promote(v) PROVE TrackedNext
  BY <1>1, PromoteTracked
<1>2. ASSUME NEW q \in Pods, Rejoin(q) \/ UpdateSetRss(q) PROVE TrackedNext
  BY <1>2, RejoinTracked, UpdateSetRssTracked
<1>3. CASE RejoinDone \/ UpdateAdd \/ UpdateWaits \/ UpdateDone
  BY <1>3, RejoinDoneTracked, UpdateAddTracked, UpdateWaitsTracked,
     UpdateDoneTracked
<1>4. CASE UpdateKnown \/ UpdateUnknown
  BY <1>4, UpdateKnownTracked, UpdateUnknownTracked
<1>5. CASE ProbeTick \/ Collect
  <2>1. /\ db' = db /\ primary' = primary /\ gOn' = gOn /\ active' = active
        /\ tgt' = tgt
        /\ pc \in {"idle", "collect"} /\ pc' \in {"idle", "collect", "promote"}
    BY <1>5 DEF ProbeTick, Collect, timers, locals
  <2> QED
    BY <2>1, TrackedFacts DEF TrackedNext, LoneInv, TrackInv, RegInv
<1>6. CASE UpdateFails
  <2>1. Spend("api", 1) => ~NothingLost
    BY NoSpending DEF Tracked, NothingLost, FaultKinds
  <2>2. /\ db' = db /\ (~NothingLost \/ primary = NoPod) /\ primary' = primary
        /\ pc = "idle" /\ pc' = pc /\ tgt' = tgt
    BY <1>6, <2>1 DEF UpdateFails, UpdateTick, locals
  <2> QED
    BY <2>2, TrackedFacts DEF TrackedNext, LoneInv, TrackInv, RegInv
<1>7. CASE OperatorRestart
  <2>1. MaxFaults["restart"] # 0
    BY <1>7, NoSpending DEF OperatorRestart, Tracked, FaultKinds
  <2>2. pc' = "idle" /\ tgt' = NoPod /\ primary' = NoPod
    BY <1>7 DEF OperatorRestart
  <2> QED
    BY <2>1, <2>2 DEF TrackedNext, LoneInv, TrackInv, RegInv
<1>8. CASE \/ CmTick \/ TakeActive \/ CfgPodList \/ CfgDetecting
           \/ Reconcile \/ SpecChange \/ UNCHANGED vars
  <2>1. /\ db' = db /\ primary' = primary
        /\ UNCHANGED <<pc, todo, tgt, missing, clean>>
    BY <1>8
       DEF CmTick, TakeActive, CfgPodList, CfgDetecting, Reconcile,
           ReconcileList, ReconcileBuild, ReconcileSignals,
           ReconcileBuildFails, SpecChange, env, locals, thread, vars
  <2>2. \/ gOn' = gOn /\ (active => active')
        \/ gOn'
    BY <1>8
       DEF CmTick, TakeActive, CfgPodList, CfgDetecting, Reconcile,
           ReconcileList, ReconcileBuild, ReconcileSignals,
           ReconcileBuildFails, SpecChange, timers, thread, vars
  <2> QED
    BY <2>1, <2>2, OtherStep, TrackedFacts DEF KeepsData
<1>9. ASSUME NEW p \in Pods,
             Crash(p) \/ Recover(p) \/ Boot(p) \/ Evict(p) \/ PodCreated(p)
      PROVE  TrackedNext
  <2>1. \E t \in {"down", "starting", "online"} : SetStatus(p, t)
    BY <1>9 DEF Crash, Recover, Boot, Evict, PodCreated
  <2>2. KeepsData(db, db')
    BY <2>1, StatusEffect, TrackedFacts DEF KeepsData
  <2>3. /\ primary' = primary /\ UNCHANGED <<pc, todo, tgt, missing, clean>>
        /\ gOn' = gOn /\ active' = active
    BY <1>9
       DEF Crash, Recover, Boot, Evict, PodCreated, thread, locals
  <2> QED
    BY <2>2, <2>3, OtherStep, TrackedFacts
<1> QED
  BY <1>1, <1>2, <1>3, <1>4, <1>5, <1>6, <1>7, <1>8, <1>9
     DEF Next, Thread, Handler, Reconcile, Environment

LEMMA TrackedInvariant ==
    ASSUME OneHalf
    PROVE  Spec => []Tracked
<1>1. Init => Tracked
  BY InitTyped, HandlerInit, ShapeInit, TrackInit DEF Tracked
<1>2. Tracked /\ [Next]_vars => Tracked'
  <2> SUFFICES ASSUME Tracked, [Next]_vars PROVE Tracked'
    OBVIOUS
  <2>1. TypeOK' /\ HandlerInv'
    BY TypeStep, HandlerStep, TrackedFacts
  <2>2. Shaped(db)'
    BY ShapeStep, TrackedFacts DEF Shaped
  <2>3. Spent'
    BY SpentStep DEF Tracked
  <2>4. LoneInv' /\ TrackInv'
    BY TrackStep DEF TrackedNext
  <2> QED
    BY <2>1, <2>2, <2>3, <2>4 DEF Tracked
<1> QED
  BY <1>1, <1>2, PTL DEF Spec

\* A deposed primary that comes back does not stay unnoticed: as long as a node
\* other than primaryPod takes itself for the primary, procUpdateGbase8sCluster
\* is running or going to run, whatever the failover commands print. The
\* premises are needed: a lost answer to the failover command leaves a second
\* primary without a signal, an error of the API server stops the ticker
\* (clusterThread), and a replaced operator of four pods or more may find two
\* primaries with a connected secondary each and take the cluster for normal
\* (isGbase8sClusterNormal).
THEOREM DeposedIsTracked ==
    ASSUME MaxFaults["lost"] = 0, MaxFaults["api"] = 0,
           MaxFaults["restart"] = 0 \/ Cardinality(Pods) <= 3
    PROVE  Spec => []DeposedTracked
<1> USE DEF NothingLost, OneHalf
<1>1. Tracked => DeposedTracked
  <2> SUFFICES ASSUME Tracked, NEW p \in Pods \ {primary},
                      primary # NoPod, db[p].type = Primary, pc = "idle"
               PROVE  gOn \/ active
    BY DEF DeposedTracked
  <2>1. p \in Unfed(db, primary)
    BY DEF Unfed, Primary, RSS
  <2> QED
    BY <2>1, TrackedFacts DEF TrackInv
<1> QED
  BY <1>1, TrackedInvariant, PTL

\* No node is forgotten: as long as one does not follow primaryPod, or is not
\* registered there, procUpdateGbase8sCluster is running or going to run. A
\* failover command that fails on its node although the call succeeds breaks
\* this: SubStatus then holds names that addSecondary skips.
THEOREM StraysAreTracked ==
    ASSUME MaxFaults["stderr"] = 0, MaxFaults["lost"] = 0,
           MaxFaults["api"] = 0,
           MaxFaults["restart"] = 0 \/ Cardinality(Pods) <= 3
    PROVE  Spec => []StrayTracked
<1> USE DEF NothingLost, OneHalf
<1>1. Init => RegInv
  BY TrackInit
<1>2. Tracked /\ SafeInv /\ RegInv /\ [Next]_vars => RegInv'
  BY TrackStep DEF TrackedNext, SafeInv
<1>3. Tracked /\ RegInv => StrayTracked
  <2> SUFFICES ASSUME Tracked, RegInv, NEW q \in Pods \ {primary},
                      primary # NoPod, ~ReplicaOf(q, primary), pc = "idle"
               PROVE  gOn \/ active
    BY DEF StrayTracked
  <2>1. q \in Unfed(db, primary) \/ q \in Missed(db, primary)
    BY DEF Unfed, Missed, ReplicaOf
  <2> QED
    BY <2>1, TrackedFacts DEF TrackInv, RegInv
<1> QED
  BY <1>1, <1>2, <1>3, TrackedInvariant, SafeInvariant, PTL
     DEF Spec

\* What becomes of primaryPod is decided in three places.
LEMMA PrimaryChanges ==
    ASSUME [Next]_vars, primary' # primary
    PROVE  UpdateDone \/ OperatorRestart \/ \E v \in Pods : Promote(v)
<1>1. ~(ProbeTick \/ UpdateFails \/ UpdateKnown \/ UpdateUnknown \/ CmTick
          \/ TakeActive \/ CfgPodList \/ CfgDetecting \/ Collect \/ RejoinDone
          \/ UpdateAdd \/ UpdateWaits)
  BY DEF ProbeTick, UpdateFails, UpdateKnown, UpdateUnknown, CmTick, TakeActive,
     CfgPodList, CfgDetecting, Collect, RejoinDone, UpdateAdd, UpdateWaits
<1>2. ~\E q \in Pods : Rejoin(q) \/ UpdateSetRss(q)
  BY DEF Rejoin, UpdateSetRss
<1>3. ~(Reconcile \/ SpecChange \/ UNCHANGED vars)
  BY DEF Reconcile, ReconcileList, ReconcileBuild, ReconcileSignals,
         ReconcileBuildFails, SpecChange, thread, vars
<1>4. ~\E p \in Pods : Crash(p) \/ Recover(p) \/ Boot(p) \/ Evict(p) \/ PodCreated(p)
  BY DEF Crash, Recover, Boot, Evict, PodCreated, thread
<1> QED
  BY <1>1, <1>2, <1>3, <1>4 DEF Next, Thread, Handler, Environment

\* A thread that knows no primary takes one up only when every other node is its
\* replica (startDetecting after an update that ended with nil): at the first
\* start and after the operator was replaced, whichever requests and failover
\* commands have failed. With four pods or more a replaced operator may take up
\* one of two primaries (isGbase8sClusterNormal).
THEOREM AdoptsOnlyLinked ==
    ASSUME MaxFaults["restart"] = 0 \/ Cardinality(Pods) <= 3
    PROVE  Spec => AdoptsLinked
<1> USE DEF OneHalf
<1> DEFINE Adopts == primary = NoPod /\ primary' # NoPod =>
                       \A q \in Pods \ {primary'} : ReplicaOf(q, primary')
<1>1. ASSUME Tracked, [Next]_vars, primary = NoPod, primary' # NoPod
      PROVE  UpdateDone
  <2>1. ~\E v \in Pods : Promote(v)
    BY <1>1, TrackedFacts DEF HandlerInv, Promote
  <2>2. ~OperatorRestart
    BY <1>1 DEF OperatorRestart
  <2> QED
    BY <1>1, <2>1, <2>2, PrimaryChanges
<1>2. Tracked /\ [Next]_vars => [Adopts]_vars
  <2> SUFFICES ASSUME Tracked, [Next]_vars, primary = NoPod, primary' # NoPod,
                      NEW q \in Pods \ {primary'}
               PROVE  ReplicaOf(q, primary')
    OBVIOUS
  <2>1. UpdateDone
    BY <1>1
  <2>2. Unfed(db, primary') = {} /\ Missed(db, primary') = {}
    BY <2>1, DoneIsLinked
  <2> QED
    BY <2>2 DEF Unfed, Missed, ReplicaOf
<1> QED
  BY <1>2, TrackedInvariant, PTL DEF Spec, AdoptsLinked
=============================================================================
