------------------------ MODULE ClusterThreadProofs ------------------------
(***************************************************************************)
(* Proofs about ClusterThread, for any number of pods, any values of       *)
(* detectingCount and any number of faults.                                *)
(***************************************************************************)
EXTENDS ClusterThread, FiniteSetTheorems, TLAPS

LEMMA ConstantFacts ==
    /\ NoPod \notin Pods /\ IsFiniteSet(Pods)
    /\ FailedCap \in Nat /\ Counts \subseteq 0 .. FailedCap
    /\ Counts \subseteq Nat
    /\ MaxFaults \in [FaultKinds -> Nat]
BY PodsAssumption, ThreadAssumption

----------------------------------------------------------------------------
(* Lemmas about the database and about what the operator parses of it.     *)

\* The fields of a node after each change of it.
LEMMA NodeUpdates ==
    ASSUME NEW r \in NodeState, NEW S \in SUBSET Pods,
           NEW p \in Pods \cup {NoPod}, NEW t \in {"down", "starting", "online"}
    PROVE  /\ [r EXCEPT !.type = Primary, !.subs = r.subs \cup S] \in NodeState
           /\ [r EXCEPT !.type = Standard, !.src = NoPod, !.subs = {}]
                 \in NodeState
           /\ [r EXCEPT !.type = RSS, !.src = p, !.subs = {}] \in NodeState
           /\ [r EXCEPT !.status = t] \in NodeState
BY DEF NodeState

\* The commands keep the shape of the database.
LEMMA CommandsTyped ==
    ASSUME NEW d \in [Pods -> NodeState], NEW q \in Pods,
           NEW S \in SUBSET Pods
    PROVE  /\ \A p \in Pods \cup {NoPod} :
                 /\ AddRss(d, p, S) \in [Pods -> NodeState]
                 /\ SetRss(d, q, p) \in [Pods -> NodeState]
           /\ SetStandard(d, q) \in [Pods -> NodeState]
           /\ PromoteNode(d, q, S) \in [Pods -> NodeState]
<1>1. ASSUME NEW e \in [Pods -> NodeState], NEW r \in Pods \cup {NoPod}
      PROVE  AddRss(e, r, S) \in [Pods -> NodeState]
  <2>1. CASE r \in Pods
    <3>1. [e[r] EXCEPT !.type = Primary, !.subs = e[r].subs \cup S]
             \in NodeState
      BY <2>1, NodeUpdates
    <3> QED
      BY <2>1, <3>1 DEF AddRss
  <2>2. CASE r \notin Pods
    BY <2>2 DEF AddRss
  <2> QED
    BY <2>1, <2>2
<1>2. SetStandard(d, q) \in [Pods -> NodeState]
  BY NodeUpdates DEF SetStandard
<1>3. \A p \in Pods \cup {NoPod} : SetRss(d, q, p) \in [Pods -> NodeState]
  BY NodeUpdates DEF SetRss
<1> QED
  BY <1>1, <1>2, <1>3 DEF PromoteNode

\* A promotion makes v a primary with exactly the nodes of S registered, and
\* leaves the other nodes alone.
LEMMA PromoteEffect ==
    ASSUME NEW d \in [Pods -> NodeState], NEW v \in Pods,
           NEW S \in SUBSET Pods
    PROVE  /\ PromoteNode(d, v, S)[v].type = Primary
           /\ PromoteNode(d, v, S)[v].subs = S
           /\ \A p \in Pods \ {v} : PromoteNode(d, v, S)[p] = d[p]
<1> DEFINE e == SetStandard(d, v)
<1>1. e \in [Pods -> NodeState]
  BY CommandsTyped
<1>2. e[v].subs = {}
  BY DEF SetStandard, NodeState
<1>3. \A p \in Pods \ {v} : e[p] = d[p]
  BY DEF SetStandard
<1> HIDE DEF e
<1>4. /\ AddRss(e, v, S)[v].type = Primary
      /\ AddRss(e, v, S)[v].subs = S
      /\ \A p \in Pods \ {v} : AddRss(e, v, S)[p] = e[p]
  BY <1>1, <1>2 DEF AddRss, NodeState
<1> QED
  BY <1>3, <1>4 DEF PromoteNode, e

\* Registering nodes makes p a primary that knows them and those it knew.
LEMMA AddEffect ==
    ASSUME NEW d \in [Pods -> NodeState], NEW p \in Pods \cup {NoPod},
           NEW S \in SUBSET Pods
    PROVE  /\ p \in Pods => /\ AddRss(d, p, S)[p].type = Primary
                            /\ AddRss(d, p, S)[p].subs = d[p].subs \cup S
           /\ \A q \in Pods \ {p} : AddRss(d, p, S)[q] = d[q]
BY DEF AddRss, NodeState

\* Restoring q changes q alone.
LEMMA RestoreEffect ==
    ASSUME NEW d \in [Pods -> NodeState], NEW q \in Pods,
           NEW p \in Pods \cup {NoPod}
    PROVE  \A r \in Pods \ {q} : SetRss(d, q, p)[r] = d[r]
BY DEF SetRss

\* Commands do not start or stop a node.
LEMMA CommandsKeepStatus ==
    ASSUME NEW d \in [Pods -> NodeState], NEW q \in Pods,
           NEW S \in SUBSET Pods, NEW r \in Pods
    PROVE  /\ \A p \in Pods \cup {NoPod} :
                 /\ AddRss(d, p, S)[r].status = d[r].status
                 /\ SetRss(d, q, p)[r].status = d[r].status
           /\ SetStandard(d, q)[r].status = d[r].status
           /\ PromoteNode(d, q, S)[r].status = d[r].status
<1>1. ASSUME NEW e \in [Pods -> NodeState], NEW p \in Pods \cup {NoPod}
      PROVE  AddRss(e, p, S)[r].status = e[r].status
  BY DEF AddRss, NodeState
<1>2. SetStandard(d, q)[r].status = d[r].status
  BY DEF SetStandard, NodeState
<1>3. \A p \in Pods \cup {NoPod} : SetRss(d, q, p)[r].status = d[r].status
  BY DEF SetRss, NodeState
<1> QED
  BY <1>1, <1>2, <1>3, CommandsTyped DEF PromoteNode

\* Both facts about the commands sent to one node at a time.
LEMMA AfterRestore ==
    ASSUME NEW d \in [Pods -> NodeState], NEW q \in Pods,
           NEW p \in Pods \cup {NoPod}, NEW e \in {d, SetRss(d, q, p)}
    PROVE  /\ e \in [Pods -> NodeState]
           /\ \A r \in Pods : e[r].status = d[r].status
BY CommandsTyped, CommandsKeepStatus

LEMMA AfterAdd ==
    ASSUME NEW d \in [Pods -> NodeState], NEW S \in SUBSET Pods,
           NEW p \in Pods \cup {NoPod}, NEW e \in {d, AddRss(d, p, S)}
    PROVE  /\ e \in [Pods -> NodeState]
           /\ \A r \in Pods : e[r].status = d[r].status
<1>1. CASE Pods = {}
  BY <1>1 DEF AddRss
<1>2. CASE Pods # {}
  <2>1. PICK q \in Pods : TRUE
    BY <1>2
  <2>2. AddRss(d, p, S) \in [Pods -> NodeState]
    BY <2>1, CommandsTyped
  <2>3. \A r \in Pods : AddRss(d, p, S)[r].status = d[r].status
    BY CommandsKeepStatus
  <2> QED
    BY <2>2, <2>3
<1> QED
  BY <1>1, <1>2

\* A node that starts, stops or recovers keeps what it has on disk.
LEMMA StatusEffect ==
    ASSUME db \in [Pods -> NodeState], NEW p \in Pods,
           NEW t \in {"down", "starting", "online"}, SetStatus(p, t)
    PROVE  /\ db' \in [Pods -> NodeState]
           /\ db'[p].status = t
           /\ \A q \in Pods \ {p} : db'[q] = db[q]
           /\ \A q \in Pods : /\ db'[q].type = db[q].type
                              /\ db'[q].src = db[q].src
                              /\ db'[q].subs = db[q].subs
<1>1. [db[p] EXCEPT !.status = t] \in NodeState
  BY NodeUpdates
<1> QED
  BY <1>1 DEF SetStatus, NodeState

\* The answer of p is about p, and tells a type and a source only from a node
\* that is on line.
LEMMA ParsedFields ==
    ASSUME NEW d \in [Pods -> NodeState], NEW p \in Pods
    PROVE  /\ ParseNodeInfo(d, p).pod = p
           /\ ParseNodeInfo(d, p).sub \subseteq Pods
           /\ ParseNodeInfo(d, p).source \in Pods =>
                 ParseNodeInfo(d, p).source = d[p].src
           /\ ParseNodeInfo(d, p).type = Primary =>
                 /\ d[p].type = Primary
                 /\ ParseNodeInfo(d, p).sub = d[p].subs
BY ConstantFacts DEF ParseNodeInfo, NodeState, Unknown, Primary

\* The sets of pods the handlers derive from the answers of the pods A.
LEMMA DerivedSets ==
    ASSUME NEW d \in [Pods -> NodeState], NEW A \in SUBSET Pods,
           NEW p \in Pods \cup {NoPod}
    PROVE  LET nodes == RssStatus(d, A) IN
           /\ Secondaries(nodes, p) \subseteq A
           /\ p \in Pods => \A c \in Secondaries(nodes, p) : d[c].src = p
           /\ RssNodes(nodes) \subseteq A
           /\ \A s : Unregistered(nodes, p, s) \subseteq A \ {p}
           /\ WrongSource(nodes, p) \subseteq A \ {p}
BY ParsedFields
   DEF RssStatus, Secondaries, RssNodes, Unregistered, WrongSource

\* What a step spends leaves the other budgets alone and no budget negative.
LEMMA SpendTyped ==
    ASSUME budget \in [FaultKinds -> Nat], NEW k \in FaultKinds, NEW n \in Nat,
           Spend(k, n)
    PROVE  /\ budget' \in [FaultKinds -> Nat]
           /\ budget[k] >= n
           /\ \A j \in FaultKinds \ {k} : budget'[j] = budget[j]
BY DEF Spend

LEMMA AnswerTyped ==
    ASSUME budget \in [FaultKinds -> Nat], NEW S \in SUBSET Pods,
           NEW A \in SUBSET Pods, Answer(A, S)
    PROVE  /\ budget' \in [FaultKinds -> Nat]
           /\ A \subseteq S
           /\ \A j \in FaultKinds \ {"glitch"} : budget'[j] = budget[j]
<1>1. Cardinality({p \in S \ A : Online(db, p)}) \in Nat
  BY ConstantFacts, FS_Subset, FS_CardinalityType
<1>2. "glitch" \in FaultKinds
  BY DEF FaultKinds
<1> QED
  BY <1>1, <1>2, SpendTyped DEF Answer

----------------------------------------------------------------------------
(* Types.                                                                  *)

LEMMA InitTyped == Init => TypeOK
<1> SUFFICES ASSUME Init PROVE TypeOK
  OBVIOUS
<1>1. ASSUME NEW p \in Pods
      PROVE  [status |-> IF p \in listed THEN "starting" ELSE "down",
              type |-> Standard, src |-> NoPod, subs |-> {}] \in NodeState
  BY DEF NodeState
<1>2. /\ db \in [Pods -> NodeState]
      /\ \A p \in Pods \ listed : Down(db, p)
  BY <1>1 DEF Init, Down
<1>3. /\ listed \subseteq Pods /\ spec \in Counts
      /\ budget \in [FaultKinds -> Nat]
      /\ seen \in [pods : SUBSET Pods, count : Counts]
  BY ConstantFacts DEF Init
<1>4. failed \in 0 .. FailedCap /\ streak \in 0 .. FailedCap
  BY ConstantFacts DEF Init
<1>5. /\ primary \in Pods \cup {NoPod} /\ tgt \in Pods \cup {NoPod}
      /\ lastPromoted \in Pods \cup {NoPod}
      /\ flag \in BOOLEAN /\ gOn \in BOOLEAN /\ cOn \in BOOLEAN
      /\ active \in BOOLEAN /\ clean \in BOOLEAN
      /\ pc \in PCs /\ recon \in Recons /\ count \in Counts
      /\ podList \subseteq Pods /\ sub \subseteq Pods /\ cands \subseteq Pods
      /\ missing \subseteq Pods /\ todo \subseteq Pods
  BY <1>3 DEF Init, PCs, Recons
<1> QED
  BY <1>2, <1>3, <1>4, <1>5 DEF TypeOK

LEMMA ProbeTyped == TypeOK /\ ProbeTick => TypeOK'
<1> SUFFICES ASSUME TypeOK, ProbeTick PROVE TypeOK'
  OBVIOUS
<1> USE ConstantFacts DEF ProbeTick, TypeOK
<1>1. failed' \in 0 .. FailedCap
  BY DEF Counted
<1>2. streak' \in 0 .. FailedCap
  OBVIOUS
<1>3. budget' \in [FaultKinds -> Nat]
  BY SpendTyped DEF Unreachable, FaultKinds
<1> QED
  BY <1>1, <1>2, <1>3
     DEF cfg, timers, locals, recvrs, PCs, Down

LEMMA CollectTyped == TypeOK /\ Collect => TypeOK'
<1> SUFFICES ASSUME TypeOK, Collect PROVE TypeOK'
  OBVIOUS
<1> USE ConstantFacts DEF TypeOK
<1>1. PICK A \in SUBSET podList :
        /\ Answer(A, podList \ {primary})
        /\ LET nodes == RssStatus(db, A)
               sec   == Secondaries(nodes, primary)
           IN  /\ cands' = sec
               /\ todo' = IF sec = {} THEN {} ELSE RssNodes(nodes)
               /\ pc' = IF sec = {} THEN "idle" ELSE "promote"
  BY Zenon DEF Collect
<1>2. budget' \in [FaultKinds -> Nat]
  BY <1>1, AnswerTyped
<1>3. cands' \subseteq Pods /\ todo' \subseteq Pods /\ pc' \in PCs
  BY <1>1, DerivedSets DEF PCs
<1> QED
  BY <1>2, <1>3 DEF Collect, cfg, timers, recvrs, ghosts, Down

LEMMA PromoteTyped ==
    ASSUME TypeOK, NEW v \in Pods, Promote(v) PROVE TypeOK'
<1> USE ConstantFacts DEF Promote, TypeOK, cfg, recvrs
<1> DEFINE S == podList \ {v}
<1>1. /\ budget' \in [FaultKinds -> Nat]
      /\ active' \in BOOLEAN /\ lastPromoted' \in Pods \cup {NoPod}
  <2>1. "glitch" \in FaultKinds /\ "lost" \in FaultKinds
          /\ "stderr" \in FaultKinds
    BY DEF FaultKinds
  <2> QED
    BY <2>1, SpendTyped
       DEF PromoteSkipped, PromoteLost, Promoted, PromoteStderr, Unreachable,
           NextCandidate
<1>2. /\ cands' \subseteq Pods /\ todo' \subseteq Pods /\ pc' \in PCs
      /\ primary' \in Pods \cup {NoPod} /\ sub' \subseteq Pods
      /\ tgt' \in Pods \cup {NoPod}
      /\ failed' \in 0 .. FailedCap /\ streak' \in 0 .. FailedCap
  <2>1. CASE NextCandidate(v)
    BY <2>1 DEF NextCandidate, PCs
  <2>2. CASE AdoptPrimary(v) /\ todo' \subseteq Pods
    BY <2>2 DEF AdoptPrimary, PCs
  <2> QED
    BY <2>1, <2>2 DEF PromoteSkipped, PromoteLost, Promoted, PromoteStderr
<1>3. db' \in {db, PromoteNode(db, v, S), SetStandard(db, v)}
  BY DEF PromoteSkipped, PromoteLost, Promoted, PromoteStderr
<1>4. /\ db' \in [Pods -> NodeState]
      /\ \A r \in Pods : db'[r].status = db[r].status
  <2>1. S \in SUBSET Pods
    OBVIOUS
  <2>2. \A r \in Pods :
           /\ PromoteNode(db, v, S)[r].status = db[r].status
           /\ SetStandard(db, v)[r].status = db[r].status
    <3> HIDE DEF S
    <3>1. db \in [Pods -> NodeState]
      BY DEF TypeOK
    <3> QED
      BY <2>1, <3>1, CommandsKeepStatus
  <2>3. /\ PromoteNode(db, v, S) \in [Pods -> NodeState]
        /\ SetStandard(db, v) \in [Pods -> NodeState]
    BY <2>1, CommandsTyped
  <2> QED
    BY <1>3, <2>2, <2>3
<1> QED
  BY <1>1, <1>2, <1>4 DEF Down

LEMMA RejoinTyped ==
    ASSUME TypeOK, NEW q \in Pods, Rejoin(q) PROVE TypeOK'
<1> USE DEF Rejoin, TypeOK
<1>1. /\ db' \in {db, SetRss(db, q, tgt)} /\ db \in [Pods -> NodeState]
      /\ tgt \in Pods \cup {NoPod}
  BY DEF RestoreWorks
<1>2. db' \in [Pods -> NodeState] /\ \A r \in Pods : db'[r].status = db[r].status
  <2> HIDE DEF Rejoin, UpdateSetRss, TypeOK
  <2> QED
    BY <1>1, AfterRestore
<1>3. budget' \in [FaultKinds -> Nat]
  BY SpendTyped DEF RestoreFails, FaultKinds
<1> QED
  BY <1>2, <1>3 DEF cfg, timers, recvrs, ghosts, Down

LEMMA RejoinDoneTyped == TypeOK /\ RejoinDone => TypeOK'
BY ConstantFacts DEF TypeOK, RejoinDone, env, cfg, recvrs, ghosts, PCs, Down

LEMMA UpdateFailsTyped == TypeOK /\ UpdateFails => TypeOK'
<1> SUFFICES ASSUME TypeOK, UpdateFails PROVE TypeOK'
  OBVIOUS
<1>1. budget' \in [FaultKinds -> Nat]
  BY SpendTyped DEF UpdateFails, FaultKinds, TypeOK
<1> QED
  BY <1>1 DEF TypeOK, UpdateFails, cfg, locals, recvrs, ghosts, Down

\* What a handler starts with, over the answers of the pods A.
LEMMA StartUpdateTyped ==
    ASSUME db \in [Pods -> NodeState], NEW A \in SUBSET Pods, NEW p \in Pods,
           NEW s \in SUBSET Pods, NEW all \in BOOLEAN,
           StartUpdate(RssStatus(db, A), p, s, all)
    PROVE  /\ tgt' = p /\ sub' = s /\ clean' = all
           /\ missing' \subseteq A \ {p} /\ todo' \subseteq A \ {p}
           /\ pc' \in {"setrss", "add"}
BY DerivedSets DEF StartUpdate

LEMMA UpdateKnownTyped == TypeOK /\ UpdateKnown => TypeOK'
<1> SUFFICES ASSUME TypeOK, UpdateKnown PROVE TypeOK'
  OBVIOUS
<1>1. PICK A \in SUBSET Pods \ {{}} :
        /\ Answer(A, Pods)
        /\ StartUpdate(RssStatus(db, A), primary, sub, A = Pods)
  BY Zenon DEF UpdateKnown
<1>2. primary \in Pods /\ sub \in SUBSET Pods /\ (A = Pods) \in BOOLEAN
      /\ db \in [Pods -> NodeState] /\ budget \in [FaultKinds -> Nat]
  BY DEF TypeOK, UpdateKnown
<1>3. budget' \in [FaultKinds -> Nat]
  BY <1>1, <1>2, AnswerTyped
<1>4. /\ tgt' = primary /\ sub' = sub /\ clean' = (A = Pods)
      /\ missing' \subseteq A \ {primary} /\ todo' \subseteq A \ {primary}
      /\ pc' \in {"setrss", "add"}
  BY <1>1, <1>2, StartUpdateTyped
<1>5. /\ tgt' \in Pods /\ sub' \subseteq Pods /\ clean' \in BOOLEAN
      /\ missing' \subseteq Pods /\ todo' \subseteq Pods
      /\ pc' \in PCs
  BY <1>2, <1>4 DEF PCs
<1> QED
  BY <1>3, <1>5 DEF UpdateKnown, TypeOK, cfg, timers, recvrs, ghosts, Down

\* The primaries a handler may choose are among the pods that answered.
LEMMA ChosenPrimary ==
    ASSUME NEW d \in [Pods -> NodeState], NEW A \in SUBSET Pods,
           NEW n \in RealPrimaries(RssStatus(d, A))
    PROVE  n.pod \in A /\ n.sub \subseteq Pods
<1>1. n \in RssStatus(d, A)
  BY DEF RealPrimaries, Primaries
<1> QED
  BY <1>1, ParsedFields DEF RssStatus

LEMMA UpdateUnknownTyped == TypeOK /\ UpdateUnknown => TypeOK'
<1> SUFFICES ASSUME TypeOK, UpdateUnknown PROVE TypeOK'
  OBVIOUS
<1> DEFINE nodes == RssStatus(db, Pods)
<1>1. db \in [Pods -> NodeState]
  BY DEF TypeOK
<1>2. /\ tgt' \in Pods \cup {NoPod} /\ sub' \subseteq Pods /\ clean' \in BOOLEAN
      /\ missing' \subseteq Pods /\ todo' \subseteq Pods
      /\ pc' \in PCs
  <2>1. CASE IsGbase8sClusterNormal(nodes)
    BY <2>1 DEF UpdateUnknown, TypeOK, PCs
  <2>2. CASE ~IsGbase8sClusterNormal(nodes)
    <3>1. PICK n \in RealPrimaries(nodes) : StartUpdate(nodes, n.pod, n.sub, TRUE)
      BY <2>2, Zenon DEF UpdateUnknown
    <3>2. n.pod \in Pods /\ n.sub \in SUBSET Pods
      BY <1>1, ChosenPrimary
    <3> QED
      BY <1>1, <3>1, <3>2, StartUpdateTyped DEF PCs
  <2> QED
    BY <2>1, <2>2
<1> QED
  BY <1>2 DEF UpdateUnknown, TypeOK, env, cfg, timers, recvrs, ghosts, Down

LEMMA UpdateAddTyped == TypeOK /\ UpdateAdd => TypeOK'
<1> SUFFICES ASSUME TypeOK, UpdateAdd PROVE TypeOK'
  OBVIOUS
<1> USE DEF UpdateAdd, TypeOK
<1>1. /\ db' \in {db, AddRss(db, tgt, missing)} /\ db \in [Pods -> NodeState]
      /\ missing \in SUBSET Pods /\ tgt \in Pods \cup {NoPod}
  OBVIOUS
<1>2. db' \in [Pods -> NodeState] /\ \A r \in Pods : db'[r].status = db[r].status
  <2> HIDE DEF UpdateAdd, TypeOK
  <2> QED
    BY <1>1, AfterAdd
<1>3. budget' \in [FaultKinds -> Nat]
  BY SpendTyped DEF FaultKinds
<1>4. /\ tgt' \in Pods \cup {NoPod} /\ sub' \subseteq Pods /\ clean' \in BOOLEAN
      /\ missing' \subseteq Pods /\ todo' \subseteq Pods
      /\ pc' \in PCs
  BY DEF KeepSub, LeaveUpdate, PCs
<1> QED
  BY <1>2, <1>3, <1>4 DEF cfg, timers, recvrs, ghosts, Down

LEMMA UpdateSetRssTyped ==
    ASSUME TypeOK, NEW q \in Pods, UpdateSetRss(q) PROVE TypeOK'
<1> USE DEF UpdateSetRss, TypeOK
<1>1. /\ db' \in {db, SetRss(db, q, tgt)} /\ db \in [Pods -> NodeState]
      /\ tgt \in Pods \cup {NoPod}
  BY DEF RestoreWorks
<1>2. db' \in [Pods -> NodeState] /\ \A r \in Pods : db'[r].status = db[r].status
  <2> HIDE DEF Rejoin, UpdateSetRss, TypeOK
  <2> QED
    BY <1>1, AfterRestore
<1>3. budget' \in [FaultKinds -> Nat]
  BY SpendTyped DEF RestoreFails, FaultKinds
<1> QED
  BY <1>2, <1>3 DEF cfg, timers, recvrs, ghosts, Down

LEMMA UpdateWaitsTyped == TypeOK /\ UpdateWaits => TypeOK'
BY DEF TypeOK, UpdateWaits, KeepSub, LeaveUpdate, env, cfg, timers, recvrs,
       ghosts, PCs, Down

\* startDetecting names a pod that exists and calls itself primary.
LEMMA FoundTyped ==
    ASSUME db \in [Pods -> NodeState], listed \in SUBSET Pods,
           NEW n \in FoundPrimaries
    PROVE  /\ n.pod \in Pods /\ n.sub \subseteq Pods
           /\ db[n.pod].type = Primary /\ n.sub = db[n.pod].subs
<1>1. n \in RssStatus(db, listed) /\ n.type = Primary
  BY DEF FoundPrimaries
<1> QED
  BY <1>1, ParsedFields DEF RssStatus

LEMMA UpdateDoneTyped == TypeOK /\ UpdateDone => TypeOK'
<1> SUFFICES ASSUME TypeOK, UpdateDone PROVE TypeOK'
  OBVIOUS
<1> USE DEF UpdateDone, TypeOK
<1>1. /\ budget' \in [FaultKinds -> Nat] /\ flag' \in BOOLEAN
      /\ primary' \in Pods \cup {NoPod} /\ sub' \subseteq Pods
  BY SpendTyped, FoundTyped DEF StartDetecting, FaultKinds
<1> QED
  BY <1>1 DEF LeaveUpdate, cfg, recvrs, ghosts, PCs, Down

\* The events that change no node and no pod.
LEMMA QuietTyped ==
    ASSUME TypeOK,
           CmTick \/ TakeActive \/ CfgPodList \/ CfgDetecting \/ ReconcileList
    PROVE  TypeOK'
<1> USE ConstantFacts
        DEF TypeOK, env, cfg, locals, timers, recvrs, ghosts, Recons, Down
<1>1. CASE CmTick
  BY <1>1 DEF CmTick
<1>2. CASE TakeActive
  BY <1>2 DEF TakeActive
<1>3. CASE CfgPodList
  BY <1>3 DEF CfgPodList
<1>4. CASE CfgDetecting
  <2>1. budget' \in [FaultKinds -> Nat]
    BY <1>4, SpendTyped DEF CfgDetecting, FaultKinds
  <2> QED
    BY <1>4, <2>1 DEF CfgDetecting
<1>5. CASE ReconcileList
  BY <1>5 DEF ReconcileList
<1> QED
  BY <1>1, <1>2, <1>3, <1>4, <1>5

LEMMA ReconcileBuildTyped == TypeOK /\ ReconcileBuild => TypeOK'
<1> SUFFICES ASSUME TypeOK, ReconcileBuild PROVE TypeOK'
  OBVIOUS
<1>1. budget' \in [FaultKinds -> Nat]
  BY SpendTyped DEF ReconcileBuild, ReconcileSignals, ReconcileBuildFails,
                    env, FaultKinds, TypeOK
<1> QED
  BY <1>1 DEF TypeOK, ReconcileBuild, ReconcileSignals, ReconcileBuildFails,
              env, cfg, timers, locals, ghosts, Recons, Down

LEMMA PodTyped ==
    ASSUME TypeOK, NEW p \in Pods,
           Crash(p) \/ Recover(p) \/ Boot(p) \/ Evict(p) \/ PodCreated(p)
    PROVE  TypeOK'
<1>1. PICK t \in {"down", "starting", "online"} :
        /\ SetStatus(p, t)
        /\ \/ listed' = listed /\ p \in listed
           \/ listed' = listed \ {p} /\ t = "down"
           \/ listed' = listed \cup {p}
  BY DEF Crash, Recover, Boot, Evict, PodCreated, TypeOK, Down
<1>2. /\ db' \in [Pods -> NodeState]
      /\ db'[p].status = t
      /\ \A q \in Pods \ {p} : db'[q] = db[q]
  BY <1>1, StatusEffect DEF TypeOK
<1>3. listed' \subseteq Pods /\ \A q \in Pods \ listed' : db'[q].status = "down"
  BY <1>1, <1>2 DEF TypeOK, Down
<1>4. budget' \in [FaultKinds -> Nat]
  BY SpendTyped
     DEF Crash, Recover, Boot, Evict, PodCreated, FaultKinds, TypeOK
<1>5. UNCHANGED <<spec, thread, count, recvrs, ghosts>>
  BY DEF Crash, Recover, Boot, Evict, PodCreated
<1> QED
  BY <1>2, <1>3, <1>4, <1>5 DEF TypeOK, thread, locals, recvrs, ghosts, Down

LEMMA SpecChangeTyped == TypeOK /\ SpecChange => TypeOK'
<1> SUFFICES ASSUME TypeOK, SpecChange PROVE TypeOK'
  OBVIOUS
<1>1. budget' \in [FaultKinds -> Nat] /\ spec' \in Counts
  BY SpendTyped DEF SpecChange, FaultKinds, TypeOK
<1> QED
  BY <1>1 DEF TypeOK, SpecChange, thread, locals, recvrs, ghosts, Down

LEMMA RestartTyped == TypeOK /\ OperatorRestart => TypeOK'
<1> SUFFICES ASSUME TypeOK, OperatorRestart PROVE TypeOK'
  OBVIOUS
<1>1. budget' \in [FaultKinds -> Nat]
  BY SpendTyped DEF OperatorRestart, FaultKinds, TypeOK
<1>2. 0 \in 0 .. FailedCap
  BY ConstantFacts
<1> QED
  BY <1>1, <1>2 DEF TypeOK, OperatorRestart, PCs, Recons, Down

LEMMA TypeStep == TypeOK /\ [Next]_vars => TypeOK'
<1> SUFFICES ASSUME TypeOK, [Next]_vars PROVE TypeOK'
  OBVIOUS
<1>1. CASE Handler
  BY <1>1, CollectTyped, PromoteTyped, RejoinTyped, RejoinDoneTyped,
     UpdateAddTyped, UpdateSetRssTyped, UpdateWaitsTyped, UpdateDoneTyped
     DEF Handler
<1>2. CASE Thread
  BY <1>1, <1>2, ProbeTyped, UpdateFailsTyped, UpdateKnownTyped,
     UpdateUnknownTyped, QuietTyped DEF Thread
<1>3. CASE Reconcile
  BY <1>3, QuietTyped, ReconcileBuildTyped DEF Reconcile
<1>4. CASE Environment
  BY <1>4, PodTyped, SpecChangeTyped, RestartTyped DEF Environment
<1>5. CASE UNCHANGED vars
  BY <1>5 DEF vars, env, cfg, timers, locals, recvrs, ghosts, TypeOK, Down
<1> QED
  BY <1>2, <1>3, <1>4, <1>5 DEF Next

\* Every variable keeps its type, and a pod that does not exist has no running
\* database.
THEOREM TypeCorrect == Spec => []TypeOK
BY InitTyped, TypeStep, PTL DEF Spec
=============================================================================
