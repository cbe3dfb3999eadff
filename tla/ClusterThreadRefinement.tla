---------------------- MODULE ClusterThreadRefinement ----------------------
(***************************************************************************)
(* The proof that ClusterThread implements Leadership: every step of the   *)
(* thread, of Reconcile and of the environment is a change of roles that   *)
(* Leadership allows, or none.                                             *)
(***************************************************************************)
EXTENDS ClusterThreadSafety

\* The handler restores other nodes than the one it works for, which it knows
\* whenever there is something to do.
TargetInv ==
    pc \in {"rejoin", "add", "setrss"} =>
        /\ tgt \notin todo
        /\ pc # "setrss" \/ todo # {} => tgt \in Pods

LEMMA TargetInit == Init => TargetInv
BY DEF Init, TargetInv

LEMMA TargetStep == TypeOK /\ TargetInv /\ [Next]_vars => TargetInv'
<1> SUFFICES ASSUME TypeOK, TargetInv, [Next]_vars PROVE TargetInv'
  OBVIOUS
<1>0. /\ db \in [Pods -> NodeState] /\ primary \in Pods \cup {NoPod}
      /\ sub \in SUBSET Pods
  BY DEF TypeOK
<1>1. ASSUME NEW v \in Pods, Promote(v) PROVE TargetInv'
  <2>1. CASE NextCandidate(v)
    BY <2>1, <1>1 DEF NextCandidate, TargetInv, Promote
  <2>2. CASE AdoptPrimary(v) /\ todo' \in {{}, todo \ {v}}
    BY <2>2 DEF AdoptPrimary, TargetInv
  <2> QED
    BY <1>1, <2>1, <2>2
       DEF Promote, PromoteSkipped, PromoteLost, Promoted, PromoteStderr
<1>2. CASE \E q \in Pods : Rejoin(q) \/ UpdateSetRss(q)
  BY <1>2 DEF Rejoin, UpdateSetRss, TargetInv
<1>3. CASE UpdateAdd
  BY <1>3 DEF UpdateAdd, LeaveUpdate, TargetInv
<1>4. CASE RejoinDone \/ UpdateWaits \/ UpdateDone \/ OperatorRestart
  BY <1>4
     DEF RejoinDone, UpdateWaits, UpdateDone, LeaveUpdate, OperatorRestart,
         TargetInv
<1>5. CASE UpdateKnown
  <2>1. PICK A \in SUBSET Pods \ {{}} :
          StartUpdate(RssStatus(db, A), primary, sub, A = Pods)
    BY <1>5, Zenon DEF UpdateKnown
  <2>2. primary \in Pods /\ (A = Pods) \in BOOLEAN
    BY <1>0, <1>5 DEF UpdateKnown
  <2>3. tgt' = primary /\ todo' \subseteq A \ {primary}
    BY <1>0, <2>1, <2>2, StartUpdateTyped
  <2> QED
    BY <2>2, <2>3 DEF TargetInv
<1>6. CASE UpdateUnknown
  <2> DEFINE nodes == RssStatus(db, Pods)
  <2>1. CASE IsGbase8sClusterNormal(nodes)
    BY <1>6, <2>1 DEF UpdateUnknown, TargetInv
  <2>2. CASE ~IsGbase8sClusterNormal(nodes)
    <3>1. PICK n \in RealPrimaries(nodes) : StartUpdate(nodes, n.pod, n.sub, TRUE)
      BY <1>6, <2>2, Zenon DEF UpdateUnknown
    <3>2. n \in nodes
      BY DEF RealPrimaries, Primaries
    <3>3. n.pod \in Pods /\ n.sub \in SUBSET Pods
      BY <1>0, <3>2, ParsedFields DEF RssStatus
    <3>4. tgt' = n.pod /\ todo' \subseteq Pods \ {n.pod}
      BY <1>0, <3>1, <3>3, StartUpdateTyped
    <3> QED
      BY <3>3, <3>4 DEF TargetInv
  <2> QED
    BY <2>1, <2>2
<1>7. CASE ProbeTick \/ Collect
  BY <1>7 DEF ProbeTick, Collect, TargetInv
<1>8. CASE \/ UpdateFails \/ CmTick \/ TakeActive \/ CfgPodList \/ CfgDetecting
  BY <1>8
     DEF UpdateFails, UpdateTick, CmTick, TakeActive, CfgPodList, CfgDetecting,
         TargetInv
<1>9. CASE Reconcile
  <2>1. UNCHANGED <<pc, tgt, todo>>
    BY <1>9 DEF Reconcile, ReconcileList, ReconcileBuild, ReconcileSignals,
                ReconcileBuildFails, locals
  <2> QED
    BY <2>1 DEF TargetInv
<1>10. CASE SpecChange \/ \E p \in Pods :
              Crash(p) \/ Recover(p) \/ Boot(p) \/ Evict(p) \/ PodCreated(p)
  BY <1>10
     DEF SpecChange, Crash, Recover, Boot, Evict, PodCreated, thread, locals,
         TargetInv
<1>11. CASE UNCHANGED vars
  BY <1>11 DEF vars, locals, TargetInv
<1> QED
  BY <1>1, <1>2, <1>3, <1>4, <1>5, <1>6, <1>7, <1>8, <1>9, <1>10, <1>11
     DEF Next, Thread, Handler, Environment

\* Nodes are registered on a primary only.
SubsInv == \A p \in Pods : db[p].subs # {} => db[p].type = Primary

LEMMA SubsInit == Init => SubsInv
BY DEF Init, SubsInv

LEMMA SubsStep == TypeOK /\ SubsInv /\ [Next]_vars => SubsInv'
<1> SUFFICES ASSUME TypeOK, SubsInv, [Next]_vars PROVE SubsInv'
  OBVIOUS
<1>1. db \in [Pods -> NodeState] /\ cands \subseteq Pods /\ todo \subseteq Pods
      /\ podList \subseteq Pods /\ missing \subseteq Pods
      /\ tgt \in Pods \cup {NoPod}
  BY DEF TypeOK
<1>2. CASE KeepsData(db, db')
  BY <1>2 DEF KeepsData, SubsInv
<1>3. ASSUME NEW v \in cands, db' = SetStandard(db, v) PROVE SubsInv'
  BY <1>1, <1>3 DEF SubsInv, SetStandard, NodeState
<1>4. ASSUME NEW v \in cands, db' = PromoteNode(db, v, podList \ {v})
      PROVE  SubsInv'
  BY <1>1, <1>4, PromoteEffect DEF SubsInv
<1>5. ASSUME NEW q \in todo, db' = SetRss(db, q, tgt) PROVE SubsInv'
  BY <1>1, <1>5 DEF SubsInv, SetRss, NodeState
<1>6. CASE CanAddRss(db, tgt) /\ db' = AddRss(db, tgt, missing)
  BY <1>1, <1>6, AddEffect DEF SubsInv
<1> QED
  BY <1>2, <1>3, <1>4, <1>5, <1>6, DbStep

----------------------------------------------------------------------------
(* The steps.                                                              *)

\* Nothing changes for Leadership.
SameRoles == primary' = primary /\ KeepsData(db, db')

LEMMA Stutter == SameRoles => UNCHANGED Roles!vars
BY DEF SameRoles, KeepsData, Role, From, Roles!vars

LEMMA LeadStep ==
    ASSUME db \in [Pods -> NodeState], NEW p \in Pods, NEW S \in SUBSET Pods,
           primary \in {NoPod, p}, CanAddRss(db, p), primary' = primary,
           db' = AddRss(db, p, S)
    PROVE  Roles!Lead(p)
<1>1. \A q \in Pods : /\ db'[q].type = IF q = p THEN Primary ELSE db[q].type
                      /\ db'[q].src = db[q].src
  BY DEF AddRss, NodeState
<1> QED
  BY <1>1 DEF Roles!Lead, Role, From, CanAddRss, Primary, RSS

LEMMA CopyStep ==
    ASSUME db \in [Pods -> NodeState], NEW p \in Pods, NEW q \in Pods, q # p,
           primary \in {NoPod, p}, SubsInv, CanSetRss(db, q, p),
           primary' = primary, db' = SetRss(db, q, p)
    PROVE  Roles!Copy(q, p)
<1>1. \A r \in Pods : /\ db'[r].type = IF r = q THEN RSS ELSE db[r].type
                      /\ db'[r].src = IF r = q THEN p ELSE db[r].src
  BY DEF SetRss, NodeState
<1>2. db[p].type = Primary
  BY DEF CanSetRss, SubsInv
<1> QED
  BY <1>1, <1>2 DEF Roles!Copy, Role, From, Primary, RSS

LEMMA PromoteStep ==
    ASSUME db \in [Pods -> NodeState], NEW v \in Pods, NEW S \in SUBSET Pods,
           primary # NoPod, db[v].type = RSS, db[v].src = primary,
           primary' \in {primary, v}, db' = PromoteNode(db, v, S)
    PROVE  Roles!Promote(v)
<1>1. PromoteNode(db, v, S)[v].src = NoPod
  <2> DEFINE e == SetStandard(db, v)
  <2>1. e \in [Pods -> NodeState]
    BY CommandsTyped
  <2>2. e[v].src = NoPod
    BY DEF SetStandard, NodeState
  <2> HIDE DEF e
  <2>3. AddRss(e, v, S)[v].src = e[v].src
    BY <2>1 DEF AddRss, NodeState
  <2> QED
    BY <2>2, <2>3 DEF PromoteNode, e
<1>2. \A p \in Pods : /\ db'[p].type = IF p = v THEN Primary ELSE db[p].type
                      /\ db'[p].src = IF p = v THEN NoPod ELSE db[p].src
  BY <1>1, PromoteEffect
<1> QED
  BY <1>2 DEF Roles!Promote, Role, From, Primary, RSS

LeadInv == SafeInv /\ Shaped(db) /\ TargetInv /\ SubsInv

LEMMA InitRefines == Init => Roles!Init
BY DEF Init, Roles!Init, Role, From, Standard

LEMMA StepRefines == LeadInv /\ [Next]_vars => [Roles!Next]_(Roles!vars)
<1> SUFFICES ASSUME LeadInv, [Next]_vars PROVE [Roles!Next]_(Roles!vars)
  OBVIOUS
<1>0. /\ db \in [Pods -> NodeState] /\ cands \subseteq Pods /\ todo \subseteq Pods
      /\ podList \subseteq Pods /\ missing \subseteq Pods /\ NoPod \notin Pods
      /\ primary \in Pods \cup {NoPod} /\ listed \in SUBSET Pods
      /\ SubsInv /\ TargetInv /\ HandlerInv /\ Shaped(db) /\ TypeOK
  BY ConstantFacts DEF TypeOK, LeadInv, SafeInv
<1>1. ASSUME db' = db, primary' = primary PROVE UNCHANGED Roles!vars
  BY <1>1, Stutter DEF SameRoles, KeepsData
<1>2. ASSUME NEW v \in Pods, Promote(v)
      PROVE  Roles!Promote(v) \/ UNCHANGED Roles!vars
  <2>1. v \in cands /\ primary # NoPod /\ db[v].src = primary
    BY <1>0, <1>2 DEF Promote, HandlerInv
  <2>2. db[v].type = RSS
    BY <1>0, <2>1 DEF Shaped
  <2>3. ~PromoteStderr(v)
    BY DEF PromoteStderr, Spend, LeadInv, SafeInv
  <2>4. \/ db' = db /\ primary' = primary
        \/ /\ db' = PromoteNode(db, v, podList \ {v})
           /\ primary' \in {primary, v}
    BY <1>2, <2>3 DEF Promote, PromoteSkipped, PromoteLost, Promoted,
       NextCandidate, AdoptPrimary
  <2>5. podList \ {v} \in SUBSET Pods
    BY <1>0
  <2> QED
    BY <1>0, <1>1, <2>1, <2>2, <2>4, <2>5, PromoteStep
<1>3. ASSUME NEW q \in Pods, Rejoin(q) \/ UpdateSetRss(q)
      PROVE  (tgt \in Pods /\ Roles!Copy(q, tgt)) \/ UNCHANGED Roles!vars
  <2>1. /\ q \in todo /\ pc \in {"rejoin", "setrss"} /\ primary' = primary
        /\ db' = db \/ RestoreWorks(q)
    BY <1>3 DEF Rejoin, UpdateSetRss
  <2>2. tgt \in Pods /\ q # tgt /\ primary \in {NoPod, tgt}
    BY <1>0, <2>1 DEF TargetInv, HandlerInv
  <2> QED
    BY <1>0, <1>1, <2>1, <2>2, CopyStep DEF RestoreWorks
<1>4. CASE UpdateAdd
  <2>1. /\ pc = "add" /\ primary' = primary
        /\ db' = db \/ (CanAddRss(db, tgt) /\ db' = AddRss(db, tgt, missing))
    BY <1>4 DEF UpdateAdd
  <2>2. tgt \in Pods /\ primary \in {NoPod, tgt}
    BY <1>0, <2>1 DEF TargetInv, HandlerInv
  <2>3. Roles!Lead(tgt) \/ UNCHANGED Roles!vars
    BY <1>0, <1>1, <2>1, <2>2, LeadStep
  <2> QED
    BY <2>2, <2>3 DEF Roles!Next
<1>5. CASE UpdateDone
  <2>1. /\ db' = db
        /\ \/ primary' = primary
           \/ primary = NoPod /\ \E n \in FoundPrimaries : primary' = n.pod
    BY <1>5 DEF UpdateDone, StartDetecting
  <2>2. CASE primary' = primary
    BY <1>1, <2>1, <2>2
  <2>3. ASSUME primary = NoPod, NEW n \in FoundPrimaries, primary' = n.pod
        PROVE  n.pod \in Pods /\ Roles!Recognise(n.pod)
    <3>1. n.pod \in Pods /\ db[n.pod].type = Primary
      BY <1>0, FoundTyped
    <3> QED
      BY <2>1, <2>3, <3>1 DEF Roles!Recognise, Role, From, Primary
  <2> QED
    BY <2>1, <2>2, <2>3 DEF Roles!Next
<1>6. CASE OperatorRestart
  BY <1>6 DEF OperatorRestart, Roles!Forget, Roles!Next, Role, From
<1>7. ASSUME NEW p \in Pods,
             Crash(p) \/ Recover(p) \/ Boot(p) \/ Evict(p) \/ PodCreated(p)
      PROVE  UNCHANGED Roles!vars
  <2>1. \E t \in {"down", "starting", "online"} : SetStatus(p, t)
    BY <1>7 DEF Crash, Recover, Boot, Evict, PodCreated
  <2>2. KeepsData(db, db')
    BY <1>0, <2>1, StatusEffect DEF KeepsData
  <2>3. primary' = primary
    BY <1>7 DEF Crash, Recover, Boot, Evict, PodCreated, thread
  <2> QED
    BY <2>2, <2>3, Stutter DEF SameRoles
<1>8. CASE \/ ProbeTick \/ Collect \/ RejoinDone \/ UpdateWaits \/ UpdateFails
           \/ UpdateKnown \/ UpdateUnknown \/ CmTick \/ TakeActive
           \/ CfgPodList \/ CfgDetecting
  <2>1. db' = db /\ primary' = primary
    BY <1>8
       DEF ProbeTick, Collect, RejoinDone, UpdateWaits, UpdateFails,
           UpdateKnown, UpdateUnknown, CmTick, TakeActive, CfgPodList,
           CfgDetecting, env
  <2> QED
    BY <1>1, <2>1
<1>9. CASE Reconcile \/ SpecChange \/ UNCHANGED vars
  <2>1. db' = db /\ primary' = primary
    BY <1>9
       DEF Reconcile, ReconcileList, ReconcileBuild, ReconcileSignals,
           ReconcileBuildFails, SpecChange, vars, env,
           thread
  <2> QED
    BY <1>1, <2>1
<1> QED
  BY <1>2, <1>3, <1>4, <1>5, <1>6, <1>7, <1>8, <1>9
     DEF Next, Thread, Handler, Environment, Roles!Next

\* The operator implements Leadership for any number of pods, whatever crashes,
\* gets lost or is replaced: nodes change roles only as the leader's replica
\* promoted in its place (procFailover), as a node restored from the leader
\* (setRssServerType, the end of procFailover), or to form a cluster that has
\* no leader (addSecondary). The premise is needed: a failover command that
\* fails on its node makes a leader of a node that is none.
THEOREM LeadershipImplemented ==
    ASSUME MaxFaults["stderr"] = 0
    PROVE  Spec => ImplementsLeadership
<1>1. Init => Roles!Init
  BY InitRefines
<1>2. LeadInv /\ [Next]_vars => [Roles!Next]_(Roles!vars)
  BY StepRefines
<1>3. Init => Shaped(db) /\ TargetInv /\ SubsInv
  BY ShapeInit, TargetInit, SubsInit
<1>4. LeadInv /\ [Next]_vars => Shaped(db)' /\ TargetInv' /\ SubsInv'
  <2>1. LeadInv => TypeOK /\ Shaped(db) /\ TargetInv /\ SubsInv
    BY DEF LeadInv, SafeInv
  <2>2. TypeOK /\ Shaped(db) /\ [Next]_vars => Shaped(db)'
    BY ShapeStep DEF Shaped
  <2> QED
    BY <2>1, <2>2, TargetStep, SubsStep
<1>5. LeadInv <=> SafeInv /\ Shaped(db) /\ TargetInv /\ SubsInv
  BY DEF LeadInv
<1> QED
  BY <1>1, <1>2, <1>3, <1>4, <1>5, SafeInvariant, PTL
     DEF Spec, ImplementsLeadership, Roles!Spec
=============================================================================
