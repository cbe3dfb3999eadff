------------------------ MODULE ClusterThreadSafety ------------------------
(***************************************************************************)
(* Proofs of the safety properties of ClusterThread, for any number of     *)
(* pods, any values of detectingCount and any number of faults but those a *)
(* theorem excludes: with a fault it excludes, the property does not hold. *)
(***************************************************************************)
EXTENDS ClusterThreadProofs

----------------------------------------------------------------------------
(* Failover is justified.                                                  *)

\* The counter never runs ahead of the failed probes it stands for, and a
\* failover under way has reached the threshold.
CountInv ==
    /\ failed <= streak
    /\ pc \in {"collect", "promote"} => failed >= count

LEMMA CountInit == Init => CountInv
BY DEF Init, CountInv

LEMMA CountStep == TypeOK /\ CountInv /\ [Next]_vars => CountInv'
<1> SUFFICES ASSUME TypeOK, CountInv, [Next]_vars PROVE CountInv'
  OBVIOUS
<1> USE DEF CountInv
<1>1. failed \in 0 .. FailedCap /\ streak \in 0 .. FailedCap /\ FailedCap \in Nat
      /\ count \in Nat
  BY ConstantFacts DEF TypeOK
<1>2. CASE ProbeTick
  <2>1. failed' <= streak'
    BY <1>1, <1>2 DEF ProbeTick, Counted
  <2>2. pc' \in {"collect", "promote"} => failed' >= count
    BY <1>2 DEF ProbeTick, ThresholdReached
  <2> QED
    BY <1>2, <2>1, <2>2 DEF ProbeTick, cfg
<1>3. CASE Collect
  BY <1>3 DEF Collect, cfg, ghosts
<1>4. ASSUME NEW v \in Pods, Promote(v) PROVE CountInv'
  BY <1>4
     DEF Promote, PromoteSkipped, PromoteLost, Promoted, PromoteStderr,
         NextCandidate, AdoptPrimary, cfg
<1>5. CASE \/ \E q \in Pods : Rejoin(q) \/ UpdateSetRss(q)
           \/ RejoinDone \/ UpdateAdd \/ UpdateWaits \/ UpdateDone
  BY <1>5
     DEF Rejoin, UpdateSetRss, RejoinDone, UpdateAdd, UpdateWaits, UpdateDone,
         LeaveUpdate, cfg, ghosts
<1>6. CASE \/ UpdateFails \/ UpdateKnown \/ UpdateUnknown \/ CmTick
           \/ TakeActive \/ CfgPodList
  BY <1>6
     DEF UpdateFails, UpdateTick, UpdateKnown, UpdateUnknown, StartUpdate,
         CmTick, TakeActive, CfgPodList, cfg, ghosts
<1>7. CASE CfgDetecting
  BY <1>1, <1>7 DEF CfgDetecting, ghosts
<1>8. CASE Reconcile
  BY <1>8 DEF Reconcile, ReconcileList, ReconcileBuild, ReconcileSignals,
              ReconcileBuildFails, cfg, ghosts
<1>9. CASE Environment
  BY <1>9
     DEF Environment, Crash, Recover, Boot, Evict, PodCreated, SpecChange,
         OperatorRestart, thread, ghosts
<1>10. CASE UNCHANGED vars
  BY <1>10 DEF vars, cfg, ghosts
<1> QED
  BY <1>2, <1>3, <1>4, <1>5, <1>6, <1>7, <1>8, <1>9, <1>10
     DEF Next, Thread, Handler

\* When detectingCount is never 0, no failover is started by a pod that
\* answers: procFailover has seen at least detectingCount failed probes of the
\* same primary in a row, however ticks, new parameters, updates and restarts
\* are interleaved.
THEOREM FailoverIsJustified ==
    ASSUME 0 \notin Counts
    PROVE  Spec => []FailoverJustified
<1>1. TypeOK /\ CountInv => FailoverJustified
  BY ConstantFacts DEF TypeOK, CountInv, FailoverJustified
<1> QED
  BY <1>1, InitTyped, TypeStep, CountInit, CountStep, PTL DEF Spec

----------------------------------------------------------------------------
(* What a step does to the nodes, and the handler's view of them.          *)

KeepsData(d, e) ==
    \A p \in Pods : /\ e[p].type = d[p].type
                    /\ e[p].src = d[p].src
                    /\ e[p].subs = d[p].subs

\* Only four commands change what a node has on disk, and each is sent by one
\* handler to a node of that handler's locals.
LEMMA DbStep ==
    ASSUME TypeOK, [Next]_vars
    PROVE  \/ KeepsData(db, db')
           \/ \E v \in cands :
                 /\ pc = "promote" /\ Promote(v)
                 /\ db' \in {PromoteNode(db, v, podList \ {v}), SetStandard(db, v)}
           \/ \E q \in todo :
                 pc \in {"rejoin", "setrss"} /\ db' = SetRss(db, q, tgt)
           \/ /\ pc = "add" /\ CanAddRss(db, tgt)
              /\ db' = AddRss(db, tgt, missing)
<1> USE DEF KeepsData
<1>1. ASSUME NEW v \in Pods, Promote(v)
      PROVE  \/ db' = db
             \/ /\ v \in cands /\ pc = "promote"
                /\ db' \in {PromoteNode(db, v, podList \ {v}), SetStandard(db, v)}
  BY <1>1 DEF Promote, PromoteSkipped, PromoteLost, Promoted, PromoteStderr
<1>2. ASSUME NEW q \in Pods, Rejoin(q) \/ UpdateSetRss(q)
      PROVE  \/ db' = db
             \/ /\ q \in todo /\ pc \in {"rejoin", "setrss"}
                /\ db' = SetRss(db, q, tgt)
  BY <1>2 DEF Rejoin, UpdateSetRss, RestoreWorks
<1>3. CASE UpdateAdd
  BY <1>3 DEF UpdateAdd
<1>4. CASE Collect \/ RejoinDone \/ UpdateWaits \/ UpdateDone
  BY <1>4 DEF Collect, RejoinDone, UpdateWaits, UpdateDone, env
<1>5. CASE \/ ProbeTick \/ UpdateFails \/ UpdateKnown \/ UpdateUnknown
           \/ CmTick \/ TakeActive \/ CfgPodList \/ CfgDetecting
  BY <1>5
     DEF ProbeTick, UpdateFails, UpdateKnown, UpdateUnknown, CmTick,
         TakeActive, CfgPodList, CfgDetecting, env
<1>6. CASE Reconcile
  BY <1>6 DEF Reconcile, ReconcileList, ReconcileBuild, ReconcileSignals,
              ReconcileBuildFails, env
<1>7. ASSUME NEW p \in Pods,
             Crash(p) \/ Recover(p) \/ Boot(p) \/ Evict(p) \/ PodCreated(p)
      PROVE  KeepsData(db, db')
  <2>1. \E t \in {"down", "starting", "online"} : SetStatus(p, t)
    BY <1>7 DEF Crash, Recover, Boot, Evict, PodCreated
  <2> QED
    BY <2>1, StatusEffect DEF TypeOK
<1>8. CASE SpecChange \/ OperatorRestart
  BY <1>8 DEF SpecChange, OperatorRestart
<1>9. CASE UNCHANGED vars
  BY <1>9 DEF vars, env
<1> QED
  BY <1>1, <1>2, <1>3, <1>4, <1>5, <1>6, <1>7, <1>8, <1>9
     DEF Next, Thread, Handler, Environment

\* Only an RSS node has a source.
Shaped(d) == \A p \in Pods : d[p].src # NoPod => d[p].type = RSS

LEMMA ShapeInit == Init => Shaped(db)
BY DEF Init, Shaped

LEMMA ShapeStep == TypeOK /\ Shaped(db) /\ [Next]_vars => Shaped(db')
<1> SUFFICES ASSUME TypeOK, Shaped(db), [Next]_vars PROVE Shaped(db')
  OBVIOUS
<1>1. db \in [Pods -> NodeState] /\ cands \subseteq Pods /\ todo \subseteq Pods
      /\ podList \subseteq Pods /\ missing \subseteq Pods
      /\ tgt \in Pods \cup {NoPod}
  BY DEF TypeOK
<1>2. CASE KeepsData(db, db')
  BY <1>2 DEF KeepsData, Shaped
<1>3. ASSUME NEW v \in cands, db' = SetStandard(db, v) PROVE Shaped(db')
  BY <1>1, <1>3 DEF Shaped, SetStandard, NodeState
<1>4. ASSUME NEW v \in cands, db' = PromoteNode(db, v, podList \ {v})
      PROVE  Shaped(db')
  <2> DEFINE e == SetStandard(db, v)
             S == podList \ {v}
  <2>1. e[v].src = NoPod
    BY <1>1 DEF SetStandard, NodeState
  <2>2. e \in [Pods -> NodeState] /\ v \in Pods
    BY <1>1, CommandsTyped
  <2>3. \A p \in Pods \ {v} : db'[p] = db[p]
    BY <1>1, <1>4, PromoteEffect
  <2>4. db' = AddRss(e, v, S)
    BY <1>4 DEF PromoteNode
  <2> HIDE DEF e, S
  <2>5. db'[v].src = NoPod
    BY <2>1, <2>2, <2>4 DEF AddRss, NodeState
  <2> QED
    BY <2>3, <2>5 DEF Shaped
<1>5. ASSUME NEW q \in todo, db' = SetRss(db, q, tgt) PROVE Shaped(db')
  BY <1>1, <1>5 DEF Shaped, SetRss, NodeState
<1>6. CASE CanAddRss(db, tgt) /\ db' = AddRss(db, tgt, missing)
  BY <1>1, <1>6 DEF Shaped, AddRss, CanAddRss, NodeState
<1> QED
  BY <1>2, <1>3, <1>4, <1>5, <1>6, DbStep

\* The handler in progress works on replicas of the primary it replaces, or for
\* the primary it knows, which it never restores.
HandlerInv ==
    /\ pc \in {"collect", "promote"} => primary # NoPod
    /\ pc = "promote" => \A c \in cands : c # primary /\ db[c].src = primary
    /\ pc \in {"rejoin", "add", "setrss"} =>
          primary \in {NoPod, tgt} /\ primary \notin todo

LEMMA HandlerInit == Init => HandlerInv
BY DEF Init, HandlerInv

LEMMA HandlerStep == TypeOK /\ HandlerInv /\ [Next]_vars => HandlerInv'
<1> SUFFICES ASSUME TypeOK, HandlerInv, [Next]_vars PROVE HandlerInv'
  OBVIOUS
<1>0. /\ db \in [Pods -> NodeState] /\ cands \subseteq Pods /\ todo \subseteq Pods
      /\ podList \subseteq Pods /\ missing \subseteq Pods /\ NoPod \notin Pods
      /\ primary \in Pods \cup {NoPod} /\ tgt \in Pods \cup {NoPod}
  BY ConstantFacts DEF TypeOK
<1>1. CASE ProbeTick
  BY <1>1 DEF ProbeTick, HandlerInv
<1>2. CASE Collect
  <2>1. PICK A \in SUBSET podList :
          /\ Answer(A, podList \ {primary})
          /\ LET nodes == RssStatus(db, A)
                 sec   == Secondaries(nodes, primary)
             IN  /\ cands' = sec
                 /\ todo' = IF sec = {} THEN {} ELSE RssNodes(nodes)
                 /\ pc' = IF sec = {} THEN "idle" ELSE "promote"
    BY <1>2, Zenon DEF Collect
  <2>2. A \in SUBSET Pods /\ A \subseteq podList \ {primary} /\ primary \in Pods
    BY <1>0, <1>2, <2>1 DEF Answer, Collect, HandlerInv
  <2>3. cands' \subseteq A /\ \A c \in cands' : db[c].src = primary
    BY <1>0, <2>1, <2>2, DerivedSets
  <2>4. primary' = primary /\ db' = db /\ pc' \in {"idle", "promote"}
    BY <1>2, <2>1 DEF Collect
  <2> QED
    BY <2>2, <2>3, <2>4, <1>0 DEF HandlerInv
<1>3. ASSUME NEW v \in Pods, Promote(v) PROVE HandlerInv'
  <2>1. v \in cands /\ pc = "promote"
    BY <1>3 DEF Promote
  <2>2. \A p \in Pods \ {v} : db'[p] = db[p]
    <3>1. db' \in {db, PromoteNode(db, v, podList \ {v}), SetStandard(db, v)}
      BY <1>3 DEF Promote, PromoteSkipped, PromoteLost, Promoted, PromoteStderr
    <3>2. \A p \in Pods \ {v} : PromoteNode(db, v, podList \ {v})[p] = db[p]
      BY <1>0, PromoteEffect
    <3>3. \A p \in Pods \ {v} : SetStandard(db, v)[p] = db[p]
      BY <1>0 DEF SetStandard
    <3> QED
      BY <3>1, <3>2, <3>3
  <2>3. CASE NextCandidate(v)
    BY <1>0, <2>1, <2>2, <2>3 DEF NextCandidate, HandlerInv
  <2>4. CASE AdoptPrimary(v) /\ todo' \in {{}, todo \ {v}}
    BY <2>4 DEF AdoptPrimary, HandlerInv
  <2> QED
    BY <1>3, <2>3, <2>4
       DEF Promote, PromoteSkipped, PromoteLost, Promoted, PromoteStderr
<1>4. CASE \E q \in Pods : Rejoin(q) \/ UpdateSetRss(q)
  BY <1>4 DEF Rejoin, UpdateSetRss, HandlerInv
<1>5. CASE UpdateAdd
  BY <1>0, <1>5 DEF UpdateAdd, LeaveUpdate, HandlerInv
<1>6. CASE RejoinDone \/ UpdateWaits \/ UpdateDone
  BY <1>6 DEF RejoinDone, UpdateWaits, UpdateDone, LeaveUpdate, HandlerInv
<1>7. CASE UpdateKnown
  <2>1. PICK A \in SUBSET Pods \ {{}} :
          StartUpdate(RssStatus(db, A), primary, sub, A = Pods)
    BY <1>7, Zenon DEF UpdateKnown
  <2>2. primary \in Pods /\ sub \in SUBSET Pods /\ (A = Pods) \in BOOLEAN
    BY <1>0, <1>7 DEF TypeOK, UpdateKnown
  <2>3. /\ tgt' = primary /\ todo' \subseteq A \ {primary}
        /\ pc' \in {"setrss", "add"}
    BY <1>0, <2>1, <2>2, StartUpdateTyped
  <2>4. primary' = primary
    BY <1>7 DEF UpdateKnown
  <2> QED
    BY <2>3, <2>4 DEF HandlerInv
<1>8. CASE UpdateUnknown
  <2>1. primary' = NoPod /\ pc' \in {"setrss", "add"}
    BY <1>8 DEF UpdateUnknown, StartUpdate
  <2>2. todo' \subseteq Pods
    BY UpdateUnknownTyped, <1>8 DEF TypeOK
  <2> QED
    BY <1>0, <2>1, <2>2 DEF HandlerInv
<1>9. CASE UpdateFails \/ CmTick \/ TakeActive \/ CfgPodList \/ CfgDetecting
  BY <1>9
     DEF UpdateFails, UpdateTick, CmTick, TakeActive, CfgPodList,
         CfgDetecting, HandlerInv
<1>10. CASE Reconcile
  BY <1>10
     DEF Reconcile, ReconcileList, ReconcileBuild, ReconcileSignals,
         ReconcileBuildFails, env, locals, HandlerInv
<1>11. CASE SpecChange \/ OperatorRestart
  BY <1>11 DEF SpecChange, OperatorRestart, thread, locals, HandlerInv
<1>12. ASSUME NEW p \in Pods,
              Crash(p) \/ Recover(p) \/ Boot(p) \/ Evict(p) \/ PodCreated(p)
       PROVE  HandlerInv'
  <2>1. UNCHANGED <<primary, pc, cands, tgt, todo>>
    BY <1>12
       DEF Crash, Recover, Boot, Evict, PodCreated, thread, locals
  <2>2. \A q \in Pods : db'[q].src = db[q].src
    BY <1>0, <1>12, StatusEffect
       DEF Crash, Recover, Boot, Evict, PodCreated
  <2> QED
    BY <1>0, <2>1, <2>2 DEF HandlerInv
<1>13. CASE UNCHANGED vars
  BY <1>13 DEF vars, env, locals, HandlerInv
<1> QED
  BY <1>1, <1>2, <1>3, <1>4, <1>5, <1>6, <1>7, <1>8, <1>9, <1>10, <1>11,
     <1>12, <1>13
     DEF Next, Thread, Handler, Environment

ReplicaInv == TypeOK /\ Shaped(db) /\ HandlerInv

\* procFailover promotes only a node that is, when the command is executed, an
\* RSS node of the very primary it replaces: whatever happened to the pods
\* between collecting the answers and this candidate's turn.
THEOREM PromotesOnlyReplicas == Spec => PromotesReplica
<1> DEFINE A == lastPromoted' # lastPromoted =>
                  /\ db[lastPromoted'].type = RSS
                  /\ db[lastPromoted'].src = primary
<1>1. ReplicaInv /\ [Next]_vars => A
  <2> SUFFICES ASSUME TypeOK, Shaped(db), HandlerInv, [Next]_vars,
                      lastPromoted' # lastPromoted
               PROVE  /\ db[lastPromoted'].type = RSS
                      /\ db[lastPromoted'].src = primary
    BY DEF ReplicaInv
  <2>1. \E v \in Pods : Promote(v)
    BY DEF Next, Thread, Handler, Reconcile, Environment, ProbeTick, Collect,
           Rejoin, RejoinDone, UpdateFails, UpdateKnown, UpdateUnknown,
           UpdateAdd, UpdateSetRss, UpdateWaits, UpdateDone, CmTick,
           TakeActive, CfgPodList, CfgDetecting, ReconcileList,
           ReconcileBuild, ReconcileSignals, ReconcileBuildFails, Crash,
           Recover, Boot, Evict, PodCreated, SpecChange,
           OperatorRestart, ghosts, vars
  <2>2. PICK v \in Pods : Promote(v)
    BY <2>1
  <2>3. lastPromoted' = v /\ v \in cands /\ pc = "promote"
    BY <2>2
       DEF Promote, PromoteSkipped, PromoteLost, Promoted, PromoteStderr
  <2>4. db[v].src = primary /\ primary # NoPod
    BY <2>3 DEF HandlerInv
  <2> QED
    BY <2>2, <2>3, <2>4 DEF Shaped
<1>2. Init => ReplicaInv
  BY InitTyped, ShapeInit, HandlerInit DEF ReplicaInv
<1>3. ReplicaInv /\ [Next]_vars => ReplicaInv'
  BY TypeStep, ShapeStep, HandlerStep DEF ReplicaInv
<1> QED
  BY <1>1, <1>2, <1>3, PTL DEF Spec, PromotesReplica

----------------------------------------------------------------------------
(* The believed primary.                                                   *)

\* Faults are spent and never come back.
LEMMA BudgetStep ==
    TypeOK /\ [Next]_vars => \A k \in FaultKinds : budget'[k] <= budget[k]
<1> SUFFICES ASSUME TypeOK, [Next]_vars, NEW k \in FaultKinds
             PROVE  budget'[k] <= budget[k]
  OBVIOUS
<1>1. budget \in [FaultKinds -> Nat]
  BY DEF TypeOK
<1>2. ASSUME NEW j \in FaultKinds, NEW n \in Nat, Spend(j, n)
      PROVE  budget'[k] <= budget[k]
  BY <1>1, <1>2 DEF Spend
<1>3. ASSUME NEW S \in SUBSET Pods, NEW A \in SUBSET Pods, Answer(A, S)
      PROVE  budget'[k] <= budget[k]
  <2>1. Cardinality({p \in S \ A : Online(db, p)}) \in Nat
    BY ConstantFacts, FS_Subset, FS_CardinalityType
  <2> QED
    BY <1>2, <1>3, <2>1 DEF Answer, FaultKinds
<1>4. CASE budget' = budget
  BY <1>1, <1>4
<1>5. CASE \E j \in FaultKinds : Spend(j, 1)
  BY <1>2, <1>5
<1>6. ASSUME NEW v \in Pods, Promote(v) PROVE budget'[k] <= budget[k]
  BY <1>4, <1>5, <1>6
     DEF Promote, PromoteSkipped, PromoteLost, Promoted, PromoteStderr,
         Unreachable, FaultKinds
<1>7. CASE \E q \in Pods : Rejoin(q) \/ UpdateSetRss(q)
  BY <1>4, <1>5, <1>7 DEF Rejoin, UpdateSetRss, RestoreFails, FaultKinds
<1>8. CASE Collect
  <2>1. PICK A \in SUBSET podList : Answer(A, podList \ {primary})
    BY <1>8, Zenon DEF Collect
  <2>2. A \in SUBSET Pods /\ podList \ {primary} \in SUBSET Pods
    BY DEF TypeOK
  <2> QED
    BY <1>3, <2>1, <2>2
<1>9. CASE UpdateKnown
  <2>1. PICK A \in SUBSET Pods \ {{}} : Answer(A, Pods)
    BY <1>9, Zenon DEF UpdateKnown
  <2> QED
    BY <1>3, <2>1
<1>10. CASE \/ ProbeTick \/ UpdateFails \/ UpdateAdd \/ UpdateDone
            \/ CfgDetecting
  BY <1>4, <1>5, <1>10
     DEF ProbeTick, Unreachable, UpdateFails, UpdateAdd, UpdateDone,
         StartDetecting, CfgDetecting, FaultKinds
<1>11. CASE \/ RejoinDone \/ UpdateWaits \/ UpdateUnknown \/ CmTick
            \/ TakeActive \/ CfgPodList
  BY <1>4, <1>11
     DEF RejoinDone, UpdateWaits, UpdateUnknown, CmTick, TakeActive,
         CfgPodList, env
<1>12. CASE Reconcile
  BY <1>4, <1>5, <1>12
     DEF Reconcile, ReconcileList, ReconcileBuild, ReconcileSignals,
         ReconcileBuildFails, env, FaultKinds
<1>13. CASE Environment
  BY <1>4, <1>5, <1>13
     DEF Environment, Crash, Recover, Boot, Evict, PodCreated, SpecChange,
         OperatorRestart, FaultKinds
<1>14. CASE UNCHANGED vars
  BY <1>4, <1>14 DEF vars, env
<1> QED
  BY <1>6, <1>7, <1>8, <1>9, <1>10, <1>11, <1>12, <1>13, <1>14
     DEF Next, Thread, Handler

\* The primary the thread knows is one, and the names it keeps in SubStatus are
\* registered on it.
PrimaryInv ==
    primary # NoPod => /\ db[primary].type = Primary
                       /\ sub \subseteq db[primary].subs

LEMMA PrimaryInit == Init => PrimaryInv
BY DEF Init, PrimaryInv

LEMMA PrimaryStep ==
    TypeOK /\ HandlerInv /\ PrimaryInv /\ budget["stderr"] = 0 /\ [Next]_vars
       => PrimaryInv'
<1> SUFFICES ASSUME TypeOK, HandlerInv, PrimaryInv, budget["stderr"] = 0,
                    [Next]_vars
             PROVE  PrimaryInv'
  OBVIOUS
<1>0. /\ db \in [Pods -> NodeState] /\ cands \subseteq Pods /\ todo \subseteq Pods
      /\ podList \subseteq Pods /\ missing \subseteq Pods /\ NoPod \notin Pods
      /\ primary \in Pods \cup {NoPod} /\ tgt \in Pods \cup {NoPod}
      /\ listed \in SUBSET Pods
  BY ConstantFacts DEF TypeOK
<1>1. ASSUME NEW v \in Pods, Promote(v) PROVE PrimaryInv'
  <2>1. v \in cands /\ v # primary
    BY <1>1 DEF Promote, HandlerInv
  <2>2. /\ PromoteNode(db, v, podList \ {v})[v].type = Primary
        /\ PromoteNode(db, v, podList \ {v})[v].subs = podList \ {v}
        /\ \A p \in Pods \ {v} : PromoteNode(db, v, podList \ {v})[p] = db[p]
    BY <1>0, PromoteEffect
  <2>3. CASE PromoteSkipped(v) \/ PromoteLost(v)
    BY <1>0, <2>1, <2>2, <2>3
       DEF PromoteSkipped, PromoteLost, NextCandidate, PrimaryInv
  <2>4. CASE Promoted(v)
    BY <2>2, <2>4 DEF Promoted, AdoptPrimary, PrimaryInv
  <2>5. ~PromoteStderr(v)
    BY DEF PromoteStderr, Spend
  <2> QED
    BY <1>1, <2>3, <2>4, <2>5 DEF Promote
<1>2. ASSUME NEW q \in Pods, Rejoin(q) \/ UpdateSetRss(q) PROVE PrimaryInv'
  <2>1. q # primary /\ primary' = primary /\ sub' = sub
    BY <1>2 DEF Rejoin, UpdateSetRss, HandlerInv
  <2>2. db' \in {db, SetRss(db, q, tgt)}
    BY <1>2 DEF Rejoin, UpdateSetRss, RestoreWorks
  <2>3. \A p \in Pods \ {q} : db'[p] = db[p]
    BY <1>0, <2>2, RestoreEffect
  <2> QED
    BY <1>0, <2>1, <2>3 DEF PrimaryInv
<1>3. CASE UpdateAdd
  <2>1. primary' = primary
    BY <1>3 DEF UpdateAdd
  <2>2. CASE primary # NoPod
    <3>1. primary = tgt /\ tgt \in Pods
      BY <1>0, <1>3, <2>2 DEF UpdateAdd, HandlerInv
    <3>2. /\ AddRss(db, tgt, missing)[tgt].type = Primary
          /\ AddRss(db, tgt, missing)[tgt].subs = db[tgt].subs \cup missing
      BY <1>0, <3>1, AddEffect
    <3>3. CASE db' = AddRss(db, tgt, missing)
      BY <1>3, <2>1, <2>2, <3>1, <3>2, <3>3
         DEF UpdateAdd, KeepSub, PrimaryInv
    <3>4. CASE db' = db /\ KeepSub(sub)
      BY <2>1, <2>2, <3>4 DEF KeepSub, PrimaryInv
    <3> QED
      BY <1>3, <3>3, <3>4 DEF UpdateAdd
  <2> QED
    BY <2>1, <2>2 DEF PrimaryInv
<1>4. CASE UpdateDone
  <2>1. db' = db
    BY <1>4 DEF UpdateDone
  <2> QED
    BY <1>0, <1>4, <2>1, FoundTyped DEF UpdateDone, StartDetecting, PrimaryInv
<1>5. CASE UpdateWaits
  BY <1>5 DEF UpdateWaits, KeepSub, env, PrimaryInv
<1>6. CASE UpdateKnown
  BY <1>6 DEF UpdateKnown, StartUpdate, PrimaryInv
<1>7. CASE UpdateUnknown
  BY <1>7 DEF UpdateUnknown, PrimaryInv
<1>8. CASE \/ ProbeTick \/ Collect \/ RejoinDone \/ UpdateFails \/ CmTick
           \/ TakeActive \/ CfgPodList \/ CfgDetecting
  BY <1>8
     DEF ProbeTick, Collect, RejoinDone, UpdateFails, CmTick, TakeActive,
         CfgPodList, CfgDetecting, env, PrimaryInv
<1>9. CASE Reconcile
  BY <1>9 DEF Reconcile, ReconcileList, ReconcileBuild, ReconcileSignals,
              ReconcileBuildFails, env, PrimaryInv
<1>10. CASE SpecChange \/ OperatorRestart
  BY <1>10 DEF SpecChange, OperatorRestart, thread, PrimaryInv
<1>11. ASSUME NEW p \in Pods,
              Crash(p) \/ Recover(p) \/ Boot(p) \/ Evict(p) \/ PodCreated(p)
       PROVE  PrimaryInv'
  <2>1. primary' = primary /\ sub' = sub
    BY <1>11 DEF Crash, Recover, Boot, Evict, PodCreated, thread
  <2>2. \A q \in Pods : db'[q].type = db[q].type /\ db'[q].subs = db[q].subs
    BY <1>0, <1>11, StatusEffect
       DEF Crash, Recover, Boot, Evict, PodCreated
  <2> QED
    BY <1>0, <2>1, <2>2 DEF PrimaryInv
<1>12. CASE UNCHANGED vars
  BY <1>12 DEF vars, env, PrimaryInv
<1> QED
  BY <1>1, <1>2, <1>3, <1>4, <1>5, <1>6, <1>7, <1>8, <1>9, <1>10, <1>11, <1>12
     DEF Next, Thread, Handler, Environment

\* The conjuncts of the two theorems below are inductive together. The premise
\* is needed: a failover command that fails on its node but whose HTTP call
\* succeeds breaks both properties.
SafeInv == TypeOK /\ HandlerInv /\ PrimaryInv /\ budget["stderr"] = 0

LEMMA SafeInvariant ==
    ASSUME MaxFaults["stderr"] = 0
    PROVE  Spec => []SafeInv
<1>1. "stderr" \in FaultKinds
  BY DEF FaultKinds
<1>2. Init => SafeInv
  BY InitTyped, HandlerInit, PrimaryInit DEF Init, SafeInv
<1>3. SafeInv /\ [Next]_vars => budget'["stderr"] = 0
  <2> SUFFICES ASSUME SafeInv, [Next]_vars PROVE budget'["stderr"] = 0
    OBVIOUS
  <2>1. budget'["stderr"] <= 0
    BY <1>1, BudgetStep DEF SafeInv
  <2>2. budget' \in [FaultKinds -> Nat]
    BY TypeStep DEF SafeInv, TypeOK
  <2> QED
    BY <1>1, <2>1, <2>2
<1>4. SafeInv /\ [Next]_vars => SafeInv'
  BY <1>3, TypeStep, HandlerStep, PrimaryStep DEF SafeInv
<1> QED
  BY <1>2, <1>4, PTL DEF Spec

\* The pod the thread takes for the primary, which it probes and restores the
\* other nodes from, is a primary in the database's own view: across failovers,
\* lost answers, crashes and evictions, and a replacement of the operator.
THEOREM BelievedPrimary ==
    ASSUME MaxFaults["stderr"] = 0
    PROVE  Spec => []BelievedIsPrimary
<1>1. SafeInv => BelievedIsPrimary
  BY DEF SafeInv, PrimaryInv, BelievedIsPrimary
<1> QED
  BY <1>1, SafeInvariant, PTL

\* SubStatus never names a node that is not registered on the primary, so
\* addSecondary skips no node that still has to be registered.
THEOREM SubStatusIsSound ==
    ASSUME MaxFaults["stderr"] = 0
    PROVE  Spec => []SubStatusSound
<1>1. SafeInv => SubStatusSound
  BY DEF SafeInv, PrimaryInv, SubStatusSound
<1> QED
  BY <1>1, SafeInvariant, PTL

----------------------------------------------------------------------------
(* A promotion is kept.                                                    *)

\* The pod promoted last is the one the thread takes for the primary.
PromotedInv ==
    /\ lastPromoted \in {NoPod, primary}
    /\ budget["lost"] = 0 /\ budget["restart"] = 0

LEMMA PromotedStep == SafeInv /\ PromotedInv /\ [Next]_vars => PromotedInv'
<1> SUFFICES ASSUME SafeInv, PromotedInv, [Next]_vars PROVE PromotedInv'
  OBVIOUS
<1>1. budget'["lost"] = 0 /\ budget'["restart"] = 0
  <2>1. "lost" \in FaultKinds /\ "restart" \in FaultKinds
    BY DEF FaultKinds
  <2>2. budget'["lost"] <= 0 /\ budget'["restart"] <= 0
    BY <2>1, BudgetStep DEF SafeInv, PromotedInv
  <2>3. budget' \in [FaultKinds -> Nat]
    BY TypeStep DEF SafeInv, TypeOK
  <2> QED
    BY <2>1, <2>2, <2>3
<1>2. lastPromoted' \in {NoPod, primary'}
  <2>1. ASSUME NEW v \in Pods, Promote(v)
        PROVE  lastPromoted' \in {NoPod, primary'}
    <3>1. ~PromoteStderr(v) /\ ~PromoteLost(v)
      BY DEF PromoteStderr, PromoteLost, Spend, SafeInv, PromotedInv
    <3> QED
      BY <2>1, <3>1
         DEF Promote, PromoteSkipped, Promoted, NextCandidate, AdoptPrimary,
             PromotedInv
  <2>2. CASE UpdateDone
    BY <2>2 DEF UpdateDone, StartDetecting, ghosts, PromotedInv
  <2>3. CASE \/ \E q \in Pods : Rejoin(q) \/ UpdateSetRss(q)
             \/ ProbeTick \/ Collect \/ RejoinDone \/ UpdateAdd \/ UpdateWaits
    BY <2>3
       DEF Rejoin, UpdateSetRss, ProbeTick, Collect, RejoinDone, UpdateAdd,
           UpdateWaits, ghosts, PromotedInv
  <2>4. CASE \/ UpdateFails \/ UpdateKnown \/ UpdateUnknown \/ CmTick
             \/ TakeActive \/ CfgPodList \/ CfgDetecting
    BY <2>4
       DEF UpdateFails, UpdateKnown, UpdateUnknown, CmTick, TakeActive,
           CfgPodList, CfgDetecting, ghosts, PromotedInv
  <2>5. CASE Reconcile
    BY <2>5 DEF Reconcile, ReconcileList, ReconcileBuild, ReconcileSignals,
                ReconcileBuildFails, ghosts, PromotedInv
  <2>6. ~OperatorRestart
    BY DEF OperatorRestart, Spend, PromotedInv
  <2>7. CASE SpecChange \/ \E p \in Pods :
               Crash(p) \/ Recover(p) \/ Boot(p) \/ Evict(p) \/ PodCreated(p)
    BY <2>7
       DEF SpecChange, Crash, Recover, Boot, Evict, PodCreated, thread, ghosts,
           PromotedInv
  <2>8. CASE UNCHANGED vars
    BY <2>8 DEF vars, ghosts, PromotedInv
  <2> QED
    BY <2>1, <2>2, <2>3, <2>4, <2>5, <2>6, <2>7, <2>8
       DEF Next, Thread, Handler, Environment
<1> QED
  BY <1>1, <1>2 DEF PromotedInv

\* The node a failover has promoted is never restored from another one before
\* a later failover replaces it: no update, eviction or recovery throws the
\* data of the primary away. The premises are needed: a promotion whose answer
\* is lost, and one that a replaced operator has forgotten, are not kept.
THEOREM PromotionIsKept ==
    ASSUME MaxFaults["stderr"] = 0, MaxFaults["lost"] = 0,
           MaxFaults["restart"] = 0
    PROVE  Spec => []PromotionKept
<1>1. Init => PromotedInv
  BY DEF Init, PromotedInv
<1>2. SafeInv /\ PromotedInv => PromotionKept
  BY DEF SafeInv, PrimaryInv, PromotedInv, PromotionKept
<1> QED
  BY <1>1, <1>2, SafeInvariant, PromotedStep, PTL DEF Spec
=============================================================================
