--------------------------- MODULE ClusterThread ---------------------------
(***************************************************************************)
(* One cluster as the operator manages it: the goroutine clusterThread of  *)
(* controllers/cluster_manager.go with the fields of its clusterManager,   *)
(* the Reconcile calls that feed it, and the database pods it watches and  *)
(* commands.                                                               *)
(*                                                                         *)
(* clusterThread handles one event at a time; a handler that sends a       *)
(* command to a pod is one action per command, so a pod may crash, come    *)
(* back or be evicted between two commands. The status answers a handler   *)
(* collects before it decides are read in one action: they come from       *)
(* different pods, so a reading in between is the one of an earlier or a   *)
(* later state of that pod alone.                                          *)
(***************************************************************************)
EXTENDS NodeInfo

CONSTANTS
    Counts,     \* the values detectingCount takes in the custom resource
    FailedCap,  \* currFailedCount is counted up to this value
    MaxFaults   \* how often each kind of fault may happen

FaultKinds == {"crash", "evict", "glitch", "lost", "stderr", "api",
               "restart", "spec"}

ASSUME ThreadAssumption ==
    /\ Cardinality(Pods) >= 2
    /\ FailedCap \in Nat
    /\ Counts # {}
    /\ Counts \subseteq 0 .. FailedCap
    /\ MaxFaults \in [FaultKinds -> Nat]

VARIABLES
    db,       \* the database nodes (NodeInfo)
    listed,   \* the pods that exist at the API server
    spec,     \* detectingCount of the custom resource
    budget,   \* faults that may still happen, per kind
    \* fields of clusterManager
    primary,  \* primaryPod
    sub,      \* names in SubStatus of the NodeInfo a handler works on
    failed,   \* currFailedCount
    flag,     \* detectingFlag
    count,    \* detecting.detectingCount
    podList,  \* podList
    gOn,      \* updateGbase8sClusterTicker is running
    cOn,      \* updateCmClusterTicker is running
    active,   \* activeUpdateCluster holds its one message
    \* locals of the handler in progress
    pc,       \* where clusterThread is
    tgt,      \* the primary the handler works for
    cands,    \* secondaryNodeList still to try
    missing,  \* nodes to register on tgt
    todo,     \* nodes still to be made RSS nodes of tgt
    clean,    \* no error so far, and every pod has answered
    \* the Reconcile call in progress
    recon,    \* where it is
    seen,     \* the pods and the count it passes to AddCluster
    \* history
    streak,       \* consecutive failed probes of primary, under the
                  \* parameters in force
    lastPromoted  \* the pod the last failover command was executed on

env    == <<db, listed, spec, budget>>
cfg    == <<count, podList>>
timers == <<gOn, cOn, active>>
locals == <<tgt, cands, missing, todo, clean>>
recvrs == <<recon, seen>>
ghosts == <<streak, lastPromoted>>
vars   == <<env, primary, sub, failed, flag, cfg, timers, pc, locals, recvrs,
            ghosts>>

PCs    == {"idle", "collect", "promote", "rejoin", "add", "setrss"}
Recons == {"none", "podlist", "detecting", "build"}

Running == {p \in listed : ~Down(db, p)}

Spend(k, n) == /\ budget[k] >= n
               /\ budget' = [budget EXCEPT ![k] = @ - n]

\* A request to p fails: p is down, its agent is not up yet, or the network
\* fails for once.
Unreachable(p) == \/ ~Online(db, p) /\ UNCHANGED budget
                  \/ Online(db, p) /\ Spend("glitch", 1)

\* A is the part of the pods S that answers; the others are like that.
Answer(A, S) ==
    /\ A \subseteq S \cap Running
    /\ Spend("glitch", Cardinality({p \in S \ A : Online(db, p)}))

----------------------------------------------------------------------------
\* AddCluster has just created the thread for the pods of the first Reconcile,
\* which goes on with BuildCluster.
Init ==
    /\ listed \in SUBSET Pods \ {{}}
    /\ db = [p \in Pods |->
               [status |-> IF p \in listed THEN "starting" ELSE "down",
                type |-> Standard, src |-> NoPod, subs |-> {}]]
    /\ spec \in Counts
    /\ budget = MaxFaults
    /\ primary = NoPod /\ sub = {} /\ failed = 0 /\ flag = FALSE
    /\ count = spec /\ podList = listed
    /\ gOn = FALSE /\ cOn = FALSE /\ active = FALSE
    /\ pc = "idle" /\ tgt = NoPod /\ clean = TRUE
    /\ cands = {} /\ missing = {} /\ todo = {}
    /\ recon = "build" /\ seen = [pods |-> {}, count |-> spec]
    /\ streak = 0 /\ lastPromoted = NoPod

----------------------------------------------------------------------------
(* procFailover: the detecting ticker fired.                               *)

\* Mutant of Counted: a good answer takes one failure back.
CountedDown(n, probeFailed) == IF ~probeFailed THEN n - 1 ELSE n + 1

\* The counter after a probe.
Counted(n, probeFailed) ==
    IF ~probeFailed THEN 0 ELSE IF n < FailedCap THEN n + 1 ELSE n

ThresholdReached(n, c) == n >= c

\* "shared memory not initialized", or no answer in time.
ProbeTick ==
    /\ pc = "idle" /\ flag /\ primary # NoPod
    /\ \E probeFailed \in BOOLEAN :
         /\ IF probeFailed THEN Unreachable(primary)
            ELSE primary \in Running /\ UNCHANGED budget
         /\ failed' = Counted(failed, probeFailed)
         /\ streak' = IF ~probeFailed THEN 0
                      ELSE IF streak < FailedCap THEN streak + 1 ELSE streak
    /\ pc' = IF ThresholdReached(failed', count) THEN "collect" ELSE "idle"
    /\ UNCHANGED <<db, listed, spec, primary, sub, flag, cfg, timers, locals,
                   recvrs, lastPromoted>>

\* Mutants of Secondaries: any node that answers, or linked ones only.
SecondariesAny(nodes, p) == {n.pod : n \in nodes}
SecondariesLinked(nodes, p) ==
    {n.pod : n \in {m \in nodes : m.source = p /\ m.connected}}

\* The secondaries whose source is the lost primary.
Secondaries(nodes, p) == {n.pod : n \in {m \in nodes : m.source = p}}

RssNodes(nodes) == {n.pod : n \in {m \in nodes : m.type = RSS}}

Collect ==
    /\ pc = "collect"
    /\ \E A \in SUBSET podList :
         /\ Answer(A, podList \ {primary})
         /\ LET nodes == RssStatus(db, A)
                sec   == Secondaries(nodes, primary)
            IN  /\ cands' = sec
                /\ todo' = IF sec = {} THEN {} ELSE RssNodes(nodes)
                /\ pc' = IF sec = {} THEN "idle" ELSE "promote"
    /\ UNCHANGED <<db, listed, spec, primary, sub, failed, flag, cfg, timers,
                   tgt, missing, clean, recvrs, ghosts>>

\* Mutant of PromoteNode: the other nodes are not registered.
PromoteNodeAlone(d, v, S) == SetStandard(d, v)

\* `onmode -d standard && onmode -d add RSS s && ...` on v.
PromoteNode(d, v, S) == AddRss(SetStandard(d, v), v, S)

\* The candidate v is given up; the next one is tried.
NextCandidate(v) ==
    /\ cands' = cands \ {v}
    /\ IF cands = {v} THEN pc' = "idle" /\ todo' = {}
                      ELSE pc' = "promote" /\ UNCHANGED todo
    /\ UNCHANGED <<primary, sub, failed, active, tgt, streak>>

\* Mutant of AdoptPrimary: primaryPod keeps the lost primary.
AdoptNobody(v) ==
    /\ failed' = 0 /\ streak' = 0
    /\ UNCHANGED <<primary, sub>>
    /\ tgt' = v /\ cands' = {} /\ pc' = "rejoin"

\* The call returned no error, so v is the primary from now on.
AdoptPrimary(v) ==
    /\ failed' = 0 /\ streak' = 0
    /\ primary' = v /\ sub' = podList \ {v}
    /\ tgt' = v /\ cands' = {} /\ pc' = "rejoin"

\* There is nobody to add, or the call fails and nothing was executed.
PromoteSkipped(v) ==
    /\ IF podList \subseteq {v} THEN UNCHANGED budget ELSE Unreachable(v)
    /\ NextCandidate(v)
    /\ UNCHANGED <<db, lastPromoted>>

\* The command was executed but its answer did not arrive.
PromoteLost(v) ==
    /\ ~(podList \subseteq {v}) /\ Online(db, v)
    /\ Spend("lost", 1)
    /\ db' = PromoteNode(db, v, podList \ {v})
    /\ lastPromoted' = v
    /\ NextCandidate(v)

Promoted(v) ==
    /\ ~(podList \subseteq {v}) /\ Online(db, v)
    /\ db' = PromoteNode(db, v, podList \ {v})
    /\ lastPromoted' = v
    /\ AdoptPrimary(v)
    /\ todo' = todo \ {v}
    /\ UNCHANGED <<budget, active>>

\* The agent answers, but the command fails, at once or half way, and says so
\* on stderr. That is only logged: v is the primary, and no node is rejoined.
PromoteStderr(v) ==
    /\ ~(podList \subseteq {v}) /\ v \in listed
    /\ Spend("stderr", 1)
    /\ \/ UNCHANGED db
       \/ Online(db, v) /\ db' = SetStandard(db, v)
    /\ AdoptPrimary(v)
    /\ todo' = {}
    /\ UNCHANGED <<active, lastPromoted>>

Promote(v) ==
    /\ pc = "promote" /\ v \in cands
    /\ \/ PromoteSkipped(v)
       \/ PromoteLost(v)
       \/ Promoted(v)
       \/ PromoteStderr(v)
    /\ UNCHANGED <<listed, spec, flag, cfg, gOn, cOn, missing, clean, recvrs>>

\* One of the other RSS nodes is restored from the new primary. A failure is
\* only logged.
RestoreFails(q) == \/ ~CanSetRss(db, q, tgt) /\ UNCHANGED budget
                   \/ CanSetRss(db, q, tgt) /\ Spend("glitch", 1)

RestoreWorks(q) == /\ CanSetRss(db, q, tgt)
                   /\ db' = SetRss(db, q, tgt)

Rejoin(q) ==
    /\ pc = "rejoin" /\ q \in todo
    /\ \/ RestoreFails(q) /\ UNCHANGED db
       \/ RestoreWorks(q) /\ UNCHANGED budget
    /\ todo' = todo \ {q}
    /\ UNCHANGED <<listed, spec, primary, sub, failed, flag, cfg, timers, pc,
                   tgt, cands, missing, clean, recvrs, ghosts>>

\* Mutant of RejoinDone: no signal is sent.
RejoinDoneSilently ==
    /\ pc = "rejoin" /\ todo = {}
    /\ pc' = "idle" /\ tgt' = NoPod
    /\ UNCHANGED <<env, primary, sub, failed, flag, cfg, timers, cands,
                   missing, todo, clean, recvrs, ghosts>>

\* The failover ends with a signal to update the cluster, dropped when one is
\* already waiting.
RejoinDone ==
    /\ pc = "rejoin" /\ todo = {}
    /\ pc' = "idle" /\ tgt' = NoPod /\ active' = TRUE
    /\ UNCHANGED <<env, primary, sub, failed, flag, cfg, gOn, cOn, cands,
                   missing, todo, clean, recvrs, ghosts>>

----------------------------------------------------------------------------
(* procUpdateGbase8sCluster: the update ticker fired. An error other than  *)
(* "wait" stops the ticker; "wait" leaves everything to the next tick.     *)

UpdateTick == pc = "idle" /\ gOn

\* The API server cannot be read, or no primary can be named.
UpdateFails ==
    /\ UpdateTick
    /\ \/ Spend("api", 1)
       \/ /\ primary = NoPod /\ listed = Pods /\ UNCHANGED budget
          /\ LET nodes == RssStatus(db, Pods) IN
               /\ \A n \in nodes : ~NeedsWait(n)
               /\ ~IsGbase8sClusterNormal(nodes)
               /\ RealPrimaries(nodes) = {}
    /\ gOn' = FALSE
    /\ UNCHANGED <<db, listed, spec, primary, sub, failed, flag, cfg, cOn,
                   active, pc, locals, recvrs, ghosts>>

\* Mutant of WrongSource: a node that calls itself primary is left alone.
WrongSecondaries(nodes, p) ==
    {n.pod : n \in {m \in nodes : m.pod # p /\ m.source # p
                                    /\ m.type # Primary}}

\* The nodes addSecondary registers, and those setRssServerType restores.
Unregistered(nodes, p, s) == {n.pod : n \in nodes} \ (s \cup {p})
WrongSource(nodes, p) ==
    {n.pod : n \in {m \in nodes : m.pod # p /\ m.source # p}}

\* The handler has chosen p, whose SubStatus is s, over the answers nodes.
StartUpdate(nodes, p, s, all) ==
    /\ tgt' = p /\ sub' = s /\ clean' = all
    /\ missing' = Unregistered(nodes, p, s)
    /\ todo' = WrongSource(nodes, p)
    /\ pc' = IF missing' = {} THEN "setrss" ELSE "add"

\* A primary is known: the pods that answer are adjusted to it.
UpdateKnown ==
    /\ UpdateTick /\ listed = Pods /\ primary # NoPod
    /\ \E A \in SUBSET Pods \ {{}} :
         /\ Answer(A, Pods)
         /\ StartUpdate(RssStatus(db, A), primary, sub,
                        A = Pods)
    /\ UNCHANGED <<db, listed, spec, primary, failed, flag, cfg, timers,
                   cands, recvrs, ghosts>>

\* No primary is known: once every pod is on line, one is named, unless the
\* cluster is already complete.
UpdateUnknown ==
    /\ UpdateTick /\ listed = Pods /\ primary = NoPod
    /\ LET nodes == RssStatus(db, Pods) IN
         /\ \A n \in nodes : ~NeedsWait(n)
         /\ IF IsGbase8sClusterNormal(nodes)
            THEN /\ pc' = "setrss" /\ todo' = {} /\ clean' = TRUE
                 /\ UNCHANGED <<tgt, sub, missing>>
            ELSE \E n \in RealPrimaries(nodes) :
                   StartUpdate(nodes, n.pod, n.sub, TRUE)
    /\ UNCHANGED <<env, primary, failed, flag, cfg, timers, cands, recvrs,
                   ghosts>>

\* The handler returns with "wait": the NodeInfo of a primary chosen in this
\* handler is forgotten, that of primaryPod keeps what it learned.
LeaveUpdate ==
    /\ pc' = "idle" /\ tgt' = NoPod /\ missing' = {} /\ todo' = {}
    /\ clean' = TRUE

\* Mutant of KeepSub: SubStatus grows although the command failed.
KeepMissing(s) == sub' = IF primary = NoPod THEN {} ELSE s \cup missing

KeepSub(s) == sub' = IF primary = NoPod THEN {} ELSE s

\* addSecondary
UpdateAdd ==
    /\ pc = "add"
    /\ \/ /\ CanAddRss(db, tgt)
          /\ db' = AddRss(db, tgt, missing)
          /\ \/ /\ sub' = sub \cup missing /\ missing' = {} /\ pc' = "setrss"
                /\ UNCHANGED <<budget, tgt, todo, clean>>
             \/ /\ Spend("lost", 1) /\ KeepSub(sub) /\ LeaveUpdate
       \/ /\ \/ ~CanAddRss(db, tgt) /\ UNCHANGED budget
             \/ CanAddRss(db, tgt) /\ Spend("glitch", 1)
          /\ UNCHANGED db /\ KeepSub(sub) /\ LeaveUpdate
    /\ UNCHANGED <<listed, spec, primary, failed, flag, cfg, timers, cands,
                   recvrs, ghosts>>

\* setRssServerType, for one node
UpdateSetRss(q) ==
    /\ pc = "setrss" /\ q \in todo
    /\ \/ q \notin sub /\ clean' = FALSE /\ UNCHANGED <<db, budget>>
       \/ q \in sub /\ RestoreFails(q) /\ clean' = FALSE /\ UNCHANGED db
       \/ q \in sub /\ RestoreWorks(q) /\ UNCHANGED <<budget, clean>>
       \/ q \in sub /\ RestoreWorks(q) /\ Spend("lost", 1) /\ clean' = FALSE
    /\ todo' = todo \ {q}
    /\ UNCHANGED <<listed, spec, primary, sub, failed, flag, cfg, timers, pc,
                   tgt, cands, missing, recvrs, ghosts>>

UpdateWaits ==
    /\ pc = "setrss" /\ todo = {} /\ ~clean
    /\ KeepSub(sub) /\ LeaveUpdate
    /\ UNCHANGED <<env, primary, failed, flag, cfg, timers, cands, recvrs,
                   ghosts>>

\* startDetecting reads every pod again when no primary is known; it finds
\* none when a pod does not answer or no pod says it is one.
FoundPrimaries ==
    IF \A p \in listed : ~Down(db, p)
    THEN {n \in RssStatus(db, listed) : n.type = Primary}
    ELSE {}

StartDetecting ==
    /\ flag' = TRUE
    /\ \/ primary # NoPod /\ UNCHANGED <<budget, primary, sub>>
       \/ /\ primary = NoPod /\ UNCHANGED budget
          /\ \E n \in FoundPrimaries : primary' = n.pod /\ sub' = n.sub
       \/ /\ primary = NoPod
          /\ IF FoundPrimaries = {} THEN UNCHANGED budget
                                    ELSE Spend("glitch", 1)
          /\ sub' = {} /\ UNCHANGED primary

UpdateDone ==
    /\ pc = "setrss" /\ todo = {} /\ clean
    /\ gOn' = FALSE /\ cOn' = TRUE
    /\ StartDetecting
    /\ LeaveUpdate
    /\ UNCHANGED <<db, listed, spec, failed, cfg, active, cands, recvrs,
                   ghosts>>

----------------------------------------------------------------------------
(* The other events of clusterThread.                                      *)

\* procUpdateCmCluster returns nil, or an error other than "wait".
CmTick ==
    /\ pc = "idle" /\ cOn /\ cOn' = FALSE
    /\ UNCHANGED <<env, primary, sub, failed, flag, cfg, gOn, active, pc,
                   locals, recvrs, ghosts>>

TakeActive ==
    /\ pc = "idle" /\ active
    /\ active' = FALSE /\ gOn' = TRUE
    /\ UNCHANGED <<env, primary, sub, failed, flag, cfg, cOn, pc, locals,
                   recvrs, ghosts>>

\* procModifyParam: a new list of pods.
CfgPodList ==
    /\ pc = "idle" /\ recon = "podlist"
    /\ podList' = seen.pods
    /\ recon' = "detecting" /\ seen' = [seen EXCEPT !.pods = {}]
    /\ UNCHANGED <<env, primary, sub, failed, flag, count, timers, pc, locals,
                   ghosts>>

\* Mutant of CfgDetecting: the failures counted so far are kept.
CfgDetectingKeeps ==
    /\ pc = "idle" /\ recon = "detecting"
    /\ count' = seen.count
    /\ streak' = IF count = seen.count THEN streak ELSE 0
    /\ recon' = "build"
    /\ UNCHANGED <<env, primary, sub, failed, flag, podList, timers, pc,
                   locals, seen, lastPromoted>>

\* procModifyParam: the detecting parameters. A new detectingCount starts the
\* count of failures again, and so does a new detectingInterval, which has no
\* other effect here: it is a change of the resource of its own.
CfgDetecting ==
    /\ pc = "idle" /\ recon = "detecting"
    /\ count' = seen.count
    /\ \/ /\ IF count = seen.count THEN UNCHANGED <<failed, streak>>
                                   ELSE failed' = 0 /\ streak' = 0
          /\ UNCHANGED budget
       \/ Spend("spec", 1) /\ failed' = 0 /\ streak' = 0
    /\ recon' = "build"
    /\ UNCHANGED <<db, listed, spec, primary, sub, flag, podList, timers, pc,
                   locals, seen, lastPromoted>>

----------------------------------------------------------------------------
(* Reconcile, the part that reaches this thread: it lists the pods,        *)
(* AddCluster hands them and the parameters over, BuildCluster writes the  *)
(* pods' files and UpdateCluster signals the thread.                       *)

\* Some container answers GetHostTemplate.
ReconcileList ==
    /\ recon = "none" /\ Running # {}
    /\ seen' = [pods |-> listed, count |-> spec]
    /\ recon' = "podlist"
    /\ UNCHANGED <<env, primary, sub, failed, flag, cfg, timers, pc, locals,
                   ghosts>>

\* BuildCluster returns no error. It ends so too, without a look at any pod's
\* container, as long as a pod of either part is missing.
ReconcileSignals ==
    /\ recon = "build"
    /\ active' = TRUE
    /\ recon' = "none"
    /\ UNCHANGED <<env, primary, sub, failed, flag, cfg, gOn, cOn, pc, locals,
                   seen, ghosts>>

\* BuildCluster fails, and no signal is sent: the pods cannot be listed, or all
\* of them are there and no database container, or none of the connection
\* managers', which are not part of this module, answers GetHostTemplate.
ReconcileBuildFails ==
    /\ recon = "build"
    /\ \/ listed = Pods /\ UNCHANGED budget
       \/ Spend("api", 1)
    /\ recon' = "none"
    /\ UNCHANGED <<db, listed, spec, primary, sub, failed, flag, cfg, timers,
                   pc, locals, seen, ghosts>>

ReconcileBuild == ReconcileSignals \/ ReconcileBuildFails

----------------------------------------------------------------------------
(* The environment.                                                        *)

thread == <<primary, sub, failed, flag, podList, gOn, cOn, active, pc, locals>>

SetStatus(p, s) == db' = [db EXCEPT ![p] = [@ EXCEPT !.status = s]]

Crash(p) ==
    /\ ~Down(db, p) /\ Spend("crash", 1) /\ SetStatus(p, "down")
    /\ UNCHANGED <<listed, spec, thread, count, recvrs, ghosts>>

\* The kubelet restarts the container, or the pod's agent the server.
Recover(p) ==
    /\ p \in listed /\ Down(db, p) /\ SetStatus(p, "starting")
    /\ UNCHANGED <<listed, spec, budget, thread, count, recvrs, ghosts>>

Boot(p) ==
    /\ db[p].status = "starting" /\ SetStatus(p, "online")
    /\ UNCHANGED <<listed, spec, budget, thread, count, recvrs, ghosts>>

\* The pod is deleted; its data stay on the persistent volume.
Evict(p) ==
    /\ p \in listed /\ Spend("evict", 1)
    /\ listed' = listed \ {p} /\ SetStatus(p, "down")
    /\ UNCHANGED <<spec, thread, count, recvrs, ghosts>>

PodCreated(p) ==
    /\ p \notin listed
    /\ listed' = listed \cup {p} /\ SetStatus(p, "starting")
    /\ UNCHANGED <<spec, budget, thread, count, recvrs, ghosts>>

SpecChange ==
    /\ Spend("spec", 1)
    /\ spec' \in Counts \ {spec}
    /\ UNCHANGED <<db, listed, thread, count, recvrs, ghosts>>

\* The operator's process is replaced, and the first Reconcile of the new one
\* has created the thread again.
OperatorRestart ==
    /\ Running # {} /\ Spend("restart", 1)
    /\ primary' = NoPod /\ sub' = {} /\ failed' = 0 /\ flag' = FALSE
    /\ count' = spec /\ podList' = listed
    /\ gOn' = FALSE /\ cOn' = FALSE /\ active' = FALSE
    /\ pc' = "idle" /\ tgt' = NoPod /\ clean' = TRUE
    /\ cands' = {} /\ missing' = {} /\ todo' = {}
    /\ recon' = "build" /\ seen' = [pods |-> {}, count |-> spec]
    /\ streak' = 0
    /\ UNCHANGED <<db, listed, spec, lastPromoted>>

----------------------------------------------------------------------------
Handler ==
    \/ Collect
    \/ \E v \in Pods : Promote(v)
    \/ \E q \in Pods : Rejoin(q)
    \/ RejoinDone
    \/ UpdateAdd
    \/ \E q \in Pods : UpdateSetRss(q)
    \/ UpdateWaits
    \/ UpdateDone

Thread ==
    \/ ProbeTick
    \/ UpdateFails
    \/ UpdateKnown
    \/ UpdateUnknown
    \/ CmTick
    \/ TakeActive
    \/ CfgPodList
    \/ CfgDetecting
    \/ Handler

Reconcile == ReconcileList \/ ReconcileBuild

Environment ==
    \/ \E p \in Pods : \/ Crash(p)
                       \/ Recover(p)
                       \/ Boot(p)
                       \/ Evict(p)
                       \/ PodCreated(p)
    \/ SpecChange
    \/ OperatorRestart

Next == Thread \/ Reconcile \/ Environment

Spec == Init /\ [][Next]_vars

\* The code's scheduling: a handler runs to its end; `select` takes one of the
\* ready events at random, so an event that is ready again and again is taken;
\* the controller calls Reconcile on every change of a StatefulSet and on
\* every resync; again and again some connection manager's container answers
\* it; StatefulSet controller and kubelet create pods and start them.
Fairness ==
    /\ WF_vars(Handler)
    /\ SF_vars(ProbeTick)
    /\ SF_vars(UpdateFails \/ UpdateKnown \/ UpdateUnknown)
    /\ SF_vars(TakeActive) /\ SF_vars(CfgPodList) /\ SF_vars(CfgDetecting)
    /\ WF_vars(ReconcileList) /\ SF_vars(ReconcileSignals)
    /\ \A p \in Pods : WF_vars(PodCreated(p)) /\ WF_vars(Boot(p))

\* A crashed container or server may stay down ...
FairSpec == Spec /\ Fairness

\* ... or comes back.
RecoverySpec == FairSpec /\ \A p \in Pods : WF_vars(Recover(p))

----------------------------------------------------------------------------
TypeOK ==
    /\ db \in [Pods -> NodeState]
    /\ listed \subseteq Pods
    /\ \A p \in Pods \ listed : Down(db, p)
    /\ spec \in Counts
    /\ budget \in [FaultKinds -> Nat]
    /\ primary \in Pods \cup {NoPod}
    /\ sub \subseteq Pods
    /\ failed \in 0 .. FailedCap
    /\ flag \in BOOLEAN
    /\ count \in Counts
    /\ podList \subseteq Pods
    /\ gOn \in BOOLEAN /\ cOn \in BOOLEAN /\ active \in BOOLEAN
    /\ pc \in PCs
    /\ tgt \in Pods \cup {NoPod}
    /\ cands \subseteq Pods /\ missing \subseteq Pods /\ todo \subseteq Pods
    /\ clean \in BOOLEAN
    /\ recon \in Recons
    /\ seen \in [pods : SUBSET Pods, count : Counts]
    /\ streak \in 0 .. FailedCap
    /\ lastPromoted \in Pods \cup {NoPod}

\* A failover is under way only after the primary it replaces has failed
\* detectingCount probes in a row, and at least one: one good answer, a new
\* primary or new parameters start the count again.
FailoverJustified ==
    pc \in {"collect", "promote"} => streak >= count /\ streak >= 1

\* The pod that is probed and that the other nodes are restored from is a
\* primary in the database's own view.
BelievedIsPrimary == primary # NoPod => db[primary].type = Primary

\* SubStatus decides which nodes are registered and which may be restored: a
\* name in it is registered on the primary.
SubStatusSound == primary # NoPod => sub \subseteq db[primary].subs

\* The data of a node the operator has promoted are not thrown away: it is
\* never restored from another node until a later failover promotes that one.
PromotionKept == lastPromoted # NoPod => db[lastPromoted].type = Primary

\* A second node that takes itself for the primary (a deposed one that came
\* back) does not stay unnoticed: the update ticker runs, or a signal that
\* starts it waits, or a handler is working.
DeposedTracked ==
    \A p \in Pods \ {primary} :
        primary # NoPod /\ db[p].type = Primary => gOn \/ active \/ pc # "idle"

\* q has its data from p and is registered there.
ReplicaOf(q, p) == db[q].type = RSS /\ db[q].src = p /\ q \in db[p].subs

\* No node is forgotten: as long as one is not a replica of the primary (it
\* follows another node or none, or the primary does not know it), an update is
\* running or going to run. In a cluster at rest all nodes are linked.
StrayTracked ==
    \A q \in Pods \ {primary} :
        primary # NoPod /\ ~ReplicaOf(q, primary) =>
            gOn \/ active \/ pc # "idle"

\* A thread that knows no primary, at the first start or because the operator was
\* replaced, takes one up only when every other node is its replica: whatever the
\* pods printed when the update began and whichever command failed, startDetecting
\* finds that one and no deposed primary.
AdoptsLinked ==
    [][primary = NoPod /\ primary' # NoPod =>
          \A q \in Pods \ {primary'} : ReplicaOf(q, primary')]_vars

\* Failover promotes a replica of the primary it replaces, never a node of
\* another generation, and never the primary itself.
PromotesReplica ==
    [][lastPromoted' # lastPromoted =>
          /\ db[lastPromoted'].type = RSS
          /\ db[lastPromoted'].src = primary]_vars

\* While the primary is down and a replica of it is on line, the operator does
\* not wait for ever: it fails over, or the primary comes back. Nothing is
\* claimed of a behaviour in which a failover command fails on its node: its
\* node is then taken for the primary although it may not be one.
FailoverNeeded ==
    /\ flag /\ primary # NoPod /\ Down(db, primary)
    /\ \E q \in podList : Online(db, q) /\ db[q].src = primary

FailoverHappens ==
    [](budget["stderr"] = MaxFaults["stderr"]) => []<>~FailoverNeeded

\* When faults stop, the cluster ends with one primary the operator knows and
\* watches, and every other node linked to it.
Healthy ==
    /\ flag /\ primary # NoPod
    /\ \A q \in Pods \ {primary} : Linked(db, q, primary)

Convergence == <>[]Healthy

----------------------------------------------------------------------------
(* The abstract specification: who leads, and how nodes change roles.      *)

Role == [p \in Pods |-> db[p].type]
From == [p \in Pods |-> db[p].src]

Roles == INSTANCE Leadership WITH leader <- primary, role <- Role, from <- From

\* Whatever the order of probes, updates, lost answers and restarts, a node
\* changes its role only as the leader's replica that takes its place, as a
\* node that takes the leader's data, or, when nobody leads, to form a cluster.
ImplementsLeadership == Roles!Spec
=============================================================================
