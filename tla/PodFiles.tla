------------------------------ MODULE PodFiles ------------------------------
(***************************************************************************)
(* BuildCluster (controllers/gbase8s_cluster_builder.go), which writes the *)
(* files that name all pods of a cluster into each of them, and            *)
(* procUpdateCmCluster (controllers/cluster_manager.go), which starts the  *)
(* connection managers, while pods come up, restart and are scaled.        *)
(*                                                                         *)
(* Both learn of the pods from the cache and reach them by exec, one       *)
(* command per pod, so one command is one action. A file says how many     *)
(* pods it names: the pods of a StatefulSet are numbered, and their names  *)
(* differ in the number alone. Files and processes of a container are gone *)
(* when it restarts.                                                       *)
(*                                                                         *)
(* Simplified: the StatefulSets follow the resource (module Reconciler);   *)
(* they would not at 0 replicas, which nobody asks for here, so that       *)
(* procUpdateCmCluster never refuses the number of connection managers.    *)
(* procUpdateGbase8sCluster succeeds once its pods run, or fails (module   *)
(* ClusterThread).                                                         *)
(***************************************************************************)
EXTENDS Integers, FiniteSets, Sequences

CONSTANTS
    Wanted,      \* the replicas a user may ask for: functions on Parts
    None,        \* no file
    Failures,    \* how a pod may fail: its container restarts ("waiting"), or
                 \* it is evicted ("gone")
    MaxChanges,  \* bound: changes of the resource
    MaxFaults    \* bound: API errors, failed commands and lost pods

Parts == {"gbase8s", "cm"}

ASSUME PodFilesAssumption ==
    /\ Wanted \subseteq [Parts -> Nat \ {0}]
    /\ IsFiniteSet(Wanted)
    /\ Failures \subseteq {"waiting", "gone"}
    /\ MaxChanges \in Nat /\ MaxFaults \in Nat

Pods == UNION {{p} \X (0 .. w[p] - 1) : p \in Parts, w \in Wanted}

PodsOf(p) == {c \in Pods : c[1] = p}

VARIABLES
    want,    \* the replicas the resource asks for
    pod,     \* the state of each pod
    cached,  \* the same in the cache
    file,    \* the files in each pod: the numbers of pods they name
    runs,    \* the CM pods in which oncmsm runs
    \* BuildCluster
    at,      \* the step Reconcile is at
    expect,  \* the replicas it has read
    list,    \* the pods that ran when it listed them
    left,    \* the pods still to be written in this step
    \* the cluster's thread
    active, gOn, cOn,  \* the signal and the two tickers of the update
    loop,    \* procUpdateCmCluster goes through the CM pods
    todo,    \* CM pods still to be asked
    \* bounds and history
    changes, faults,
    excuse   \* since the listing a write failed, or pods or resource changed

env    == <<want, pod, file, runs, changes>>
build  == <<at, expect, list, left>>
timers == <<active, gOn, cOn>>
thread == <<timers, loop, todo>>
vars   == <<env, cached, build, thread, faults, excuse>>

\* "created": the kubelet has not yet reported any container status.
States == {"gone", "created", "waiting", "running"}
Steps  == <<"hostfile", "sqlhosts", "sqlhosts.cm">>
Names  == {Steps[n] : n \in DOMAIN Steps}

\* The part whose pods get a file, and the numbers it depends on: sqlhosts
\* names the database pods, the other two all pods.
PartOf(name)   == IF name = "sqlhosts.cm" THEN "cm" ELSE "gbase8s"
About(name, w) == IF name = "sqlhosts" THEN [w EXCEPT !["cm"] = 0] ELSE w

Nothing == [p \in Parts |-> 0]
NoFiles == [name \in Names |-> None]
Exists(S) == {c \in Pods : S[c] # "gone"}
Runs(S)   == {c \in Pods : S[c] = "running"}
Counts(S) == [p \in Parts |-> Cardinality(Exists(S) \cap PodsOf(p))]

\* The pods the resource asks for.
Asked == {c \in Pods : c[2] < want[c[1]]}

Fault == faults < MaxFaults /\ faults' = faults + 1

\* The pods run before their files are written; pods that come up later are
\* those of Change and PodFails.
Init ==
    /\ want \in Wanted
    /\ pod = [c \in Pods |-> IF c \in Asked THEN "running" ELSE "gone"]
    /\ cached = pod
    /\ file = [c \in Pods |-> NoFiles] /\ runs = {}
    /\ at = "none" /\ expect = Nothing /\ list = {} /\ left = {}
    /\ active = FALSE /\ gOn = FALSE /\ cOn = FALSE
    /\ loop = FALSE /\ todo = {}
    /\ changes = 0 /\ faults = 0 /\ excuse = FALSE

----------------------------------------------------------------------------
(* Reconcile, from the reading of the resource to the signal.              *)

\* Some pod of p that is listed as running answers.
Answers(p) == Runs(cached) \cap Runs(pod) \cap PodsOf(p) # {}

ReturnTo(step) ==
    at' = step /\ expect' = Nothing /\ list' = {} /\ left' = {}

Begin ==
    /\ at = "none" /\ Answers("gbase8s")
    /\ at' = "list" /\ expect' = want
    /\ UNCHANGED <<env, cached, list, left, thread, faults, excuse>>

\* The pods are not all there yet: BuildCluster returns nil.
NotBuilt ==
    /\ at = "list" /\ Counts(cached) # expect
    /\ ReturnTo("signal") /\ excuse' = TRUE
    /\ UNCHANGED <<env, cached, thread, faults>>

\* The pods cannot be listed, or no pod of one part answers GetHostTemplate:
\* BuildCluster returns an error, and there is no signal.
BuildFails ==
    /\ at = "list"
    /\ \/ /\ Counts(cached) = expect /\ UNCHANGED faults
          /\ \E p \in Parts : ~Answers(p)
       \/ Fault
    /\ ReturnTo("none")
    /\ UNCHANGED <<env, cached, thread, excuse>>

ListPods ==
    /\ at = "list" /\ Counts(cached) = expect
    /\ \A p \in Parts : Answers(p)
    /\ list' = Runs(cached)
    /\ at' = Steps[1] /\ left' = list' \cap PodsOf(PartOf(at'))
    /\ excuse' = (cached # pod \/ expect # want \/ list' # Asked)
    /\ UNCHANGED <<env, cached, expect, thread, faults>>

\* Mutant of Written: a file that is there is left alone.
WrittenOnce(f, w) == IF f = None THEN w ELSE f

\* A write replaces the file.
Written(f, w) == w

\* BuildTrust, BuildGbase8sSqlhost and BuildCmSqlhost, for one pod. An error is
\* logged.
Write(c) ==
    /\ at \in Names /\ c \in left
    /\ left' = left \ {c}
    /\ \/ /\ c \in Runs(pod)
          /\ file' = [file EXCEPT ![c][at] = Written(@, About(at, expect))]
          /\ UNCHANGED <<faults, excuse>>
       \/ /\ c \notin Runs(pod) /\ UNCHANGED <<file, faults>>
          /\ excuse' = TRUE
       \/ /\ c \in Runs(pod) /\ Fault /\ UNCHANGED file
          /\ excuse' = TRUE
    /\ UNCHANGED <<want, pod, runs, changes, cached, at, expect, list, thread>>

\* Mutant of Follows: the files of the connection managers are forgotten.
FollowsEarly(a, b) == a = "hostfile" /\ b = "sqlhosts"

Follows(a, b) == \E n \in 1 .. Len(Steps) - 1 : Steps[n] = a /\ Steps[n + 1] = b

NextFile ==
    /\ at \in Names /\ left = {}
    /\ \/ \E b \in Names :
            /\ Follows(at, b)
            /\ at' = b /\ left' = list \cap PodsOf(PartOf(b))
            /\ UNCHANGED <<expect, list>>
       \/ /\ \A b \in Names : ~Follows(at, b)
          /\ ReturnTo("signal")
    /\ UNCHANGED <<env, cached, thread, faults, excuse>>

\* UpdateCluster: the signal, dropped when one is waiting.
Signal ==
    /\ at = "signal"
    /\ ReturnTo("none") /\ active' = TRUE /\ excuse' = FALSE
    /\ UNCHANGED <<env, cached, gOn, cOn, loop, todo, faults>>

----------------------------------------------------------------------------
(* The cluster's thread.                                                   *)

TakeActive ==
    /\ ~loop /\ active
    /\ active' = FALSE /\ gOn' = TRUE
    /\ UNCHANGED <<env, cached, build, cOn, loop, todo, faults, excuse>>

\* procUpdateGbase8sCluster returns nil, or an error other than "wait".
Gbase8sDone ==
    /\ ~loop /\ gOn
    /\ want["gbase8s"] > 1 /\ Counts(cached)["gbase8s"] = want["gbase8s"]
    /\ Exists(pod) \cap PodsOf("gbase8s") \subseteq Runs(pod)
    /\ gOn' = FALSE /\ cOn' = TRUE
    /\ UNCHANGED <<env, cached, build, active, loop, todo, faults, excuse>>

Gbase8sFails ==
    /\ ~loop /\ gOn
    /\ \/ want["gbase8s"] <= 1 /\ UNCHANGED faults
       \/ Fault
    /\ gOn' = FALSE
    /\ UNCHANGED <<env, cached, build, active, cOn, loop, todo, excuse>>

\* procUpdateCmCluster begins. With another number of pods, or a container that
\* is known not to run, it waits for the next tick.
CmBegins ==
    /\ ~loop /\ cOn
    /\ Counts(cached)["cm"] = want["cm"]
    /\ \A c \in PodsOf("cm") : cached[c] # "waiting"
    /\ loop' = TRUE /\ todo' = Exists(cached) \cap PodsOf("cm")
    /\ UNCHANGED <<env, cached, build, timers, faults, excuse>>

\* Mutant of CmStops: an error does not end the loop.
CmStopsLate == cOn' = FALSE /\ todo' = {} /\ UNCHANGED loop

\* Every return but "wait" stops the ticker.
CmStops == cOn' = FALSE /\ todo' = {} /\ loop' = FALSE

CmCannotBegin ==
    /\ ~loop /\ cOn /\ Fault
    /\ CmStops
    /\ UNCHANGED <<env, cached, build, active, gOn, excuse>>

\* Mutant of CmNormal: one that runs ends the loop.
CmNormalEnds(c) == todo' = {}

CmNormal(c) == todo' = todo \ {c}

\* One CM pod is asked, and its process started unless it runs.
CmPod(c) ==
    /\ loop /\ c \in todo
    /\ \/ /\ c \in Runs(pod) /\ UNCHANGED faults
          /\ IF c \in runs
             THEN CmNormal(c) /\ UNCHANGED runs
             ELSE runs' = runs \cup {c} /\ todo' = todo \ {c}
          /\ UNCHANGED <<cOn, loop>>
       \/ c \notin Runs(pod) /\ CmStops /\ UNCHANGED <<faults, runs>>
       \/ /\ c \in Runs(pod) /\ Fault /\ CmStops
          /\ runs' \in {runs, runs \cup {c}}
    /\ UNCHANGED <<want, pod, file, changes, cached, build, active, gOn,
                   excuse>>

CmDone ==
    /\ loop /\ todo = {}
    /\ CmStops
    /\ UNCHANGED <<env, cached, build, active, gOn, faults, excuse>>

----------------------------------------------------------------------------
(* The cache, the user, the StatefulSet controller and the kubelet.        *)

Sync ==
    /\ cached # pod /\ cached' = pod
    /\ UNCHANGED <<env, build, thread, faults, excuse>>

\* What BuildCluster has listed is out of date.
Excused == excuse' = (at \notin {"none", "list"})

Change ==
    /\ changes < MaxChanges /\ changes' = changes + 1
    /\ want' \in Wanted \ {want}
    /\ Excused
    /\ UNCHANGED <<pod, file, runs, cached, build, thread, faults>>

\* The pod c enters state s; what was in its container is lost.
Enter(c, s) ==
    /\ pod' = [pod EXCEPT ![c] = s]
    /\ file' = [file EXCEPT ![c] = NoFiles]
    /\ runs' = runs \ {c}
    /\ Excused
    /\ UNCHANGED <<want, changes, cached, build, thread>>

\* The StatefulSet controller creates pods upwards, each when those before it
\* run, and removes them downwards.
PodCreated(c) ==
    /\ pod[c] = "gone" /\ c \in Asked
    /\ \A d \in PodsOf(c[1]) : d[2] < c[2] => pod[d] = "running"
    /\ Enter(c, "created") /\ UNCHANGED faults

PodStarts(c) ==
    /\ \/ pod[c] = "created" /\ Enter(c, "waiting")
       \/ pod[c] = "waiting" /\ Enter(c, "running")
    /\ UNCHANGED faults

ScaledDown(c) ==
    /\ pod[c] # "gone" /\ c \notin Asked
    /\ \A d \in PodsOf(c[1]) : d[2] > c[2] => pod[d] = "gone"
    /\ Enter(c, "gone") /\ UNCHANGED faults

PodFails(c) ==
    /\ pod[c] = "running" /\ Fault
    /\ \E s \in Failures : Enter(c, s)

\* The process of a connection manager ends.
CmEnds(c) ==
    /\ c \in runs /\ Fault
    /\ runs' = runs \ {c}
    /\ UNCHANGED <<want, pod, file, changes, cached, build, thread, excuse>>

----------------------------------------------------------------------------
Build ==
    \/ NotBuilt \/ BuildFails \/ ListPods
    \/ \E c \in Pods : Write(c)
    \/ NextFile \/ Signal

CmLoop == CmDone \/ \E c \in Pods : CmPod(c)

CmTick == CmBegins \/ CmCannotBegin

Kubernetes == \E c \in Pods : PodCreated(c) \/ PodStarts(c) \/ ScaledDown(c)

Next ==
    \/ Begin \/ Build
    \/ TakeActive \/ Gbase8sDone \/ Gbase8sFails
    \/ CmTick \/ CmLoop
    \/ Sync \/ Change
    \/ Kubernetes
    \/ \E c \in Pods : PodFails(c) \/ CmEnds(c)

Spec == Init /\ [][Next]_vars

\* Reconcile is called again and again (every resync at the latest) and runs to
\* its end; the thread's events are taken when they are ready again and again;
\* the cache and the controllers of Kubernetes catch up.
Fairness ==
    /\ WF_vars(Begin \/ Build)
    /\ WF_vars(CmLoop) /\ SF_vars(CmTick)
    /\ SF_vars(TakeActive) /\ SF_vars(Gbase8sDone)
    /\ WF_vars(Sync)
    /\ WF_vars(Kubernetes)

FairSpec == Spec /\ Fairness

----------------------------------------------------------------------------
TypeOK ==
    /\ want \in Wanted /\ expect \in Wanted \cup {Nothing}
    /\ pod \in [Pods -> States] /\ cached \in [Pods -> States]
    /\ file \in [Pods -> [Names -> [Parts -> Nat] \cup {None}]]
    /\ runs \subseteq Runs(pod) \cap PodsOf("cm")
    /\ at \in Names \cup {"none", "list", "signal"}
    /\ left \subseteq list /\ list \subseteq Pods
    /\ active \in BOOLEAN /\ gOn \in BOOLEAN /\ cOn \in BOOLEAN
    /\ loop \in BOOLEAN /\ (loop => cOn)
    /\ todo \subseteq PodsOf("cm")
    /\ changes \in 0..MaxChanges /\ faults \in 0..MaxFaults
    /\ excuse \in BOOLEAN

\* Every pod the resource asks for has each of its files, for the numbers the
\* resource asks for.
FilesRight ==
    \A name \in Names : \A c \in Asked \cap PodsOf(PartOf(name)) :
        file[c][name] = About(name, want)

\* The signal that makes the thread link the databases, and then start the
\* connection managers, comes after the files: they are complete unless a write
\* failed, a pod was not running, or pods or resource changed meanwhile.
SignalAfterFiles == at = "signal" /\ ~excuse => FilesRight

\* When the outside comes to rest, every pod has the right files, whatever write
\* failed or was skipped before.
FilesComplete == <>[]FilesRight

\* And the connection manager runs in each of its pods, although its ticker
\* stops at the first pod that cannot be asked. Not so beside a single database:
\* the update of the databases is then refused, and theirs never begins.
CmRuns == <>[](want["gbase8s"] > 1 => Asked \cap PodsOf("cm") \subseteq runs)
=============================================================================
