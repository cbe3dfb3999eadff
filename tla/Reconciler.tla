----------------------------- MODULE Reconciler -----------------------------
(***************************************************************************)
(* Gbase8sClusterReconciler.Reconcile (controllers/                        *)
(* gbase8scluster_controller.go) for one Gbase8sCluster: the volumes, the  *)
(* services and the StatefulSets it makes at the API server, from what the *)
(* informer caches of its client say, up to AddCluster or DelCluster.      *)
(*                                                                         *)
(* A read is answered by the cache, a write goes to the API server. The    *)
(* cache of one type of object catches up in one step and stays behind as  *)
(* long as it likes. Objects are owned by the resource that was read, so   *)
(* the garbage collector removes those of a deleted resource, one by one;  *)
(* not volumes, which live outside the namespace of their owner.           *)
(*                                                                         *)
(* Simplified: one volume and one claim stand for the storage and the log  *)
(* volume of a node; nodes are listed when the resource is created and not *)
(* changed; the template of a StatefulSet is left out.                     *)
(***************************************************************************)
EXTENDS Integers, Sequences

CONSTANTS
    Parts,      \* "gbase8s" and "cm"; bound: an instance may leave out "cm"
    Nodes,      \* of a part: the length of its list of nodes, 0 when left out
    Wanted,     \* the replicas a user may ask for: functions on Parts
    None,       \* no object
    MaxGen,     \* bound: creations and changes of the resource
    MaxFaults   \* bound: API errors and restarts

ASSUME ReconcilerAssumption ==
    /\ "gbase8s" \in Parts /\ Parts \subseteq {"gbase8s", "cm"}
    /\ Nodes \in [Parts -> Nat]
    /\ Wanted \subseteq [Parts -> Nat]
    /\ None \notin Nat
    /\ MaxGen \in Nat /\ MaxFaults \in Nat

VARIABLES
    api,      \* the objects at the API server, by type
    cache,    \* the informer caches, by type
    gen,      \* creations and changes of the resource so far
    queued,   \* the work queue holds the resource's name
    at,       \* the stage Reconcile is at, 0 when it does not run
    node,     \* the node whose volume or claim is next
    read,     \* the resource this Reconcile has read
    seen,     \* replicas of the StatefulSets this Reconcile has read
    managed,  \* the resource last given to AddCluster, None after DelCluster
    missed,   \* the last Reconcile to get that far called neither of the two
    up,       \* a database container runs and answers GetHostTemplate
    faults    \* faults so far

run  == <<at, node, read, seen>>
vars == <<api, cache, gen, queued, run, managed, missed, up, faults>>

Claims == UNION {{p} \X (0 .. Nodes[p] - 1) : p \in Parts}
Types  == {"resource", "pv", "pvc", "svc", "sfs"}

\* A resource: the generation it was created at, its own, and its content.
Resources == [uid : 1..MaxGen, gen : 1..MaxGen, want : Wanted]

\* A StatefulSet: its owner and its replicas.
StatefulSets == [uid : 1..MaxGen, replicas : Nat]

ASSUME NoneAssumption == None \notin StatefulSets

\* Volumes, claims and services are known by their owner. A claim that the
\* StatefulSet controller made from the template has none: 0.
Objects == [resource : Resources \cup {None},
            pv  : [Claims -> 1..MaxGen \cup {None}],
            pvc : [Claims -> 0..MaxGen \cup {None}],
            svc : [Parts -> 1..MaxGen \cup {None}],
            sfs : [Parts -> StatefulSets \cup {None}]]

Empty == [resource |-> None,
          pv  |-> [c \in Claims |-> None],
          pvc |-> [c \in Claims |-> None],
          svc |-> [p \in Parts |-> None],
          sfs |-> [p \in Parts |-> None]]

\* Mutant of Stages: the StatefulSets before the volumes.
StagesVolumesLast ==
          << <<"get", "gbase8s">>, <<"get", "cm">>,
             <<"svc", "gbase8s">>, <<"svc", "cm">>,
             <<"sfs", "gbase8s">>, <<"sfs", "cm">>,
             <<"pv", "gbase8s">>, <<"pvc", "gbase8s">>,
             <<"pv", "cm">>, <<"pvc", "cm">>,
             <<"add", "gbase8s">> >>

\* What Reconcile does, in its order.
Stages == << <<"pv", "gbase8s">>, <<"pvc", "gbase8s">>,
             <<"pv", "cm">>, <<"pvc", "cm">>,
             <<"get", "gbase8s">>, <<"get", "cm">>,
             <<"svc", "gbase8s">>, <<"svc", "cm">>,
             <<"sfs", "gbase8s">>, <<"sfs", "cm">>,
             <<"add", "gbase8s">> >>

At(type, p) == at # 0 /\ Stages[at] = <<type, p>>

Init ==
    /\ api = Empty /\ cache = Empty
    /\ gen = 0 /\ faults = 0
    /\ queued = FALSE
    /\ at = 0 /\ node = 0
    /\ read = None /\ seen = [p \in Parts |-> 0]
    /\ managed = None /\ missed = FALSE
    /\ up = FALSE

----------------------------------------------------------------------------
(* The ways on: the next stage, the next node, the end, the end with an    *)
(* error, which puts the name back into the queue.                         *)

Later(n) == {m \in (n + 1) .. Len(Stages) : Stages[m][2] \in Parts}

GoOn(n) == \E m \in Later(n) : at' = m /\ \A l \in Later(n) : m <= l

NextStage == GoOn(at) /\ node' = 0 /\ UNCHANGED <<queued, read>>

NextNode ==
    node' = node + 1 /\ UNCHANGED <<queued, at, read>>

NotRunning ==
    at' = 0 /\ node' = 0 /\ read' = None /\ seen' = [p \in Parts |-> 0]

Return == NotRunning /\ UNCHANGED queued

\* Mutant of Fail: the error is logged and not returned.
FailQuietly == NotRunning /\ UNCHANGED queued

Fail == NotRunning /\ queued' = TRUE

----------------------------------------------------------------------------
(* Reconcile                                                               *)

\* Mutant of Gone: DelCluster is not called.
GoneUnnoticed ==
    /\ at = 0 /\ queued /\ cache.resource = None
    /\ queued' = FALSE
    /\ UNCHANGED <<api, cache, gen, run, managed, missed, up, faults>>

\* The resource is gone: DelCluster.
Gone ==
    /\ at = 0 /\ queued /\ cache.resource = None
    /\ queued' = FALSE
    /\ managed' = None /\ missed' = FALSE
    /\ UNCHANGED <<api, cache, gen, run, up, faults>>

\* Mutant of Begin: IsNotFound is not handled.
BeginUnchecked ==
    /\ at = 0 /\ queued
    /\ queued' = FALSE
    /\ read' = cache.resource
    /\ GoOn(0)
    /\ UNCHANGED <<api, cache, gen, node, seen, managed, missed, up, faults>>

Begin ==
    /\ at = 0 /\ queued /\ cache.resource # None
    /\ queued' = FALSE
    /\ read' = cache.resource
    /\ GoOn(0)
    /\ UNCHANGED <<api, cache, gen, node, seen, managed, missed, up, faults>>

\* createPVs and createPVCs: an object the cache knows is left alone. An object
\* that only the API server knows makes Create fail.
Ensure(type, p) ==
    LET c == <<p, node>> IN
    /\ At(type, p) /\ node < Nodes[p]
    /\ \/ cache[type][c] # None /\ NextNode /\ UNCHANGED <<api, seen>>
       \/ /\ cache[type][c] = None /\ api[type][c] = None
          /\ api' = [api EXCEPT ![type][c] = read.uid]
          /\ NextNode /\ UNCHANGED seen
       \/ cache[type][c] = None /\ api[type][c] # None /\ Fail /\ UNCHANGED api
    /\ UNCHANGED <<cache, gen, managed, missed, up, faults>>

VolumesDone(type, p) ==
    /\ At(type, p) /\ node = Nodes[p]
    /\ NextStage
    /\ UNCHANGED <<api, cache, gen, seen, managed, missed, up, faults>>

\* A StatefulSet the cache does not know counts as one with 0 replicas.
GetStatefulSet(p) ==
    /\ At("get", p)
    /\ seen' = [seen EXCEPT ![p] = IF cache.sfs[p] = None THEN 0
                                   ELSE cache.sfs[p].replicas]
    /\ NextStage
    /\ UNCHANGED <<api, cache, gen, managed, missed, up, faults>>

\* Mutant of EnsureService: the service is made with the StatefulSet only.
EnsureServiceOnce(p) ==
    /\ At("svc", p)
    /\ IF seen[p] = 0 /\ api.svc[p] = None
       THEN api' = [api EXCEPT !.svc[p] = read.uid]
       ELSE UNCHANGED api
    /\ NextStage
    /\ UNCHANGED <<cache, gen, seen, managed, missed, up, faults>>

EnsureService(p) ==
    /\ At("svc", p)
    /\ \/ cache.svc[p] # None /\ NextStage /\ UNCHANGED <<api, seen>>
       \/ /\ cache.svc[p] = None /\ api.svc[p] = None
          /\ api' = [api EXCEPT !.svc[p] = read.uid]
          /\ NextStage /\ UNCHANGED seen
       \/ cache.svc[p] = None /\ api.svc[p] # None /\ Fail /\ UNCHANGED api
    /\ UNCHANGED <<cache, gen, managed, missed, up, faults>>

Made(p) == [uid |-> read.uid, replicas |-> read.want[p]]

CreateStatefulSet(p) ==
    /\ At("sfs", p) /\ seen[p] = 0
    /\ \/ /\ api.sfs[p] = None
          /\ api' = [api EXCEPT !.sfs[p] = Made(p)]
          /\ NextStage /\ UNCHANGED seen
       \/ api.sfs[p] # None /\ Fail /\ UNCHANGED api
    /\ UNCHANGED <<cache, gen, managed, missed, up, faults>>

\* The update names no version, so it replaces whatever is there.
UpdateStatefulSet(p) ==
    /\ At("sfs", p) /\ seen[p] \notin {0, read.want[p]}
    /\ \/ /\ api.sfs[p] # None
          /\ api' = [api EXCEPT !.sfs[p] = Made(p)]
          /\ NextStage /\ UNCHANGED seen
       \/ api.sfs[p] = None /\ Fail /\ UNCHANGED api
    /\ UNCHANGED <<cache, gen, managed, missed, up, faults>>

\* Only the number of replicas is compared.
KeepStatefulSet(p) ==
    /\ At("sfs", p) /\ seen[p] # 0 /\ seen[p] = read.want[p]
    /\ NextStage
    /\ UNCHANGED <<api, cache, gen, seen, managed, missed, up, faults>>

\* AddCluster, with the resource that was read. What BuildCluster and
\* UpdateCluster do afterwards changes nothing here.
AddCluster ==
    /\ At("add", "gbase8s") /\ up
    /\ managed' = read /\ missed' = FALSE
    /\ Return
    /\ UNCHANGED <<api, cache, gen, up, faults>>

\* No container answers GetHostTemplate, as in the first Reconcile of a new
\* cluster: its error is swallowed.
NoHostTemplate ==
    /\ At("add", "gbase8s") /\ ~up
    /\ missed' = TRUE
    /\ Return
    /\ UNCHANGED <<api, cache, gen, managed, up, faults>>

\* A request to the API server fails, without or after its effect; of the
\* latter the next Reconcile makes AlreadyExists or nothing at all.
RequestFails ==
    /\ at # 0 /\ faults < MaxFaults
    /\ faults' = faults + 1
    /\ Fail
    /\ UNCHANGED <<api, cache, gen, managed, missed, up>>

----------------------------------------------------------------------------
(* The informers, and the events they put into the queue: For the resource *)
(* and Owns StatefulSets. Volumes, claims and services are not watched.    *)

\* Mutant of Watched: no Owns.
WatchedResource == {"resource"}

Watched == {"resource", "sfs"}

Sync(type) ==
    /\ cache[type] # api[type]
    /\ cache' = [cache EXCEPT ![type] = api[type]]
    /\ queued' = (queued \/ type \in Watched)
    /\ UNCHANGED <<api, gen, run, managed, missed, up, faults>>

\* The periodic resync of the informers, or a change of a StatefulSet's status;
\* the event filter passes both.
Resync ==
    /\ cache.resource # None /\ ~queued
    /\ queued' = TRUE
    /\ UNCHANGED <<api, cache, gen, run, managed, missed, up, faults>>

----------------------------------------------------------------------------
(* The user, the controllers of Kubernetes, and the operator's restart.    *)

Create ==
    /\ api.resource = None /\ gen < MaxGen
    /\ gen' = gen + 1
    /\ \E w \in Wanted :
         api' = [api EXCEPT !.resource =
                   [uid |-> gen + 1, gen |-> gen + 1, want |-> w]]
    /\ UNCHANGED <<cache, queued, run, managed, missed, up, faults>>

Change ==
    /\ api.resource # None /\ gen < MaxGen
    /\ gen' = gen + 1
    /\ \E w \in Wanted :
         api' = [api EXCEPT !.resource.gen = gen + 1, !.resource.want = w]
    /\ UNCHANGED <<cache, queued, run, managed, missed, up, faults>>

Delete ==
    /\ api.resource # None
    /\ api' = [api EXCEPT !.resource = None]
    /\ UNCHANGED <<cache, gen, queued, run, managed, missed, up, faults>>

Orphaned(uid) ==
    uid # 0 /\ ~ (api.resource # None /\ api.resource.uid = uid)

CollectClaim(c) ==
    /\ api.pvc[c] # None /\ Orphaned(api.pvc[c])
    /\ api' = [api EXCEPT !.pvc[c] = None]
    /\ UNCHANGED <<cache, gen, queued, run, managed, missed, up, faults>>

CollectService(p) ==
    /\ api.svc[p] # None /\ Orphaned(api.svc[p])
    /\ api' = [api EXCEPT !.svc[p] = None]
    /\ UNCHANGED <<cache, gen, queued, run, managed, missed, up, faults>>

CollectStatefulSet(p) ==
    /\ api.sfs[p] # None /\ Orphaned(api.sfs[p].uid)
    /\ api' = [api EXCEPT !.sfs[p] = None]
    /\ UNCHANGED <<cache, gen, queued, run, managed, missed, up, faults>>

\* The StatefulSet controller makes the claim of a pod that has none. This one
\* selects no volume: the selector is in newPVC, not in the template.
ClaimFromTemplate(c) ==
    /\ api.sfs[c[1]] # None /\ c[2] < api.sfs[c[1]].replicas
    /\ api.pvc[c] = None
    /\ api' = [api EXCEPT !.pvc[c] = 0]
    /\ UNCHANGED <<cache, gen, queued, run, managed, missed, up, faults>>

\* A database container starts, and answers; the last one stops, or the requests
\* to run a command in it fail. Pods are not watched. The status of their
\* StatefulSet is (Resync), but may arrive before the pod is known to run.
ContainerStarts ==
    /\ ~up /\ api.sfs["gbase8s"] # None /\ api.sfs["gbase8s"].replicas > 0
    /\ up' = TRUE
    /\ UNCHANGED <<api, cache, gen, queued, run, managed, missed, faults>>

ContainerStops ==
    /\ up /\ up' = FALSE
    /\ UNCHANGED <<api, cache, gen, queued, run, managed, missed, faults>>

\* The operator is replaced: its caches are filled before Reconcile runs, and
\* every resource it finds is queued.
OperatorRestart ==
    /\ faults < MaxFaults
    /\ faults' = faults + 1
    /\ cache' = api
    /\ queued' = (api.resource # None)
    /\ NotRunning
    /\ managed' = None /\ missed' = FALSE
    /\ UNCHANGED <<api, gen, up>>

----------------------------------------------------------------------------
Reconcile ==
    \/ Gone \/ Begin
    \/ \E p \in Parts :
         \/ Ensure("pv", p) \/ VolumesDone("pv", p)
         \/ Ensure("pvc", p) \/ VolumesDone("pvc", p)
         \/ GetStatefulSet(p)
         \/ EnsureService(p)
         \/ CreateStatefulSet(p) \/ UpdateStatefulSet(p) \/ KeepStatefulSet(p)
    \/ AddCluster \/ NoHostTemplate

Collect ==
    \/ \E c \in Claims : CollectClaim(c)
    \/ \E p \in Parts : CollectService(p) \/ CollectStatefulSet(p)

Next ==
    \/ Reconcile
    \/ RequestFails
    \/ \E type \in Types : Sync(type)
    \/ Resync
    \/ Create \/ Change \/ Delete
    \/ Collect
    \/ \E c \in Claims : ClaimFromTemplate(c)
    \/ ContainerStarts \/ ContainerStops
    \/ OperatorRestart

Spec == Init /\ [][Next]_vars

\* The controller's worker goes on, informers catch up, and the garbage
\* collector gets to every object.
Fairness ==
    /\ WF_vars(Reconcile)
    /\ \A type \in Types : WF_vars(Sync(type))
    /\ WF_vars(Collect)

FairSpec == Spec /\ Fairness

----------------------------------------------------------------------------
TypeOK ==
    /\ api \in Objects /\ cache \in Objects
    /\ gen \in 0..MaxGen /\ faults \in 0..MaxFaults
    /\ queued \in BOOLEAN /\ missed \in BOOLEAN /\ up \in BOOLEAN
    /\ at \in 0..Len(Stages) /\ node \in Nat
    /\ read \in Resources \cup {None}
    /\ at # 0 => read # None
    /\ seen \in [Parts -> Nat]
    /\ managed \in Resources \cup {None}

\* In the first life of the resource, no claim of a listed node is made by the
\* StatefulSet controller: such a claim selects no volume, so a database could
\* start on the disk of another node. Reconcile has made the claims before any
\* StatefulSet asks for their pods, whatever the caches say and whichever
\* request fails.
ClaimsSelectVolumes ==
    api.resource # None /\ api.resource.uid = 1 =>
        \A c \in Claims : api.pvc[c] # 0

\* At rest, with caches that have caught up on the resource and its
\* StatefulSets, there is nothing left to do for them: each exists and has its
\* replicas. So no stale read, and no error, ends the work too early: either the
\* name is queued again, or an event that queues it is still to come.
StatefulSetsSettled ==
    /\ at = 0 /\ ~queued
    /\ api.resource # None /\ cache.resource = api.resource
    /\ cache.sfs = api.sfs
    => \A p \in Parts : /\ api.sfs[p] # None
                        /\ api.sfs[p].replicas = api.resource.want[p]

\* At rest the ClusterManager has let go of a resource the cache does not know,
\* and works with what the cache says of one it knows, unless the last Reconcile
\* found no database container to ask. So neither a stale read nor an error is
\* the reason why it is left with an older resource, or with none.
ManagerSettled ==
    at = 0 /\ ~queued =>
        IF cache.resource = None THEN managed = None
        ELSE managed = cache.resource \/ missed

\* A StatefulSet at 0 replicas is taken for a missing one: Create fails, and
\* every Reconcile after it.
Stuck == \E p \in Parts : api.sfs[p] # None /\ api.sfs[p].replicas = 0

\* Once the user leaves the resource alone, each StatefulSet belongs to it and
\* has its replicas, without waiting for a resync: every stale read is followed
\* by an error or an event that repeats Reconcile.
StatefulSetsFollow ==
    <>[](api.resource # None /\ ~Stuck =>
           \A p \in Parts :
               /\ api.sfs[p] # None
               /\ api.sfs[p].uid = api.resource.uid
               /\ api.sfs[p].replicas = api.resource.want[p])

\* Given that Reconcile is repeated now and then, each service is the
\* resource's own. Services are not watched, so without a resync the service of
\* a deleted resource, collected late, would not be made again.
ServicesFollow ==
    WF_vars(Resync) =>
        <>[](api.resource # None =>
               \A p \in Parts : api.svc[p] = api.resource.uid)

\* Given the same, and databases that stay up from some time on, the
\* ClusterManager works with what the resource says, or has let go of it: none
\* of the ways Reconcile may end early is the last one.
ManagerFollows ==
    WF_vars(Resync) /\ <>[](api.resource # None => up) =>
        <>[](~Stuck => managed = api.resource)
=============================================================================
