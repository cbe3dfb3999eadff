-------------------------- MODULE ClusterRegistry --------------------------
(***************************************************************************)
(* ClusterManager (controllers/cluster_manager.go): the map from clusters  *)
(* to their threads, the calls AddCluster, UpdateCluster and DelCluster    *)
(* that Reconcile makes on it, and the channels between a call and the     *)
(* thread of the cluster.                                                  *)
(*                                                                         *)
(* rwLock is held over blocking sends on unbuffered channels, so a call    *)
(* meets the thread only between two of its handlers. What a handler does  *)
(* is the subject of ClusterThread; here it only takes time.               *)
(*                                                                         *)
(* Reconcile runs in Workers; the controller's work queue never hands one  *)
(* key to two of them. SetupWithManager asks for no more than one worker,  *)
(* the lock is there for any number.                                       *)
(***************************************************************************)
EXTENDS Integers, FiniteSets

CONSTANTS
    Workers,   \* goroutines that call Reconcile
    Keys,      \* names of Gbase8sCluster resources
    Mgrs,      \* clusterManager objects that may exist at a time
    Versions,  \* contents of a resource, and the parameters made from them
    None       \* no manager, no worker, no resource

ASSUME RegistryAssumption ==
    None \notin Workers \cup Keys \cup Mgrs \cup Versions

VARIABLES
    resource,    \* the Gbase8sCluster of a key at the API server, or None
    queued,      \* the keys in the controller's work queue
    skipped,     \* keys whose last Reconcile ended early without an error
    clusterMap,  \* clusterMap: the manager of a key, or None
    lock,        \* who holds rwLock
    state,       \* of a manager: "free" (no object), "made" (before its go
                 \* statement), "idle" (in select), "busy" (in a handler),
                 \* "stopping" (destroyed), "closed" (channels closed)
    keyOf,       \* of a manager: clusterName and clusterNamespace
    podsOf,      \* of a manager: podList
    paramsOf,    \* of a manager: detecting
    signal,      \* managers whose activeUpdateCluster holds a message
    pc,          \* of a worker: where its Reconcile is
    key,         \* of a worker: the key it reconciles
    read,        \* of a worker: the resource it has read
    target       \* of a worker: the manager it works on

managers == <<state, keyOf, podsOf, paramsOf, signal>>
workers  == <<pc, key, read, target>>
vars     == <<resource, queued, skipped, clusterMap, lock, managers, workers>>

States == {"free", "made", "idle", "busy", "stopping", "closed"}
PCs    == {"none", "add", "spawn", "pods", "detecting", "build", "del",
           "destroy", "delete"}

\* Where a call holds rwLock, and where it works on a manager.
Holding   == {"pods", "detecting", "destroy", "delete"}
Targeting == Holding \cup {"spawn"}

Working(k) == {w \in Workers : pc[w] # "none" /\ key[w] = k}

Goto(w, l) == pc' = [pc EXCEPT ![w] = l]

\* Reconcile returns.
Return(w) ==
    /\ Goto(w, "none")
    /\ key' = [key EXCEPT ![w] = None]
    /\ read' = [read EXCEPT ![w] = None]
    /\ target' = [target EXCEPT ![w] = None]

Init ==
    /\ resource \in [Keys -> Versions \cup {None}]
    /\ queued = {k \in Keys : resource[k] # None} /\ skipped = {}
    /\ clusterMap = [k \in Keys |-> None]
    /\ lock = None
    /\ state = [m \in Mgrs |-> "free"]
    /\ keyOf = [m \in Mgrs |-> None]
    /\ podsOf = [m \in Mgrs |-> None] /\ paramsOf = [m \in Mgrs |-> None]
    /\ signal = {}
    /\ pc = [w \in Workers |-> "none"]
    /\ key = [w \in Workers |-> None]
    /\ read = [w \in Workers |-> None] /\ target = [w \in Workers |-> None]

----------------------------------------------------------------------------
(* Reconcile, as far as the ClusterManager is concerned.                   *)

\* The resource is read: gone means DelCluster, otherwise AddCluster.
Reconcile(w, k) ==
    /\ pc[w] = "none" /\ k \in queued /\ Working(k) = {}
    /\ queued' = queued \ {k} /\ skipped' = skipped \ {k}
    /\ key' = [key EXCEPT ![w] = k]
    /\ read' = [read EXCEPT ![w] = resource[k]]
    /\ Goto(w, IF resource[k] = None THEN "del" ELSE "add")
    /\ UNCHANGED <<resource, clusterMap, lock, managers, target>>

\* An error before AddCluster puts the key back into the queue.
ReconcileFails(w) ==
    /\ pc[w] = "add"
    /\ queued' = queued \cup {key[w]}
    /\ Return(w)
    /\ UNCHANGED <<resource, skipped, clusterMap, lock, managers>>

\* No container answers GetHostTemplate: Reconcile ends before AddCluster and
\* reports success, so only the next event brings the key back.
ReconcileSkips(w) ==
    /\ pc[w] = "add"
    /\ skipped' = skipped \cup {key[w]}
    /\ Return(w)
    /\ UNCHANGED <<resource, queued, clusterMap, lock, managers>>

\* BuildCluster fails: no UpdateCluster, and the error is only logged.
BuildFails(w) ==
    /\ pc[w] = "build" /\ Return(w)
    /\ UNCHANGED <<resource, queued, skipped, clusterMap, lock, managers>>

----------------------------------------------------------------------------
(* AddCluster.                                                             *)

\* Mutants of Unmanaged: whether the map has the key is not looked at.
UnmanagedAlways(k) == k \in Keys
UnmanagedNever(k) == k \notin Keys

Unmanaged(k) == clusterMap[k] = None

\* The cluster is new: lock, create, insert, unlock.
AddNew(w, m) ==
    /\ pc[w] = "add" /\ lock = None /\ Unmanaged(key[w]) /\ state[m] = "free"
    /\ clusterMap' = [clusterMap EXCEPT ![key[w]] = m]
    /\ state' = [state EXCEPT ![m] = "made"]
    /\ keyOf' = [keyOf EXCEPT ![m] = key[w]]
    /\ podsOf' = [podsOf EXCEPT ![m] = read[w]]
    /\ paramsOf' = [paramsOf EXCEPT ![m] = read[w]]
    /\ target' = [target EXCEPT ![w] = m]
    /\ Goto(w, "spawn")
    /\ UNCHANGED <<resource, queued, skipped, lock, signal, key, read>>

\* go c.clusterThread(&cm), outside the lock
Spawn(w) ==
    /\ pc[w] = "spawn"
    /\ state' = [state EXCEPT ![target[w]] = "idle"]
    /\ Goto(w, "build")
    /\ UNCHANGED <<resource, queued, skipped, clusterMap, lock, keyOf, podsOf,
                   paramsOf, signal, key, read, target>>

AddExisting(w) ==
    /\ pc[w] = "add" /\ lock = None /\ ~Unmanaged(key[w])
    /\ lock' = w
    /\ target' = [target EXCEPT ![w] = clusterMap[key[w]]]
    /\ Goto(w, "pods")
    /\ UNCHANGED <<resource, queued, skipped, clusterMap, managers, key, read>>

\* Mutant of SendPodList: procModifyParam does not recognise the message.
SendPodListIgnored(w) ==
    /\ pc[w] = "pods" /\ state[target[w]] = "idle"
    /\ Goto(w, "detecting")
    /\ UNCHANGED <<resource, queued, skipped, clusterMap, lock, managers, key,
                   read, target>>

\* The thread receives from cfgQueue and runs procModifyParam.
SendPodList(w) ==
    /\ pc[w] = "pods" /\ state[target[w]] = "idle"
    /\ podsOf' = [podsOf EXCEPT ![target[w]] = read[w]]
    /\ Goto(w, "detecting")
    /\ UNCHANGED <<resource, queued, skipped, clusterMap, lock, state, keyOf,
                   paramsOf, signal, key, read, target>>

\* Mutant of SendDetecting: AddCluster returns without unlocking.
SendDetectingLocked(w) ==
    /\ pc[w] = "detecting" /\ state[target[w]] = "idle"
    /\ paramsOf' = [paramsOf EXCEPT ![target[w]] = read[w]]
    /\ Goto(w, "build")
    /\ UNCHANGED <<resource, queued, skipped, clusterMap, lock, state, keyOf,
                   podsOf, signal, key, read, target>>

SendDetecting(w) ==
    /\ pc[w] = "detecting" /\ state[target[w]] = "idle"
    /\ paramsOf' = [paramsOf EXCEPT ![target[w]] = read[w]]
    /\ lock' = None
    /\ Goto(w, "build")
    /\ UNCHANGED <<resource, queued, skipped, clusterMap, state, keyOf, podsOf,
                   signal, key, read, target>>

----------------------------------------------------------------------------
(* UpdateCluster: lock, send without blocking, unlock.                     *)

UpdateCluster(w) ==
    /\ pc[w] = "build" /\ lock = None
    /\ signal' = signal \cup ({clusterMap[key[w]]} \ {None})
    /\ Return(w)
    /\ UNCHANGED <<resource, queued, skipped, clusterMap, lock, state, keyOf,
                   podsOf, paramsOf>>

----------------------------------------------------------------------------
(* DelCluster.                                                             *)

DelUnknown(w) ==
    /\ pc[w] = "del" /\ lock = None /\ Unmanaged(key[w])
    /\ Return(w)
    /\ UNCHANGED <<resource, queued, skipped, clusterMap, lock, managers>>

DelExisting(w) ==
    /\ pc[w] = "del" /\ lock = None /\ ~Unmanaged(key[w])
    /\ lock' = w
    /\ target' = [target EXCEPT ![w] = clusterMap[key[w]]]
    /\ Goto(w, "destroy")
    /\ UNCHANGED <<resource, queued, skipped, clusterMap, managers, key, read>>

\* The thread receives from destroyClusterManager.
SendDestroy(w) ==
    /\ pc[w] = "destroy" /\ state[target[w]] = "idle"
    /\ state' = [state EXCEPT ![target[w]] = "stopping"]
    /\ Goto(w, "delete")
    /\ UNCHANGED <<resource, queued, skipped, clusterMap, lock, keyOf, podsOf,
                   paramsOf, signal, key, read, target>>

\* Mutant of DeleteEntry: the entry stays in the map.
KeepEntry(w) ==
    /\ pc[w] = "delete"
    /\ lock' = None
    /\ Return(w)
    /\ UNCHANGED <<resource, queued, skipped, clusterMap, managers>>

DeleteEntry(w) ==
    /\ pc[w] = "delete"
    /\ clusterMap' = [clusterMap EXCEPT ![key[w]] = None]
    /\ lock' = None
    /\ Return(w)
    /\ UNCHANGED <<resource, queued, skipped, managers>>

----------------------------------------------------------------------------
(* clusterThread.                                                          *)

\* A ticker fires, or the signal is received and starts one.
HandlerBegins(m) ==
    /\ state[m] = "idle"
    /\ state' = [state EXCEPT ![m] = "busy"]
    /\ UNCHANGED <<resource, queued, skipped, clusterMap, lock, keyOf, podsOf,
                   paramsOf, signal, workers>>

TakeSignal(m) ==
    /\ state[m] = "idle" /\ m \in signal
    /\ signal' = signal \ {m}
    /\ UNCHANGED <<resource, queued, skipped, clusterMap, lock, state, keyOf,
                   podsOf, paramsOf, workers>>

HandlerEnds(m) ==
    /\ state[m] = "busy"
    /\ state' = [state EXCEPT ![m] = "idle"]
    /\ UNCHANGED <<resource, queued, skipped, clusterMap, lock, keyOf, podsOf,
                   paramsOf, signal, workers>>

\* The timers are stopped and the channels closed.
ThreadEnds(m) ==
    /\ state[m] = "stopping"
    /\ state' = [state EXCEPT ![m] = "closed"]
    /\ UNCHANGED <<resource, queued, skipped, clusterMap, lock, keyOf, podsOf,
                   paramsOf, signal, workers>>

\* A closed manager nobody refers to is garbage.
Collected(m) ==
    /\ state[m] = "closed"
    /\ \A k \in Keys : clusterMap[k] # m
    /\ state' = [state EXCEPT ![m] = "free"]
    /\ keyOf' = [keyOf EXCEPT ![m] = None]
    /\ podsOf' = [podsOf EXCEPT ![m] = None]
    /\ paramsOf' = [paramsOf EXCEPT ![m] = None]
    /\ signal' = signal \ {m}
    /\ UNCHANGED <<resource, queued, skipped, clusterMap, lock, workers>>

----------------------------------------------------------------------------
(* The resource is created, changed or deleted; a StatefulSet changes.     *)

ResourceChanges(k) ==
    /\ \E v \in Versions \cup {None} :
         v # resource[k] /\ resource' = [resource EXCEPT ![k] = v]
    /\ queued' = queued \cup {k}
    /\ UNCHANGED <<skipped, clusterMap, lock, managers, workers>>

StatefulSetEvent(k) ==
    /\ resource[k] # None /\ k \notin queued
    /\ queued' = queued \cup {k}
    /\ UNCHANGED <<resource, skipped, clusterMap, lock, managers, workers>>

----------------------------------------------------------------------------
Call(w) ==
    \/ ReconcileFails(w)
    \/ ReconcileSkips(w)
    \/ BuildFails(w)
    \/ \E m \in Mgrs : AddNew(w, m)
    \/ Spawn(w)
    \/ AddExisting(w)
    \/ SendPodList(w)
    \/ SendDetecting(w)
    \/ UpdateCluster(w)
    \/ DelUnknown(w)
    \/ DelExisting(w)
    \/ SendDestroy(w)
    \/ DeleteEntry(w)

Thread(m) ==
    \/ HandlerBegins(m)
    \/ TakeSignal(m)
    \/ HandlerEnds(m)
    \/ ThreadEnds(m)
    \/ Collected(m)

Next ==
    \/ \E w \in Workers, k \in Keys : Reconcile(w, k)
    \/ \E w \in Workers : Call(w)
    \/ \E m \in Mgrs : Thread(m)
    \/ \E k \in Keys : ResourceChanges(k) \/ StatefulSetEvent(k)

Spec == Init /\ [][Next]_vars

\* A call takes its next step: Go's mutex and a thread's select, taken at
\* random, serve whoever waits long enough. A handler ends, at the latest when
\* its requests time out, and a closed manager is collected.
Fairness ==
    /\ \A w \in Workers : SF_vars(Call(w))
    /\ \A m \in Mgrs : /\ WF_vars(HandlerEnds(m))
                       /\ WF_vars(ThreadEnds(m))
                       /\ WF_vars(Collected(m))

FairSpec == Spec /\ Fairness

----------------------------------------------------------------------------
TypeOK ==
    /\ resource \in [Keys -> Versions \cup {None}]
    /\ queued \subseteq Keys /\ skipped \subseteq Keys
    /\ clusterMap \in [Keys -> Mgrs \cup {None}]
    /\ lock \in Workers \cup {None}
    /\ state \in [Mgrs -> States]
    /\ keyOf \in [Mgrs -> Keys \cup {None}]
    /\ podsOf \in [Mgrs -> Versions \cup {None}]
    /\ paramsOf \in [Mgrs -> Versions \cup {None}]
    /\ signal \subseteq Mgrs
    /\ pc \in [Workers -> PCs]
    /\ key \in [Workers -> Keys \cup {None}]
    /\ read \in [Workers -> Versions \cup {None}]
    /\ target \in [Workers -> Mgrs \cup {None}]
    /\ \A w \in Workers : pc[w] # "none" => key[w] \in Keys
    /\ \A w \in Workers : pc[w] \in Targeting => target[w] \in Mgrs

Alive(m) == state[m] \in {"made", "idle", "busy"}

\* No call sends on a closed channel, which would panic and take the whole
\* operator down: where a call is about to send, the manager is alive.
NoSendOnClosed ==
    \A w \in Workers :
        /\ pc[w] \in {"pods", "detecting", "destroy"} => Alive(target[w])
        /\ pc[w] = "build" /\ clusterMap[key[w]] # None
              => Alive(clusterMap[key[w]])

\* A cluster is never in the hands of two threads, which would fail over
\* against each other, and no thread runs that DelCluster cannot reach.
OneManagerPerCluster ==
    \A m \in Mgrs : Alive(m) => /\ keyOf[m] \in Keys
                                /\ clusterMap[keyOf[m]] = m

\* Whoever holds rwLock waits for nothing but the end of a handler: it is between
\* Lock and Unlock, and the thread it sends to runs and has not been stopped. So
\* no call keeps the others waiting for a thread that will never receive.
HolderMeetsThread ==
    lock # None =>
        /\ pc[lock] \in Holding
        /\ pc[lock] # "delete" => state[target[lock]] \in {"idle", "busy"}

\* Once a key is neither queued nor being reconciled, its cluster has no thread
\* if the resource is gone; and if it exists, and the last Reconcile was not
\* cut short, it has one, with the resource's content.
MapFollowsResource ==
    \A k \in Keys :
        k \notin queued /\ Working(k) = {} =>
            IF resource[k] = None THEN clusterMap[k] = None
            ELSE \/ k \in skipped
                 \/ /\ clusterMap[k] # None
                    /\ podsOf[clusterMap[k]] = resource[k]
                    /\ paramsOf[clusterMap[k]] = resource[k]

\* Every call on the ClusterManager returns, however busy the threads are, so
\* no cluster keeps the lock for ever.
CallsReturn == \A w \in Workers : pc[w] # "none" ~> pc[w] = "none"

----------------------------------------------------------------------------
(* The abstract specification: calls and threads without map, lock and     *)
(* channels.                                                               *)

call == [k \in Keys |-> {read[w] : w \in Working(k)}]

thread ==
    [k \in Keys |->
        IF clusterMap[k] # None /\ Alive(clusterMap[k])
        THEN {[pods |-> podsOf[clusterMap[k]],
               params |-> paramsOf[clusterMap[k]]]}
        ELSE {}]

Lifecycle == INSTANCE ManagerLifecycle

\* The map, the lock and the channels do for each cluster what the abstract
\* specification says: a thread starts only where there is none, is stopped only
\* by a call that found the resource gone, and takes over pods and parameters
\* only from the call under way for its own cluster.
ImplementsLifecycle == Lifecycle!Spec
=============================================================================
