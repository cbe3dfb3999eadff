-------------------------- MODULE ManagerLifecycle --------------------------
(***************************************************************************)
(* What ClusterManager promises to the controller: a cluster has one       *)
(* thread or none, which a call of Reconcile starts, changes or stops, and *)
(* always after the resource that this call has read. There is no map, no  *)
(* lock and no channel here; ClusterRegistry implements this with them.    *)
(***************************************************************************)

CONSTANTS
    Keys,      \* names of Gbase8sCluster resources
    Versions,  \* contents of a resource
    None       \* no resource

VARIABLES
    resource,  \* the resource of a key, or None
    call,      \* what the call under way for a key has read: a set of at most
               \* one member
    thread     \* the pods and parameters that the thread of a key works with:
               \* a set of at most one member

vars == <<resource, call, thread>>

Settings == [pods : Versions, params : Versions]

Init ==
    /\ resource \in [Keys -> Versions \cup {None}]
    /\ call = [k \in Keys |-> {}]
    /\ thread = [k \in Keys |-> {}]

Change(k) ==
    /\ \E v \in Versions \cup {None} : resource' = [resource EXCEPT ![k] = v]
    /\ UNCHANGED <<call, thread>>

Begin(k) ==
    /\ call[k] = {}
    /\ call' = [call EXCEPT ![k] = {resource[k]}]
    /\ UNCHANGED <<resource, thread>>

End(k) ==
    /\ call[k] # {}
    /\ call' = [call EXCEPT ![k] = {}]
    /\ UNCHANGED <<resource, thread>>

Start(k) ==
    /\ thread[k] = {}
    /\ \E v \in call[k] \ {None} :
         thread' = [thread EXCEPT ![k] = {[pods |-> v, params |-> v]}]
    /\ UNCHANGED <<resource, call>>

SetPods(k) ==
    /\ \E s \in thread[k], v \in call[k] \ {None} :
         thread' = [thread EXCEPT ![k] = {[s EXCEPT !.pods = v]}]
    /\ UNCHANGED <<resource, call>>

SetParams(k) ==
    /\ \E s \in thread[k], v \in call[k] \ {None} :
         thread' = [thread EXCEPT ![k] = {[s EXCEPT !.params = v]}]
    /\ UNCHANGED <<resource, call>>

Stop(k) ==
    /\ thread[k] # {}
    /\ None \in call[k]
    /\ thread' = [thread EXCEPT ![k] = {}]
    /\ UNCHANGED <<resource, call>>

Next ==
    \E k \in Keys :
        \/ Change(k)
        \/ Begin(k)
        \/ End(k)
        \/ Start(k)
        \/ SetPods(k)
        \/ SetParams(k)
        \/ Stop(k)

Spec == Init /\ [][Next]_vars

TypeOK ==
    /\ resource \in [Keys -> Versions \cup {None}]
    /\ call \in [Keys -> SUBSET (Versions \cup {None})]
    /\ thread \in [Keys -> SUBSET Settings]
=============================================================================
