----------------------- MODULE ClusterRegistryProofs -----------------------
(***************************************************************************)
(* Proofs about ClusterRegistry, for any number of workers, clusters,      *)
(* managers and contents of a resource.                                    *)
(***************************************************************************)
EXTENDS ClusterRegistry, TLAPS

USE DEF PCs, States, Holding, Targeting

\* rwLock is held by exactly the call that is between its Lock and Unlock.
LockInv == \A w \in Workers : lock = w <=> pc[w] \in Holding

\* The work queue hands a key to one worker at a time.
KeyInv ==
    \A w, u \in Workers :
        pc[w] # "none" /\ pc[u] # "none" /\ key[w] = key[u] => w = u

\* A call works on the manager the map has for its key; it deletes the entry
\* only when the thread has received the destroy message.
TargetInv ==
    \A w \in Workers :
        /\ pc[w] \in Targeting => clusterMap[key[w]] = target[w]
        /\ pc[w] = "delete" => ~Alive(target[w])

\* A manager in the map is the key's own, and alive unless the key is just
\* being deleted.
Deleting(k) == \E w \in Workers : pc[w] = "delete" /\ key[w] = k

MapInv ==
    \A k \in Keys :
        clusterMap[k] # None =>
            /\ keyOf[clusterMap[k]] = k
            /\ state[clusterMap[k]] # "free"
            /\ Alive(clusterMap[k]) \/ Deleting(k)

\* The inductive invariant behind the safety of the channels.
SafeInv == LockInv /\ KeyInv /\ TargetInv /\ MapInv /\ OneManagerPerCluster

IndInv == TypeOK /\ SafeInv

\* What a call knows of the resource is current unless the key is queued
\* again, and a call that has passed it on has left it in the manager.
ReadInv ==
    \A w \in Workers :
        pc[w] # "none" =>
            /\ key[w] \notin queued => read[w] = resource[key[w]]
            /\ read[w] = None <=> pc[w] \in {"del", "destroy", "delete"}
            /\ pc[w] \in {"spawn", "build"} =>
                  /\ clusterMap[key[w]] # None
                  /\ podsOf[clusterMap[key[w]]] = read[w]
                  /\ paramsOf[clusterMap[key[w]]] = read[w]
            /\ pc[w] = "detecting" => podsOf[target[w]] = read[w]

\* The inductive invariant behind MapFollowsResource.
FollowInv == ReadInv /\ MapFollowsResource

LEMMA NoneIsOther ==
    None \notin Workers /\ None \notin Keys /\ None \notin Mgrs
        /\ None \notin Versions
BY RegistryAssumption

\* The invariant holds initially.
LEMMA InitInd == Init => IndInv
BY NoneIsOther
   DEF Init, IndInv, SafeInv, TypeOK, LockInv, KeyInv, TargetInv, MapInv,
       Alive, OneManagerPerCluster

\* Every step keeps the types.
LEMMA TypeStep == TypeOK /\ [Next]_vars => TypeOK'
<1> SUFFICES ASSUME TypeOK, [Next]_vars PROVE TypeOK'
  OBVIOUS
<1> USE NoneIsOther DEF TypeOK, Goto, Return, managers, workers
<1>1. ASSUME NEW w \in Workers, NEW k \in Keys, Reconcile(w, k)
      PROVE  TypeOK'
  BY <1>1 DEF Reconcile
<1>2. ASSUME NEW w \in Workers, ReconcileFails(w) \/ ReconcileSkips(w)
      PROVE  TypeOK'
  BY <1>2 DEF ReconcileFails, ReconcileSkips
<1>3. ASSUME NEW w \in Workers, BuildFails(w) PROVE TypeOK'
  BY <1>3 DEF BuildFails
<1>4. ASSUME NEW w \in Workers, NEW m \in Mgrs, AddNew(w, m) PROVE TypeOK'
  BY <1>4 DEF AddNew
<1>5. ASSUME NEW w \in Workers, Spawn(w) PROVE TypeOK'
  BY <1>5 DEF Spawn
<1>6. ASSUME NEW w \in Workers, AddExisting(w) PROVE TypeOK'
  BY <1>6 DEF AddExisting, Unmanaged
<1>7. ASSUME NEW w \in Workers, SendPodList(w) PROVE TypeOK'
  BY <1>7 DEF SendPodList
<1>8. ASSUME NEW w \in Workers, SendDetecting(w) PROVE TypeOK'
  BY <1>8 DEF SendDetecting
<1>9. ASSUME NEW w \in Workers, UpdateCluster(w) PROVE TypeOK'
  BY <1>9 DEF UpdateCluster
<1>10. ASSUME NEW w \in Workers, DelUnknown(w) PROVE TypeOK'
  BY <1>10 DEF DelUnknown
<1>11. ASSUME NEW w \in Workers, DelExisting(w) PROVE TypeOK'
  BY <1>11 DEF DelExisting, Unmanaged
<1>12. ASSUME NEW w \in Workers, SendDestroy(w) PROVE TypeOK'
  BY <1>12 DEF SendDestroy
<1>13. ASSUME NEW w \in Workers, DeleteEntry(w) PROVE TypeOK'
  BY <1>13 DEF DeleteEntry
<1>14. ASSUME NEW m \in Mgrs, Thread(m) PROVE TypeOK'
  BY <1>14 DEF Thread, HandlerBegins, TakeSignal, HandlerEnds, ThreadEnds,
               Collected
<1>15. ASSUME NEW k \in Keys, ResourceChanges(k) \/ StatefulSetEvent(k)
       PROVE  TypeOK'
  BY <1>15 DEF ResourceChanges, StatefulSetEvent
<1>16. CASE UNCHANGED vars
  BY <1>16 DEF vars
<1> QED
  BY <1>1, <1>2, <1>3, <1>4, <1>5, <1>6, <1>7, <1>8, <1>9, <1>10, <1>11,
     <1>12, <1>13, <1>14, <1>15, <1>16 DEF Next, Call

\* Every step keeps the parts of the invariant that relate the lock, the map and
\* the threads. What they say of the types comes from TypeStep.
LEMMA SafeStep == IndInv /\ [Next]_vars => SafeInv'
<1> SUFFICES ASSUME IndInv, [Next]_vars PROVE SafeInv'
  OBVIOUS
<1> USE NoneIsOther
    DEF IndInv, SafeInv, TypeOK, LockInv, KeyInv, TargetInv, MapInv,
        OneManagerPerCluster, Deleting, Alive, Goto, Return, managers, workers
<1>1. ASSUME NEW w \in Workers, NEW k \in Keys, Reconcile(w, k)
      PROVE  SafeInv'
  <2>1. LockInv'
    BY <1>1 DEF Reconcile, Working
  <2>2. KeyInv'
    BY <1>1 DEF Reconcile, Working
  <2>3. TargetInv'
    BY <1>1 DEF Reconcile, Working
  <2>4. MapInv'
    BY <1>1 DEF Reconcile, Working
  <2>5. OneManagerPerCluster'
    BY <1>1 DEF Reconcile, Working
  <2> QED
    BY <2>1, <2>2, <2>3, <2>4, <2>5 DEF SafeInv
<1>2. ASSUME NEW w \in Workers, ReconcileFails(w) \/ ReconcileSkips(w)
      PROVE  SafeInv'
  BY <1>2 DEF ReconcileFails, ReconcileSkips
<1>3. ASSUME NEW w \in Workers, BuildFails(w)
      PROVE  SafeInv'
  BY <1>3 DEF BuildFails
<1>4. ASSUME NEW w \in Workers, NEW m \in Mgrs, AddNew(w, m)
      PROVE  SafeInv'
  <2>1. LockInv'
    BY <1>4 DEF AddNew, Unmanaged
  <2>2. KeyInv'
    BY <1>4 DEF AddNew, Unmanaged
  <2>3. TargetInv'
    BY <1>4 DEF AddNew, Unmanaged
  <2>4. MapInv'
    BY <1>4 DEF AddNew, Unmanaged
  <2>5. OneManagerPerCluster'
    BY <1>4 DEF AddNew, Unmanaged
  <2> QED
    BY <2>1, <2>2, <2>3, <2>4, <2>5 DEF SafeInv
<1>5. ASSUME NEW w \in Workers, Spawn(w)
      PROVE  SafeInv'
  <2>1. LockInv'
    BY <1>5 DEF Spawn
  <2>2. KeyInv'
    BY <1>5 DEF Spawn
  <2>3. TargetInv'
    BY <1>5 DEF Spawn
  <2>4. MapInv'
    BY <1>5 DEF Spawn
  <2>5. OneManagerPerCluster'
    BY <1>5 DEF Spawn
  <2> QED
    BY <2>1, <2>2, <2>3, <2>4, <2>5 DEF SafeInv
<1>6. ASSUME NEW w \in Workers, AddExisting(w)
      PROVE  SafeInv'
  BY <1>6 DEF AddExisting, Unmanaged
<1>7. ASSUME NEW w \in Workers, SendPodList(w)
      PROVE  SafeInv'
  BY <1>7 DEF SendPodList
<1>8. ASSUME NEW w \in Workers, SendDetecting(w)
      PROVE  SafeInv'
  BY <1>8 DEF SendDetecting
<1>9. ASSUME NEW w \in Workers, UpdateCluster(w)
      PROVE  SafeInv'
  BY <1>9 DEF UpdateCluster
<1>10. ASSUME NEW w \in Workers, DelUnknown(w)
      PROVE  SafeInv'
  BY <1>10 DEF DelUnknown, Unmanaged
<1>11. ASSUME NEW w \in Workers, DelExisting(w)
      PROVE  SafeInv'
  BY <1>11 DEF DelExisting, Unmanaged
<1>12. ASSUME NEW w \in Workers, SendDestroy(w)
      PROVE  SafeInv'
  <2>1. LockInv'
    BY <1>12 DEF SendDestroy
  <2>2. KeyInv'
    BY <1>12 DEF SendDestroy
  <2>3. TargetInv'
    BY <1>12 DEF SendDestroy
  <2>4. MapInv'
    BY <1>12 DEF SendDestroy
  <2>5. OneManagerPerCluster'
    BY <1>12 DEF SendDestroy
  <2> QED
    BY <2>1, <2>2, <2>3, <2>4, <2>5 DEF SafeInv
<1>13. ASSUME NEW w \in Workers, DeleteEntry(w)
      PROVE  SafeInv'
  <2>1. LockInv'
    BY <1>13 DEF DeleteEntry
  <2>2. KeyInv'
    BY <1>13 DEF DeleteEntry
  <2>3. TargetInv'
    BY <1>13 DEF DeleteEntry
  <2>4. MapInv'
    BY <1>13 DEF DeleteEntry
  <2>5. OneManagerPerCluster'
    BY <1>13 DEF DeleteEntry
  <2> QED
    BY <2>1, <2>2, <2>3, <2>4, <2>5 DEF SafeInv
<1>14. ASSUME NEW m \in Mgrs, Thread(m)
      PROVE  SafeInv'
  <2>1. LockInv'
    BY <1>14 DEF Thread, HandlerBegins, TakeSignal, HandlerEnds, ThreadEnds,
               Collected
  <2>2. KeyInv'
    BY <1>14 DEF Thread, HandlerBegins, TakeSignal, HandlerEnds, ThreadEnds,
               Collected
  <2>3. TargetInv'
    BY <1>14 DEF Thread, HandlerBegins, TakeSignal, HandlerEnds, ThreadEnds,
               Collected
  <2>4. MapInv'
    BY <1>14 DEF Thread, HandlerBegins, TakeSignal, HandlerEnds, ThreadEnds,
               Collected
  <2>5. OneManagerPerCluster'
    BY <1>14 DEF Thread, HandlerBegins, TakeSignal, HandlerEnds, ThreadEnds,
               Collected
  <2> QED
    BY <2>1, <2>2, <2>3, <2>4, <2>5 DEF SafeInv
<1>15. ASSUME NEW k \in Keys, ResourceChanges(k) \/ StatefulSetEvent(k)
      PROVE  SafeInv'
  BY <1>15 DEF ResourceChanges, StatefulSetEvent
<1>16. CASE UNCHANGED vars
  BY <1>16 DEF vars
<1> QED
  BY <1>1, <1>2, <1>3, <1>4, <1>5, <1>6, <1>7, <1>8, <1>9, <1>10, <1>11,
     <1>12, <1>13, <1>14, <1>15, <1>16 DEF Next, Call

\* Every step keeps what calls know of the resource, and what they leave behind.
LEMMA FollowStep == IndInv /\ FollowInv /\ [Next]_vars => FollowInv'
<1> SUFFICES ASSUME IndInv, FollowInv, [Next]_vars PROVE FollowInv'
  OBVIOUS
<1> USE NoneIsOther
    DEF IndInv, SafeInv, FollowInv, ReadInv, MapFollowsResource, TypeOK,
        LockInv, KeyInv, TargetInv, MapInv, OneManagerPerCluster, Deleting,
        Alive, Working, Goto, Return, managers, workers
<1>1. ASSUME NEW w \in Workers, NEW k \in Keys, Reconcile(w, k)
      PROVE  FollowInv'
  <2>1. ReadInv'
    BY <1>1 DEF Reconcile
  <2>2. MapFollowsResource'
    BY <1>1 DEF Reconcile
  <2> QED
    BY <2>1, <2>2 DEF FollowInv
<1>2. ASSUME NEW w \in Workers, ReconcileFails(w) \/ ReconcileSkips(w)
      PROVE  FollowInv'
  BY <1>2 DEF ReconcileFails, ReconcileSkips
<1>3. ASSUME NEW w \in Workers, BuildFails(w)
      PROVE  FollowInv'
  BY <1>3 DEF BuildFails
<1>4. ASSUME NEW w \in Workers, NEW m \in Mgrs, AddNew(w, m)
      PROVE  FollowInv'
  <2>1. ReadInv'
    BY <1>4 DEF AddNew, Unmanaged
  <2>2. MapFollowsResource'
    BY <1>4 DEF AddNew, Unmanaged
  <2> QED
    BY <2>1, <2>2 DEF FollowInv
<1>5. ASSUME NEW w \in Workers, Spawn(w)
      PROVE  FollowInv'
  <2>1. ReadInv'
    BY <1>5 DEF Spawn
  <2>2. MapFollowsResource'
    BY <1>5 DEF Spawn
  <2> QED
    BY <2>1, <2>2 DEF FollowInv
<1>6. ASSUME NEW w \in Workers, AddExisting(w)
      PROVE  FollowInv'
  BY <1>6 DEF AddExisting, Unmanaged
<1>7. ASSUME NEW w \in Workers, SendPodList(w)
      PROVE  FollowInv'
  BY <1>7 DEF SendPodList
<1>8. ASSUME NEW w \in Workers, SendDetecting(w)
      PROVE  FollowInv'
  BY <1>8 DEF SendDetecting
<1>9. ASSUME NEW w \in Workers, UpdateCluster(w)
      PROVE  FollowInv'
  BY <1>9 DEF UpdateCluster
<1>10. ASSUME NEW w \in Workers, DelUnknown(w)
      PROVE  FollowInv'
  BY <1>10 DEF DelUnknown, Unmanaged
<1>11. ASSUME NEW w \in Workers, DelExisting(w)
      PROVE  FollowInv'
  BY <1>11 DEF DelExisting, Unmanaged
<1>12. ASSUME NEW w \in Workers, SendDestroy(w)
      PROVE  FollowInv'
  <2>1. ReadInv'
    BY <1>12 DEF SendDestroy
  <2>2. MapFollowsResource'
    BY <1>12 DEF SendDestroy
  <2> QED
    BY <2>1, <2>2 DEF FollowInv
<1>13. ASSUME NEW w \in Workers, DeleteEntry(w)
      PROVE  FollowInv'
  <2>1. ReadInv'
    BY <1>13 DEF DeleteEntry
  <2>2. MapFollowsResource'
    BY <1>13 DEF DeleteEntry
  <2> QED
    BY <2>1, <2>2 DEF FollowInv
<1>14. ASSUME NEW m \in Mgrs, Thread(m)
      PROVE  FollowInv'
  <2>1. ReadInv'
    BY <1>14 DEF Thread, HandlerBegins, TakeSignal, HandlerEnds, ThreadEnds,
               Collected
  <2>2. MapFollowsResource'
    BY <1>14 DEF Thread, HandlerBegins, TakeSignal, HandlerEnds, ThreadEnds,
               Collected
  <2> QED
    BY <2>1, <2>2 DEF FollowInv
<1>15. ASSUME NEW k \in Keys, ResourceChanges(k) \/ StatefulSetEvent(k)
      PROVE  FollowInv'
  BY <1>15 DEF ResourceChanges, StatefulSetEvent
<1>16. CASE UNCHANGED vars
  BY <1>16 DEF vars
<1> QED
  BY <1>1, <1>2, <1>3, <1>4, <1>5, <1>6, <1>7, <1>8, <1>9, <1>10, <1>11,
     <1>12, <1>13, <1>14, <1>15, <1>16 DEF Next, Call

----------------------------------------------------------------------------
LEMMA IndStep == IndInv /\ [Next]_vars => IndInv'
BY TypeStep, SafeStep DEF IndInv

LEMMA Invariance == Spec => []IndInv
<1>1. Init => IndInv
  BY InitInd
<1>2. IndInv /\ [Next]_vars => IndInv'
  BY IndStep
<1> QED
  BY <1>1, <1>2, PTL DEF Spec

\* The variables of the model of AddCluster, UpdateCluster, DelCluster and
\* clusterThread keep their types, and a call that works on a manager has one.
THEOREM TypeCorrect == Spec => []TypeOK
<1>1. IndInv => TypeOK
  BY DEF IndInv
<1> QED
  BY <1>1, Invariance, PTL

\* No call of Reconcile on the ClusterManager ever sends on a channel the
\* thread has closed, so none of them panics.
THEOREM ChannelSafety == Spec => []NoSendOnClosed
<1>1. IndInv => NoSendOnClosed
  <2> SUFFICES ASSUME IndInv, NEW w \in Workers
               PROVE  /\ pc[w] \in {"pods", "detecting", "destroy"}
                            => Alive(target[w])
                      /\ pc[w] = "build" /\ clusterMap[key[w]] # None
                            => Alive(clusterMap[key[w]])
    BY DEF NoSendOnClosed
  <2>1. ASSUME pc[w] \in {"pods", "detecting", "destroy", "build"},
               clusterMap[key[w]] # None
        PROVE  Alive(clusterMap[key[w]])
    <3>1. key[w] \in Keys
      BY <2>1 DEF IndInv, TypeOK
    <3>2. ~Deleting(key[w])
      BY <2>1, <3>1 DEF IndInv, SafeInv, KeyInv, Deleting
    <3> QED
      BY <2>1, <3>1, <3>2 DEF IndInv, SafeInv, MapInv
  <2>2. ASSUME pc[w] \in {"pods", "detecting", "destroy"}
        PROVE  target[w] # None /\ clusterMap[key[w]] = target[w]
    BY <2>2, NoneIsOther DEF IndInv, SafeInv, TypeOK, TargetInv
  <2> QED
    BY <2>1, <2>2
<1> QED
  BY <1>1, Invariance, PTL

\* A cluster never has two threads at work, and every thread at work is the one
\* the map has for its cluster, so DelCluster reaches it.
THEOREM SingleManager == Spec => []OneManagerPerCluster
<1>1. IndInv => OneManagerPerCluster
  BY DEF IndInv, SafeInv
<1> QED
  BY <1>1, Invariance, PTL

LEMMA InitFollow == Init => FollowInv
BY NoneIsOther
   DEF Init, FollowInv, ReadInv, MapFollowsResource, Working

\* Once the controller has nothing left to do for a resource and its last
\* Reconcile was not cut short, its thread exists exactly if the resource does,
\* and works with the resource's content.
THEOREM RegistryFollowsResources == Spec => []MapFollowsResource
<1>1. Init => FollowInv
  BY InitFollow
<1>2. IndInv /\ FollowInv /\ [Next]_vars => FollowInv'
  BY FollowStep
<1>3. FollowInv => MapFollowsResource
  BY DEF FollowInv
<1> QED
  BY <1>1, <1>2, <1>3, Invariance, PTL DEF Spec

----------------------------------------------------------------------------
(* ClusterRegistry implements ManagerLifecycle.                            *)

\* What a step leaves alone: the calls, when no worker starts or ends one; the
\* threads, when no manager in the map changes.
SameCalls ==
    /\ key' = key /\ read' = read
    /\ \A w \in Workers : pc'[w] # "none" <=> pc[w] # "none"

SameThreads ==
    /\ clusterMap' = clusterMap /\ podsOf' = podsOf /\ paramsOf' = paramsOf
    /\ \A m \in Mgrs : Alive(m)' <=> Alive(m)

LEMMA CallsStay == TypeOK /\ SameCalls => UNCHANGED call
BY DEF TypeOK, SameCalls, call, Working

LEMMA ThreadsStay == TypeOK /\ SameThreads => UNCHANGED thread
BY NoneIsOther DEF TypeOK, SameThreads, thread

\* The call of the worker that serves a key is what this worker has read.
LEMMA OneCall ==
    ASSUME IndInv, NEW w \in Workers, pc[w] # "none"
    PROVE  key[w] \in Keys /\ call[key[w]] = {read[w]}
BY DEF IndInv, SafeInv, TypeOK, KeyInv, call, Working

\* A call that returns ends the abstract call of its key and no other.
LEMMA CallEnds ==
    ASSUME IndInv, NEW w \in Workers, pc[w] # "none", Return(w)
    PROVE  call[key[w]] # {} /\ call' = [call EXCEPT ![key[w]] = {}]
<1>1. key[w] \in Keys /\ call[key[w]] = {read[w]}
  BY OneCall
<1>2. ASSUME NEW k \in Keys
      PROVE  call'[k] = IF k = key[w] THEN {} ELSE call[k]
  BY <1>1, <1>2, NoneIsOther
     DEF IndInv, SafeInv, TypeOK, KeyInv, call, Working, Return, Goto
<1> QED
  BY <1>1, <1>2 DEF call

LEMMA InitRefines == Init => Lifecycle!Init
BY NoneIsOther DEF Init, Lifecycle!Init, call, thread, Working

\* The manager a call works on is the one in the map, and alive until the call
\* has stopped it.
LEMMA TargetAlive ==
    ASSUME IndInv, NEW w \in Workers, pc[w] \in Targeting
    PROVE  /\ key[w] \in Keys /\ target[w] \in Mgrs /\ target[w] # None
           /\ clusterMap[key[w]] = target[w]
           /\ Alive(target[w]) <=> pc[w] # "delete"
<1>1. key[w] \in Keys /\ target[w] \in Mgrs /\ clusterMap[key[w]] = target[w]
  BY DEF IndInv, SafeInv, TypeOK, TargetInv
<1>2. pc[w] # "delete" => ~Deleting(key[w])
  BY DEF IndInv, SafeInv, KeyInv, Deleting
<1> QED
  BY <1>1, <1>2, NoneIsOther DEF IndInv, SafeInv, MapInv, TargetInv

\* Every step is a step of the abstract specification, or changes nothing there.
LEMMA StepRefines ==
    IndInv /\ ReadInv /\ [Next]_vars => [Lifecycle!Next]_(Lifecycle!vars)
<1> SUFFICES ASSUME IndInv, ReadInv, [Next]_vars
             PROVE  Lifecycle!Next \/ UNCHANGED <<resource, call, thread>>
  BY DEF Lifecycle!vars
<1>0. TypeOK
  BY DEF IndInv
<1>1. ASSUME NEW w \in Workers, NEW k \in Keys, Reconcile(w, k)
      PROVE  Lifecycle!Begin(k)
  <2>1. call[k] = {}
    BY <1>1 DEF Reconcile, call
  <2>2. call' = [call EXCEPT ![k] = {resource[k]}]
    <3>1. ASSUME NEW l \in Keys
          PROVE  call'[l] = IF l = k THEN {resource[k]} ELSE call[l]
      BY <1>0, <1>1, NoneIsOther
         DEF TypeOK, Reconcile, call, Working, Goto
    <3> QED
      BY <3>1 DEF call
  <2>3. UNCHANGED thread
    BY <1>0, <1>1, ThreadsStay DEF Reconcile, managers, SameThreads, Alive
  <2> QED
    BY <1>1, <2>1, <2>2, <2>3 DEF Reconcile, Lifecycle!Begin
<1>2. ASSUME NEW w \in Workers,
             \/ ReconcileFails(w) \/ ReconcileSkips(w) \/ BuildFails(w)
             \/ UpdateCluster(w) \/ DelUnknown(w)
      PROVE  Lifecycle!End(key[w])
  <2>1. Return(w) /\ pc[w] # "none" /\ resource' = resource
    BY <1>2 DEF ReconcileFails, ReconcileSkips, BuildFails, UpdateCluster,
                DelUnknown
  <2>2. UNCHANGED thread
    BY <1>0, <1>2, ThreadsStay
       DEF ReconcileFails, ReconcileSkips, BuildFails, UpdateCluster,
           DelUnknown, managers, SameThreads, Alive
  <2> QED
    BY <2>1, <2>2, CallEnds DEF Lifecycle!End
<1>3. ASSUME NEW w \in Workers, NEW m \in Mgrs, AddNew(w, m)
      PROVE  Lifecycle!Start(key[w])
  <2>1. /\ pc[w] # "none" /\ key[w] \in Keys /\ read[w] \in Versions
        /\ call[key[w]] = {read[w]}
    BY <1>0, <1>3, OneCall DEF AddNew, ReadInv, TypeOK
  <2>2. thread[key[w]] = {}
    BY <1>3, <2>1 DEF AddNew, Unmanaged, thread
  <2>3. ASSUME NEW k \in Keys
        PROVE  thread'[k] = IF k = key[w]
                            THEN {[pods |-> read[w], params |-> read[w]]}
                            ELSE thread[k]
    <3>1. CASE k = key[w]
      BY <1>0, <1>3, <2>1, <3>1, NoneIsOther DEF TypeOK, AddNew, thread, Alive
    <3>2. CASE k # key[w]
      <4>1. clusterMap'[k] = clusterMap[k] /\ clusterMap[k] # m
        BY <1>0, <1>3, <2>1, <3>2, NoneIsOther
           DEF TypeOK, AddNew, IndInv, SafeInv, MapInv
      <4> QED
        BY <1>0, <1>3, <4>1 DEF TypeOK, AddNew, thread, Alive
    <3> QED
      BY <3>1, <3>2
  <2>4. UNCHANGED call
    BY <1>0, <1>3, CallsStay DEF AddNew, SameCalls, Goto, TypeOK
  <2>5. thread' = [thread EXCEPT ![key[w]] =
                     {[pods |-> read[w], params |-> read[w]]}]
    BY <2>3 DEF thread
  <2>6. read[w] \in call[key[w]] \ {None}
    BY <2>1, NoneIsOther
  <2> QED
    BY <1>3, <2>2, <2>4, <2>5, <2>6 DEF Lifecycle!Start, AddNew
<1>4. ASSUME NEW w \in Workers, Spawn(w)
      PROVE  UNCHANGED <<resource, call, thread>>
  <2>1. target[w] \in Mgrs /\ Alive(target[w])
    BY <1>4, TargetAlive DEF Spawn
  <2>2. UNCHANGED thread
    BY <1>0, <1>4, <2>1, ThreadsStay DEF Spawn, SameThreads, Alive, TypeOK
  <2>3. UNCHANGED call
    BY <1>0, <1>4, CallsStay DEF Spawn, SameCalls, Goto, TypeOK
  <2> QED
    BY <1>4, <2>2, <2>3 DEF Spawn
<1>5. ASSUME NEW w \in Workers, AddExisting(w) \/ DelExisting(w)
      PROVE  UNCHANGED <<resource, call, thread>>
  <2>1. UNCHANGED thread
    BY <1>0, <1>5, ThreadsStay
       DEF AddExisting, DelExisting, SameThreads, Alive, managers
  <2>2. UNCHANGED call
    BY <1>0, <1>5, CallsStay
       DEF AddExisting, DelExisting, SameCalls, Goto, TypeOK
  <2> QED
    BY <1>5, <2>1, <2>2 DEF AddExisting, DelExisting
<1>6. ASSUME NEW w \in Workers, SendPodList(w) \/ SendDetecting(w)
      PROVE  Lifecycle!SetPods(key[w]) \/ Lifecycle!SetParams(key[w])
  <2>1. pc[w] \in Targeting /\ pc[w] # "delete" /\ pc[w] # "none"
    BY <1>6 DEF SendPodList, SendDetecting
  <2>2. /\ key[w] \in Keys /\ target[w] \in Mgrs /\ target[w] # None
        /\ clusterMap[key[w]] = target[w] /\ Alive(target[w])
    BY <2>1, TargetAlive
  <2>3. read[w] \in Versions /\ call[key[w]] = {read[w]}
    BY <1>0, <1>6, <2>1, OneCall DEF ReadInv, TypeOK, SendPodList, SendDetecting
  <2>4. thread[key[w]] = {[pods |-> podsOf[target[w]],
                           params |-> paramsOf[target[w]]]}
    BY <2>2 DEF thread
  <2>5. UNCHANGED call
    BY <1>0, <1>6, CallsStay
       DEF SendPodList, SendDetecting, SameCalls, Goto, TypeOK
  <2>6. ASSUME NEW k \in Keys, k # key[w]
        PROVE  clusterMap[k] # target[w]
    BY <2>2, <2>6, NoneIsOther DEF IndInv, SafeInv, MapInv
  <2>7. CASE SendPodList(w)
    <3>1. ASSUME NEW k \in Keys
          PROVE  thread'[k] = IF k = key[w]
                              THEN {[pods |-> read[w],
                                     params |-> paramsOf[target[w]]]}
                              ELSE thread[k]
      BY <1>0, <2>2, <2>6, <2>7 DEF TypeOK, SendPodList, thread, Alive
    <3>2. thread' = [thread EXCEPT ![key[w]] =
                       {[pods |-> read[w], params |-> paramsOf[target[w]]]}]
      BY <2>2, <3>1 DEF thread
    <3> DEFINE s == [pods |-> podsOf[target[w]], params |-> paramsOf[target[w]]]
    <3>3. /\ s \in thread[key[w]] /\ read[w] \in call[key[w]] \ {None}
          /\ [s EXCEPT !.pods = read[w]] =
               [pods |-> read[w], params |-> paramsOf[target[w]]]
      BY <2>3, <2>4, NoneIsOther
    <3> HIDE DEF s
    <3> QED
      BY <2>5, <2>7, <3>2, <3>3 DEF Lifecycle!SetPods, SendPodList
  <2>8. CASE SendDetecting(w)
    <3>1. ASSUME NEW k \in Keys
          PROVE  thread'[k] = IF k = key[w]
                              THEN {[pods |-> podsOf[target[w]],
                                     params |-> read[w]]}
                              ELSE thread[k]
      BY <1>0, <2>2, <2>6, <2>8 DEF TypeOK, SendDetecting, thread, Alive
    <3>2. thread' = [thread EXCEPT ![key[w]] =
                       {[pods |-> podsOf[target[w]], params |-> read[w]]}]
      BY <2>2, <3>1 DEF thread
    <3> DEFINE s == [pods |-> podsOf[target[w]], params |-> paramsOf[target[w]]]
    <3>3. /\ s \in thread[key[w]] /\ read[w] \in call[key[w]] \ {None}
          /\ [s EXCEPT !.params = read[w]] =
               [pods |-> podsOf[target[w]], params |-> read[w]]
      BY <2>3, <2>4, NoneIsOther
    <3> HIDE DEF s
    <3> QED
      BY <2>5, <2>8, <3>2, <3>3 DEF Lifecycle!SetParams, SendDetecting
  <2> QED
    BY <1>6, <2>7, <2>8
<1>7. ASSUME NEW w \in Workers, SendDestroy(w)
      PROVE  Lifecycle!Stop(key[w])
  <2>1. /\ key[w] \in Keys /\ target[w] \in Mgrs /\ target[w] # None
        /\ clusterMap[key[w]] = target[w] /\ Alive(target[w])
    BY <1>7, TargetAlive DEF SendDestroy
  <2>2. call[key[w]] = {None}
    BY <1>7, OneCall DEF SendDestroy, ReadInv
  <2>3. thread[key[w]] # {}
    BY <2>1 DEF thread
  <2>4. ASSUME NEW k \in Keys
        PROVE  thread'[k] = IF k = key[w] THEN {} ELSE thread[k]
    <3>1. k # key[w] => clusterMap[k] # target[w]
      BY <2>1, NoneIsOther DEF IndInv, SafeInv, MapInv
    <3> QED
      BY <1>0, <1>7, <2>1, <3>1 DEF TypeOK, SendDestroy, thread, Alive
  <2>5. UNCHANGED call
    BY <1>0, <1>7, CallsStay DEF SendDestroy, SameCalls, Goto, TypeOK
  <2> QED
    BY <1>7, <2>1, <2>2, <2>3, <2>4, <2>5
       DEF Lifecycle!Stop, SendDestroy, thread
<1>8. ASSUME NEW w \in Workers, DeleteEntry(w)
      PROVE  Lifecycle!End(key[w])
  <2>1. Return(w) /\ pc[w] # "none" /\ resource' = resource
    BY <1>8 DEF DeleteEntry
  <2>2. key[w] \in Keys /\ clusterMap[key[w]] = target[w] /\ ~Alive(target[w])
    BY <1>8, TargetAlive DEF DeleteEntry
  <2>3. ASSUME NEW k \in Keys PROVE thread'[k] = thread[k]
    BY <1>0, <1>8, <2>2 DEF TypeOK, DeleteEntry, thread, Alive, managers
  <2> QED
    BY <2>1, <2>3, CallEnds DEF Lifecycle!End, thread
<1>9. ASSUME NEW m \in Mgrs, Thread(m)
      PROVE  UNCHANGED <<resource, call, thread>>
  <2>1. UNCHANGED <<resource, clusterMap, workers>>
    BY <1>9 DEF Thread, HandlerBegins, TakeSignal, HandlerEnds, ThreadEnds,
                Collected
  <2>2. UNCHANGED call
    BY <1>0, <2>1, CallsStay DEF SameCalls, workers
  <2>3. CASE Collected(m)
    <3>1. ASSUME NEW k \in Keys PROVE thread'[k] = thread[k]
      BY <1>0, <2>3 DEF TypeOK, Collected, thread, Alive
    <3> QED
      BY <2>1, <2>2, <3>1 DEF thread
  <2>4. CASE ~Collected(m)
    <3>1. SameThreads
      BY <1>0, <1>9, <2>4
         DEF Thread, HandlerBegins, TakeSignal, HandlerEnds, ThreadEnds,
             SameThreads, Alive, TypeOK
    <3> QED
      BY <1>0, <2>1, <2>2, <3>1, ThreadsStay
  <2> QED
    BY <2>3, <2>4
<1>10. ASSUME NEW k \in Keys, ResourceChanges(k) \/ StatefulSetEvent(k)
       PROVE  Lifecycle!Change(k) \/ UNCHANGED <<resource, call, thread>>
  <2>1. UNCHANGED call
    BY <1>0, <1>10, CallsStay
       DEF ResourceChanges, StatefulSetEvent, SameCalls, workers
  <2>2. UNCHANGED thread
    BY <1>0, <1>10, ThreadsStay
       DEF ResourceChanges, StatefulSetEvent, SameThreads, Alive, managers
  <2> QED
    BY <1>10, <2>1, <2>2
       DEF ResourceChanges, StatefulSetEvent, Lifecycle!Change
<1>11. CASE UNCHANGED vars
  <2>1. SameCalls /\ SameThreads /\ resource' = resource
    BY <1>11 DEF vars, managers, workers, SameCalls, SameThreads, Alive
  <2> QED
    BY <1>0, <2>1, CallsStay, ThreadsStay
<1>12. ASSUME NEW w \in Workers, pc[w] # "none" PROVE key[w] \in Keys
  BY <1>12, OneCall
<1>13. CASE \E w \in Workers : Call(w)
  <2>1. PICK w \in Workers : Call(w)
    BY <1>13
  <2>2. pc[w] # "none"
    BY <2>1
       DEF Call, ReconcileFails, ReconcileSkips, BuildFails, AddNew, Spawn,
           AddExisting, SendPodList, SendDetecting, UpdateCluster, DelUnknown,
           DelExisting, SendDestroy, DeleteEntry
  <2> QED
    BY <1>2, <1>3, <1>4, <1>5, <1>6, <1>7, <1>8, <1>12, <2>1, <2>2
       DEF Call, Lifecycle!Next
<1> QED
  BY <1>1, <1>9, <1>10, <1>11, <1>13 DEF Next, Lifecycle!Next

\* The map, the lock and the channels implement the abstract specification: for
\* any number of clusters and workers, a cluster's thread is started, changed
\* and stopped only by the call under way for it, after what that call read.
THEOREM LifecycleImplemented == Spec => ImplementsLifecycle
<1>1. Init => Lifecycle!Init
  BY InitRefines
<1>2. IndInv /\ ReadInv /\ [Next]_vars => [Lifecycle!Next]_(Lifecycle!vars)
  BY StepRefines
<1>3. Init => FollowInv
  BY InitFollow
<1>4. IndInv /\ FollowInv /\ [Next]_vars => FollowInv'
  BY FollowStep
<1>5. FollowInv => ReadInv
  BY DEF FollowInv
<1> QED
  BY <1>1, <1>2, <1>3, <1>4, <1>5, Invariance, PTL
     DEF Spec, Lifecycle!Spec, ImplementsLifecycle

----------------------------------------------------------------------------
(* Whoever holds the lock will get on.                                     *)

\* Only the call that has made a manager keeps its thread from starting.
MadeInv ==
    \A m \in Mgrs : state[m] = "made" =>
        \E w \in Workers : pc[w] = "spawn" /\ target[w] = m

LEMMA MadeStep == IndInv /\ MadeInv /\ [Next]_vars => MadeInv'
<1> SUFFICES ASSUME IndInv, MadeInv, [Next]_vars PROVE MadeInv'
  OBVIOUS
<1>0. TypeOK
  BY DEF IndInv
<1> USE DEF MadeInv, TypeOK, Goto, Return, managers, workers
<1>1. ASSUME NEW w \in Workers, NEW k \in Keys, Reconcile(w, k)
      PROVE  MadeInv'
  BY <1>0, <1>1 DEF Reconcile
<1>2. ASSUME NEW w \in Workers,
             \/ ReconcileFails(w) \/ ReconcileSkips(w) \/ BuildFails(w)
             \/ UpdateCluster(w) \/ DelUnknown(w) \/ DeleteEntry(w)
      PROVE  MadeInv'
  BY <1>0, <1>2
     DEF ReconcileFails, ReconcileSkips, BuildFails, UpdateCluster, DelUnknown,
         DeleteEntry
<1>3. ASSUME NEW w \in Workers, NEW m \in Mgrs, AddNew(w, m)
      PROVE  MadeInv'
  BY <1>0, <1>3 DEF AddNew
<1>4. ASSUME NEW w \in Workers, Spawn(w)
      PROVE  MadeInv'
  BY <1>0, <1>4 DEF Spawn
<1>5. ASSUME NEW w \in Workers,
             \/ AddExisting(w) \/ DelExisting(w) \/ SendPodList(w)
             \/ SendDetecting(w) \/ SendDestroy(w)
      PROVE  MadeInv'
  BY <1>0, <1>5
     DEF AddExisting, DelExisting, SendPodList, SendDetecting, SendDestroy
<1>6. ASSUME NEW m \in Mgrs, Thread(m)
      PROVE  MadeInv'
  BY <1>0, <1>6 DEF Thread, HandlerBegins, TakeSignal, HandlerEnds, ThreadEnds,
     Collected
<1>7. ASSUME NEW k \in Keys, ResourceChanges(k) \/ StatefulSetEvent(k)
      PROVE  MadeInv'
  BY <1>0, <1>7 DEF ResourceChanges, StatefulSetEvent
<1>8. CASE UNCHANGED vars
  BY <1>8 DEF vars
<1> QED
  BY <1>1, <1>2, <1>3, <1>4, <1>5, <1>6, <1>7, <1>8 DEF Next, Call

\* A call that holds rwLock over a blocking send sends to a thread that runs, so
\* it waits at most for the handler in progress, and the lock is released. This
\* is the safety core of CallsReturn, for any number of workers and clusters.
THEOREM HolderIsServed == Spec => []HolderMeetsThread
<1>1. Init => MadeInv
  BY DEF Init, MadeInv
<1>2. IndInv /\ MadeInv => HolderMeetsThread
  <2> SUFFICES ASSUME IndInv, MadeInv, NEW w \in Workers, lock = w
               PROVE  /\ pc[w] \in Holding
                      /\ pc[w] # "delete" =>
                            state[target[w]] \in {"idle", "busy"}
    BY DEF HolderMeetsThread, IndInv, TypeOK
  <2>1. pc[w] \in Holding
    BY DEF IndInv, SafeInv, LockInv
  <2>2. /\ key[w] \in Keys /\ target[w] \in Mgrs /\ target[w] # None
        /\ clusterMap[key[w]] = target[w]
        /\ Alive(target[w]) <=> pc[w] # "delete"
    BY <2>1, TargetAlive
  <2>3. ASSUME state[target[w]] = "made" PROVE FALSE
    <3>1. PICK u \in Workers : pc[u] = "spawn" /\ target[u] = target[w]
      BY <2>2, <2>3 DEF MadeInv
    <3>2. key[u] \in Keys /\ clusterMap[key[u]] = target[w]
      BY <3>1, TargetAlive
    <3>3. key[u] = key[w]
      BY <2>2, <3>2 DEF IndInv, SafeInv, MapInv
    <3> QED
      BY <2>1, <3>1, <3>3 DEF IndInv, SafeInv, KeyInv
  <2> QED
    BY <2>1, <2>2, <2>3 DEF Alive
<1> QED
  BY <1>1, <1>2, MadeStep, Invariance, PTL DEF Spec
=============================================================================
