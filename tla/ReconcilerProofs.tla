-------------------------- MODULE ReconcilerProofs --------------------------
(***************************************************************************)
(* Proofs about Reconciler, for any lists of nodes, any numbers of         *)
(* replicas, and any number of changes and faults.                         *)
(***************************************************************************)
EXTENDS Reconciler, TLAPS

LEMMA ConstantFacts ==
    /\ "gbase8s" \in Parts /\ Parts \subseteq {"gbase8s", "cm"}
    /\ Nodes \in [Parts -> Nat]
    /\ Wanted \subseteq [Parts -> Nat]
    /\ None \notin Nat
    /\ MaxGen \in Nat /\ MaxFaults \in Nat
BY ReconcilerAssumption

LEMMA StageFacts ==
    /\ Len(Stages) = 11
    /\ Stages[1] = <<"pv", "gbase8s">> /\ Stages[2] = <<"pvc", "gbase8s">>
    /\ Stages[3] = <<"pv", "cm">> /\ Stages[4] = <<"pvc", "cm">>
    /\ Stages[5] = <<"get", "gbase8s">> /\ Stages[6] = <<"get", "cm">>
    /\ Stages[7] = <<"svc", "gbase8s">> /\ Stages[8] = <<"svc", "cm">>
    /\ Stages[9] = <<"sfs", "gbase8s">> /\ Stages[10] = <<"sfs", "cm">>
    /\ Stages[11] = <<"add", "gbase8s">>
BY DEF Stages

LEMMA StageCount == Len(Stages) = 11
BY StageFacts

\* Where a Reconcile at a given part of its work is.
LEMMA AtStage ==
    ASSUME NEW p \in Parts, at \in 0..11
    PROVE  /\ At("pv", p) => at \in {1, 3}
           /\ At("pvc", p) => at = (IF p = "gbase8s" THEN 2 ELSE 4)
           /\ At("get", p) => at \in {5, 6}
           /\ At("svc", p) => at \in {7, 8}
           /\ At("sfs", p) => at \in {9, 10}
           /\ At("add", "gbase8s") => at = 11
<1>1. at = 0 \/ at = 1 \/ at = 2 \/ at = 3 \/ at = 4 \/ at = 5 \/ at = 6
      \/ at = 7 \/ at = 8 \/ at = 9 \/ at = 10 \/ at = 11
  BY SMT
<1>2. p = "gbase8s" \/ p = "cm"
  BY ConstantFacts
<1> QED
  BY <1>1, <1>2, StageFacts DEF At

\* The next stage comes later, and no part of the work is left out: the volumes
\* of a part come before its claims, and all of them before the rest.
LEMMA NextStageIs ==
    ASSUME NEW n \in 0..11, GoOn(n)
    PROVE  /\ at' \in 1..11 /\ at' > n
           /\ n = 0 => at' = 1
           /\ n = 1 => at' = 2
           /\ n = 2 /\ "cm" \in Parts => at' = 3
           /\ n = 3 /\ "cm" \in Parts => at' = 4
<1>1. PICK m \in Later(n) : at' = m /\ \A l \in Later(n) : m <= l
  BY DEF GoOn
<1>2. m \in (n + 1)..11
  BY <1>1, StageFacts DEF Later
<1>3. /\ n = 0 => 1 \in Later(n)
      /\ n = 1 => 2 \in Later(n)
      /\ n = 2 /\ "cm" \in Parts => 3 \in Later(n)
      /\ n = 3 /\ "cm" \in Parts => 4 \in Later(n)
  BY ConstantFacts, StageFacts DEF Later
<1> QED
  BY <1>1, <1>2, <1>3

----------------------------------------------------------------------------
(* Type correctness                                                        *)

LEMMA ClaimFacts ==
    /\ \A c \in Claims : /\ c[1] \in Parts /\ c[2] \in Nat
                         /\ c[2] < Nodes[c[1]] /\ c = <<c[1], c[2]>>
    /\ \A p \in Parts, n \in Nat : n < Nodes[p] => <<p, n>> \in Claims
<1>1. \A p \in Parts : Nodes[p] \in Nat
  BY ConstantFacts
<1> QED
  BY <1>1 DEF Claims

\* What changes of a single object do to the objects.
LEMMA ObjectUpdates ==
    ASSUME NEW a \in Objects
    PROVE  /\ \A r \in Resources \cup {None} : [a EXCEPT !.resource = r] \in Objects
           /\ \A c \in Claims, u \in 1..MaxGen :
                [a EXCEPT !.pv[c] = u] \in Objects
           /\ \A c \in Claims, u \in 0..MaxGen \cup {None} :
                [a EXCEPT !.pvc[c] = u] \in Objects
           /\ \A p \in Parts, u \in 1..MaxGen \cup {None} :
                [a EXCEPT !.svc[p] = u] \in Objects
           /\ \A p \in Parts, s \in StatefulSets \cup {None} :
                [a EXCEPT !.sfs[p] = s] \in Objects
BY ConstantFacts DEF Objects

LEMMA ObjectTypes ==
    ASSUME NEW a \in Objects
    PROVE  /\ a.resource \in Resources \cup {None}
           /\ a.pv \in [Claims -> 1..MaxGen \cup {None}]
           /\ a.pvc \in [Claims -> 0..MaxGen \cup {None}]
           /\ a.svc \in [Parts -> 1..MaxGen \cup {None}]
           /\ a.sfs \in [Parts -> StatefulSets \cup {None}]
BY DEF Objects

LEMMA InitTyped == Init => TypeOK
<1>1. Empty \in Objects
  BY DEF Empty, Objects
<1>2. Init => queued \in BOOLEAN /\ missed \in BOOLEAN /\ up \in BOOLEAN
  BY DEF Init
<1>3. Init => /\ api \in Objects /\ cache \in Objects
              /\ gen \in 0..MaxGen /\ faults \in 0..MaxFaults
              /\ at \in 0..Len(Stages) /\ node \in Nat /\ at = 0
              /\ read = None /\ managed = None /\ seen \in [Parts -> Nat]
  <2> SUFFICES ASSUME Init PROVE
              /\ api \in Objects /\ cache \in Objects
              /\ gen \in 0..MaxGen /\ faults \in 0..MaxFaults
              /\ at \in 0..Len(Stages) /\ node \in Nat /\ at = 0
              /\ read = None /\ managed = None /\ seen \in [Parts -> Nat]
    OBVIOUS
  <2>1. /\ api = Empty /\ cache = Empty /\ gen = 0 /\ faults = 0 /\ at = 0
        /\ node = 0 /\ read = None /\ managed = None
        /\ seen = [p \in Parts |-> 0]
    BY DEF Init
  <2> QED
    BY ONLY <2>1, <1>1, ConstantFacts, StageCount
<1> QED
  BY <1>2, <1>3 DEF TypeOK

LEMMA MadeTyped ==
    ASSUME TypeOK, at # 0, NEW p \in Parts
    PROVE  /\ read \in Resources /\ read.uid \in 1..MaxGen
           /\ Made(p) \in StatefulSets
<1>1. read \in Resources /\ read.uid \in 1..MaxGen /\ read.want \in Wanted
  BY DEF TypeOK, Resources
<1>2. read.want[p] \in Nat
  BY <1>1, ConstantFacts
<1> QED
  BY <1>1, <1>2 DEF Made, StatefulSets

\* Types after the ways on.
LEMMA WaysTyped ==
    ASSUME TypeOK
    PROVE  /\ at # 0 /\ (NextStage \/ NextNode) =>
                /\ at' \in 0..Len(Stages) /\ node' \in Nat /\ queued' \in BOOLEAN
                /\ read' = read /\ read # None
           /\ Fail \/ Return =>
                /\ at' = 0 /\ at' \in 0..Len(Stages) /\ node' \in Nat
                /\ read' = None /\ seen' \in [Parts -> Nat]
                /\ queued' \in BOOLEAN
<1>1. at \in 0..11
  BY StageCount DEF TypeOK
<1>2. queued \in BOOLEAN /\ (at # 0 => read # None)
  BY DEF TypeOK
<1>3. ASSUME at # 0, NextStage
      PROVE  /\ at' \in 0..Len(Stages) /\ node' \in Nat /\ queued' = queued
             /\ read' = read
  <2>1. GoOn(at) /\ node' = 0 /\ queued' = queued /\ read' = read
    BY <1>3 DEF NextStage
  <2>2. at' \in 1..11
    BY ONLY <2>1, <1>1, NextStageIs
  <2> QED
    BY <2>1, <2>2, StageCount
<1>4. ASSUME at # 0, NextNode
      PROVE  /\ at' \in 0..Len(Stages) /\ node' \in Nat /\ queued' = queued
             /\ read' = read
  <2>1. node' = node + 1 /\ queued' = queued /\ at' = at /\ read' = read
    BY <1>4 DEF NextNode
  <2> QED
    BY <2>1 DEF TypeOK
<1>5. ASSUME Fail \/ Return
      PROVE  at' = 0 /\ node' = 0 /\ read' = None
             /\ seen' = [p \in Parts |-> 0]
  BY <1>5 DEF Fail, Return, NotRunning
<1>6. Fail \/ Return => queued' \in BOOLEAN
  BY <1>2 DEF Fail, Return
<1>7. ASSUME Fail \/ Return
      PROVE  at' \in 0..Len(Stages) /\ node' \in Nat /\ seen' \in [Parts -> Nat]
  BY ONLY <1>5, <1>7, StageCount
<1> QED
  BY <1>2, <1>3, <1>4, <1>5, <1>6, <1>7

LEMMA StepTyped == TypeOK /\ [Next]_vars => TypeOK'
<1> SUFFICES ASSUME TypeOK, [Next]_vars PROVE TypeOK'
  OBVIOUS
<1> USE ConstantFacts, StageCount
<1>1. /\ api \in Objects /\ cache \in Objects /\ at \in 0..11
      /\ gen \in 0..MaxGen /\ faults \in 0..MaxFaults
  BY StageCount DEF TypeOK
<1>2. CASE Gone
  BY <1>2 DEF Gone, TypeOK, run
<1>3. CASE Begin
  <2>1. GoOn(0)
    BY <1>3 DEF Begin
  <2>2. at' \in 1..11
    BY ONLY <2>1, NextStageIs
  <2>3. cache.resource \in Resources
    BY <1>1, <1>3, ObjectTypes DEF Begin
  <2>4. queued' \in BOOLEAN
    BY <1>3 DEF Begin
  <2>5. /\ read' \in Resources /\ read' # None
        /\ UNCHANGED <<api, cache, gen, node, seen, managed, missed, up, faults>>
    BY <1>3, <2>3 DEF Begin
  <2> QED
    BY <2>2, <2>4, <2>5 DEF TypeOK
<1>4. ASSUME NEW p \in Parts,
             \/ Ensure("pv", p) \/ VolumesDone("pv", p)
             \/ Ensure("pvc", p) \/ VolumesDone("pvc", p)
      PROVE  TypeOK'
  <2>1. at # 0
    BY <1>4 DEF Ensure, VolumesDone, At
  <2>2. read.uid \in 1..MaxGen
    BY <2>1, MadeTyped
  <2>3. CASE Ensure("pv", p)
    <3>1. <<p, node>> \in Claims
      BY <2>3, ClaimFacts DEF Ensure, TypeOK
    <3>2. \/ api' = api
          \/ api' = [api EXCEPT !.pv[<<p, node>>] = read.uid]
      BY <2>3 DEF Ensure
    <3>3. api' \in Objects
      BY <1>1, <2>2, <3>1, <3>2, ObjectUpdates
    <3> QED
      BY <2>1, <2>3, <3>3, WaysTyped DEF Ensure, TypeOK
  <2>4. CASE Ensure("pvc", p)
    <3>1. <<p, node>> \in Claims
      BY <2>4, ClaimFacts DEF Ensure, TypeOK
    <3>2. \/ api' = api
          \/ api' = [api EXCEPT !.pvc[<<p, node>>] = read.uid]
      BY <2>4 DEF Ensure
    <3>3. api' \in Objects
      BY <1>1, <2>2, <3>1, <3>2, ObjectUpdates
    <3> QED
      BY <2>1, <2>4, <3>3, WaysTyped DEF Ensure, TypeOK
  <2>5. CASE VolumesDone("pv", p) \/ VolumesDone("pvc", p)
    BY <2>1, <2>5, WaysTyped DEF VolumesDone, TypeOK
  <2> QED
    BY <1>4, <2>3, <2>4, <2>5
<1>5. ASSUME NEW p \in Parts, GetStatefulSet(p)
      PROVE  TypeOK'
  <2>1. at # 0
    BY <1>5 DEF GetStatefulSet, At
  <2>2. cache.sfs[p] # None => cache.sfs[p].replicas \in Nat
    BY <1>1, ObjectTypes DEF StatefulSets
  <2>3. seen' \in [Parts -> Nat]
    BY <1>5, <2>2 DEF GetStatefulSet, TypeOK
  <2> QED
    BY <1>5, <2>1, <2>3, WaysTyped DEF GetStatefulSet, TypeOK
<1>6. ASSUME NEW p \in Parts, EnsureService(p)
      PROVE  TypeOK'
  <2>1. at # 0
    BY <1>6 DEF EnsureService, At
  <2>2. read.uid \in 1..MaxGen
    BY <2>1, MadeTyped
  <2>3. api' \in Objects
    BY <1>1, <1>6, <2>2, ObjectUpdates DEF EnsureService
  <2> QED
    BY <1>6, <2>1, <2>3, WaysTyped DEF EnsureService, TypeOK
<1>7. ASSUME NEW p \in Parts,
             \/ CreateStatefulSet(p) \/ UpdateStatefulSet(p)
             \/ KeepStatefulSet(p)
      PROVE  TypeOK'
  <2>1. at # 0
    BY <1>7 DEF CreateStatefulSet, UpdateStatefulSet, KeepStatefulSet, At
  <2>2. Made(p) \in StatefulSets
    BY <2>1, MadeTyped
  <2>3. api' \in Objects
    BY <1>1, <1>7, <2>2, ObjectUpdates
       DEF CreateStatefulSet, UpdateStatefulSet, KeepStatefulSet
  <2> QED
    BY <1>7, <2>1, <2>3, WaysTyped
       DEF CreateStatefulSet, UpdateStatefulSet, KeepStatefulSet, TypeOK
<1>8. CASE AddCluster \/ NoHostTemplate \/ RequestFails
  <2>1. /\ Fail \/ Return
        /\ UNCHANGED <<api, cache, gen>>
        /\ managed' = managed \/ managed' = read
        /\ up' = up /\ missed' \in {missed, FALSE, TRUE}
        /\ faults' = faults \/ (faults < MaxFaults /\ faults' = faults + 1)
    BY <1>8 DEF AddCluster, NoHostTemplate, RequestFails
  <2>2. faults' \in 0..MaxFaults
    BY <1>1, <2>1
  <2> QED
    BY <2>1, <2>2, WaysTyped DEF TypeOK
<1>9. ASSUME NEW type \in Types, Sync(type)
      PROVE  TypeOK'
  <2>1. cache' \in Objects
    BY <1>1, <1>9 DEF Sync, Types, Objects
  <2>2. queued' \in BOOLEAN
    BY <1>9 DEF Sync, TypeOK
  <2> QED
    BY <1>9, <2>1, <2>2 DEF Sync, TypeOK, run
<1>10. CASE Resync
  BY <1>10 DEF Resync, TypeOK, run
<1>11. CASE Create \/ Change \/ Delete
  <2>1. gen < MaxGen => gen + 1 \in 0..MaxGen
    BY <1>1
  <2>2. CASE Create
    <3>1. PICK w \in Wanted :
            api' = [api EXCEPT !.resource =
                      [uid |-> gen + 1, gen |-> gen + 1, want |-> w]]
      BY <2>2 DEF Create
    <3>2. gen + 1 \in 1..MaxGen
      BY <1>1, <2>2 DEF Create
    <3>3. [uid |-> gen + 1, gen |-> gen + 1, want |-> w] \in Resources
      BY <3>2 DEF Resources
    <3> QED
      BY <1>1, <2>1, <2>2, <3>1, <3>3, ObjectUpdates DEF Create, TypeOK, run
  <2>3. CASE Change
    <3>1. PICK w \in Wanted :
            api' = [api EXCEPT !.resource.gen = gen + 1, !.resource.want = w]
      BY <2>3 DEF Change
    <3>2. gen + 1 \in 1..MaxGen
      BY <1>1, <2>3 DEF Change
    <3>3. api.resource \in Resources
      BY <1>1, <2>3, ObjectTypes DEF Change
    <3>4. api' \in Objects
      BY <1>1, <3>1, <3>2, <3>3 DEF Objects, Resources
    <3> QED
      BY <2>1, <2>3, <3>4 DEF Change, TypeOK, run
  <2>4. CASE Delete
    BY <1>1, <2>4, ObjectUpdates DEF Delete, TypeOK, run
  <2> QED
    BY <1>11, <2>2, <2>3, <2>4
<1>12. CASE Collect
  <2>1. \/ \E c \in Claims : api' = [api EXCEPT !.pvc[c] = None]
        \/ \E p \in Parts : \/ api' = [api EXCEPT !.svc[p] = None]
                             \/ api' = [api EXCEPT !.sfs[p] = None]
    BY <1>12 DEF Collect, CollectClaim, CollectService, CollectStatefulSet
  <2>2. api' \in Objects
    <3>1. /\ None \in 0..MaxGen \cup {None} /\ None \in 1..MaxGen \cup {None}
          /\ None \in StatefulSets \cup {None}
      OBVIOUS
    <3>2. CASE \E c \in Claims : api' = [api EXCEPT !.pvc[c] = None]
      BY ONLY <1>1, <3>1, <3>2, ObjectUpdates
    <3>3. CASE \E p \in Parts : api' = [api EXCEPT !.svc[p] = None]
      BY ONLY <1>1, <3>1, <3>3, ObjectUpdates
    <3>4. CASE \E p \in Parts : api' = [api EXCEPT !.sfs[p] = None]
      BY ONLY <1>1, <3>1, <3>4, ObjectUpdates
    <3> QED
      BY <2>1, <3>2, <3>3, <3>4
  <2> QED
    BY <1>12, <2>2 DEF Collect, CollectClaim, CollectService,
       CollectStatefulSet, TypeOK, run
<1>13. ASSUME NEW c \in Claims, ClaimFromTemplate(c)
       PROVE  TypeOK'
  <2>1. api' = [api EXCEPT !.pvc[c] = 0] /\ 0 \in 0..MaxGen \cup {None}
    BY <1>13 DEF ClaimFromTemplate
  <2>2. api' \in Objects
    BY <1>1, <2>1, ObjectUpdates
  <2> QED
    BY <1>13, <2>2 DEF ClaimFromTemplate, TypeOK, run
<1>14. CASE OperatorRestart
  <2>1. queued' \in BOOLEAN
    BY <1>14 DEF OperatorRestart
  <2>2. /\ cache' = api /\ at' = 0 /\ node' = 0 /\ read' = None
        /\ seen' = [p \in Parts |-> 0] /\ managed' = None
        /\ faults' = faults + 1 /\ faults < MaxFaults
        /\ missed' = FALSE /\ UNCHANGED <<api, gen, up>>
    BY <1>14 DEF OperatorRestart, NotRunning
  <2>3. faults' \in 0..MaxFaults /\ at' \in 0..Len(Stages)
    BY <1>1, <2>2
  <2> QED
    BY <2>1, <2>2, <2>3 DEF TypeOK
<1>15. CASE ContainerStarts \/ ContainerStops
  <2>1. up' \in BOOLEAN
    BY <1>15 DEF ContainerStarts, ContainerStops
  <2> QED
    BY <1>15, <2>1 DEF ContainerStarts, ContainerStops, TypeOK, run
<1>16. CASE UNCHANGED vars
  BY <1>16 DEF vars, run, TypeOK
<1> QED
  BY <1>2, <1>3, <1>4, <1>5, <1>6, <1>7, <1>8, <1>9, <1>10, <1>11, <1>12,
     <1>13, <1>14, <1>15, <1>16 DEF Next, Reconcile

\* The objects, the caches and the state of Reconcile have their types; a
\* Reconcile that is under way has read a resource (src: Reconcile, IsNotFound).
THEOREM TypeCorrect == Spec => []TypeOK
BY InitTyped, StepTyped, PTL DEF Spec

----------------------------------------------------------------------------
(* The claims of the first life of the resource.                           *)

First == api.resource # None /\ api.resource.uid = 1

\* Nothing has happened before the resource is created.
Start == gen = 0 => api = Empty /\ cache = Empty /\ at = 0

Uids == api.resource # None => api.resource.uid \in 1..gen

\* Every claim of part p is there.
Has(p) == \A c \in Claims : c[1] = p => api.pvc[c] # None

\* Only this resource has ever been read.
ReadFirst == /\ cache.resource # None => cache.resource.uid = 1
             /\ at # 0 => read.uid = 1

\* Claims are owned by the resource, so they stay.
ClaimsOwned == \A c \in Claims : /\ api.pvc[c] \in {1, None}
                                 /\ cache.pvc[c] # None => api.pvc[c] # None

\* Reconcile makes the claims of a part in their order, and no StatefulSet
\* before.
ClaimsFirst ==
    /\ at > 2 => Has("gbase8s")
    /\ at > 4 => Has("cm")
    /\ \A p \in Parts :
         /\ At("pvc", p) =>
              \A c \in Claims : c[1] = p /\ c[2] < node => api.pvc[c] # None
         /\ api.sfs[p] # None => Has(p)

FirstLife == First => ReadFirst /\ ClaimsOwned /\ ClaimsFirst

ClaimsInv == TypeOK /\ Start /\ Uids /\ FirstLife

\* Nothing happens before the resource is created but a restart.
LEMMA StartStep == TypeOK /\ Start /\ [Next]_vars => Start'
<1> SUFFICES ASSUME TypeOK, Start, [Next]_vars, gen' = 0
             PROVE  api' = Empty /\ cache' = Empty /\ at' = 0
  BY DEF Start
<1>1. gen \in Nat
  BY ConstantFacts DEF TypeOK
<1>2. gen = 0
  <2>1. gen' = gen \/ gen' = gen + 1
    BY Zenon DEF Next, Reconcile, Gone, Begin, Ensure, VolumesDone,
       GetStatefulSet, EnsureService, CreateStatefulSet, UpdateStatefulSet,
       KeepStatefulSet, AddCluster, NoHostTemplate, RequestFails, Sync, Resync,
       Create, Change, Delete, Collect, CollectClaim, CollectService,
       CollectStatefulSet, ClaimFromTemplate, ContainerStarts,
       ContainerStops, OperatorRestart, vars
  <2> QED
    BY ONLY <1>1, <2>1, gen' = 0
<1>3. api = Empty /\ cache = Empty /\ at = 0
  BY <1>2 DEF Start
<1>4. /\ Empty.resource = None
      /\ \A c \in Claims : Empty.pvc[c] = None
      /\ \A p \in Parts : Empty.svc[p] = None /\ Empty.sfs[p] = None
  BY DEF Empty
<1>5. \A p : ~ At("pv", p) /\ ~ At("pvc", p) /\ ~ At("get", p) /\ ~ At("svc", p)
             /\ ~ At("sfs", p) /\ ~ At("add", p)
  BY <1>3 DEF At
<1>6. ~ Begin /\ ~ Resync /\ ~ Delete /\ ~ Change /\ ~ AddCluster
      /\ ~ NoHostTemplate /\ ~ RequestFails
  BY <1>3, <1>4, <1>5 DEF Begin, Resync, Delete, Change, AddCluster,
     NoHostTemplate, RequestFails
<1>7. ~ Create
  BY <1>2, <1>1 DEF Create
<1>8. ~ Collect /\ \A c \in Claims : ~ ClaimFromTemplate(c)
  <2>1. \A c \in Claims : c[1] \in Parts
    BY ClaimFacts
  <2> QED
    BY <1>3, <1>4, <2>1 DEF Collect, CollectClaim, CollectService,
       CollectStatefulSet, ClaimFromTemplate
<1>9. \A type \in Types : ~ Sync(type)
  BY <1>3 DEF Sync
<1>10. \A p \in Parts :
         /\ ~ Ensure("pv", p) /\ ~ Ensure("pvc", p)
         /\ ~ VolumesDone("pv", p) /\ ~ VolumesDone("pvc", p)
         /\ ~ GetStatefulSet(p) /\ ~ EnsureService(p) /\ ~ CreateStatefulSet(p)
         /\ ~ UpdateStatefulSet(p) /\ ~ KeepStatefulSet(p)
  BY <1>5 DEF Ensure, VolumesDone, GetStatefulSet, EnsureService,
     CreateStatefulSet, UpdateStatefulSet, KeepStatefulSet
<1>11. Gone \/ OperatorRestart \/ ContainerStarts \/ ContainerStops
       \/ UNCHANGED vars
  BY <1>6, <1>7, <1>8, <1>9, <1>10 DEF Next, Reconcile
<1> QED
  BY <1>3, <1>11 DEF Gone, OperatorRestart, ContainerStarts, ContainerStops,
     NotRunning, vars, run

\* No step but a creation changes the resource's identity, and a creation makes
\* a new one.
LEMMA UidsStep == TypeOK /\ Uids /\ [Next]_vars =>
                    Uids' /\ (First' => First \/ (Create /\ gen = 0))
<1> SUFFICES ASSUME TypeOK, Uids, [Next]_vars
             PROVE  Uids' /\ (First' => First \/ (Create /\ gen = 0))
  OBVIOUS
<1>1. api \in Objects /\ gen \in Nat
  BY ConstantFacts DEF TypeOK
<1>2. CASE Create
  <2>1. /\ api'.resource # None => api'.resource.uid = gen + 1
        /\ gen' = gen + 1
    BY <1>1, <1>2 DEF Create, Objects
  <2> QED
    BY <1>1, <1>2, <2>1 DEF Uids, First
<1>3. CASE Change
  <2>1. api.resource \in Resources
    BY <1>1, <1>3, ObjectTypes DEF Change
  <2>2. api'.resource.uid = api.resource.uid /\ gen' = gen + 1
    BY <1>1, <1>3, <2>1 DEF Change, Objects, Resources
  <2> QED
    BY <1>1, <1>3, <2>2 DEF Uids, First, Change
<1>4. CASE Delete
  BY <1>1, <1>4 DEF Delete, Objects, Uids, First
<1>5. CASE ~ (Create \/ Change \/ Delete)
  <2>1. api'.resource = api.resource /\ gen' = gen
    BY <1>1, <1>5 DEF Next, Reconcile, Gone, Begin, Ensure, VolumesDone,
       GetStatefulSet, EnsureService, CreateStatefulSet, UpdateStatefulSet,
       KeepStatefulSet, AddCluster, NoHostTemplate, RequestFails, Sync, Resync,
       Collect, CollectClaim, CollectService, CollectStatefulSet,
       ClaimFromTemplate, ContainerStarts,
       ContainerStops, OperatorRestart, vars, Objects
  <2> QED
    BY <2>1 DEF Uids, First
<1> QED
  BY <1>2, <1>3, <1>4, <1>5

\* A step that leaves the objects alone, and Reconcile where it is or ends it.
LEMMA QuietStep ==
    ASSUME FirstLife, First, api' = api,
           cache' = cache \/ \E type \in Types : Sync(type),
           UNCHANGED <<at, node, read>> \/ at' = 0,
           TypeOK
    PROVE  ReadFirst' /\ ClaimsOwned' /\ ClaimsFirst'
<1>1. ReadFirst /\ ClaimsOwned /\ ClaimsFirst
  BY DEF FirstLife
<1>2. /\ cache'.resource = cache.resource \/ cache'.resource = api.resource
      /\ cache'.pvc = cache.pvc \/ cache'.pvc = api.pvc
  BY DEF Sync, Types, TypeOK, Objects
<1>3. ReadFirst'
  BY <1>1, <1>2 DEF ReadFirst, First
<1>4. ClaimsOwned'
  BY <1>1, <1>2 DEF ClaimsOwned
<1>5. ClaimsFirst'
  <2>1. CASE at' = 0
    BY <1>1, <2>1 DEF ClaimsFirst, Has, At
  <2>2. CASE UNCHANGED <<at, node, read>>
    BY <1>1, <2>2 DEF ClaimsFirst, Has, At
  <2> QED
    BY <2>1, <2>2
<1> QED
  BY <1>3, <1>4, <1>5

\* A step from one stage to the next one that leaves the claims alone.
LEMMA StageStep ==
    ASSUME FirstLife, First, TypeOK, at # 0, NextStage,
           api'.pvc = api.pvc, cache' = cache,
           \A p \in Parts : api'.sfs[p] # None => Has(p),
           at = 2 => Has("gbase8s"), at = 4 => Has("cm")
    PROVE  ReadFirst' /\ ClaimsOwned' /\ ClaimsFirst'
<1>1. ReadFirst /\ ClaimsOwned /\ ClaimsFirst
  BY DEF FirstLife
<1>2. at \in 0..11 /\ node' = 0 /\ read' = read /\ GoOn(at)
  BY StageCount DEF TypeOK, NextStage
<1>3. /\ at' \in 1..11 /\ at' > at
      /\ at = 1 => at' = 2
      /\ at = 2 /\ "cm" \in Parts => at' = 3
      /\ at = 3 /\ "cm" \in Parts => at' = 4
  BY ONLY <1>2, NextStageIs
<1>4. Has("gbase8s")' = Has("gbase8s") /\ Has("cm")' = Has("cm")
      /\ \A p \in Parts : Has(p)' = Has(p)
  BY DEF Has
<1>5. ReadFirst' /\ ClaimsOwned'
  BY <1>1, <1>2 DEF ReadFirst, ClaimsOwned
<1>6. at' > 2 => Has("gbase8s")
  BY <1>1, <1>2, <1>3 DEF ClaimsFirst
<1>7. at' > 4 => Has("cm")
  <2>1. CASE "cm" \in Parts
    BY <1>1, <1>2, <1>3, <2>1 DEF ClaimsFirst
  <2>2. CASE "cm" \notin Parts
    BY <2>2, ClaimFacts DEF Has
  <2> QED
    BY <2>1, <2>2
<1>8. \A c \in Claims : ~ (c[2] < node')
  BY <1>2, ClaimFacts
<1>9. ClaimsFirst'
  BY <1>4, <1>6, <1>7, <1>8 DEF ClaimsFirst
<1> QED
  BY <1>5, <1>9

\* A claim is made, or found to be there.
LEMMA EnsureClaimStep ==
    ASSUME FirstLife, First, TypeOK, NEW p \in Parts, Ensure("pvc", p)
    PROVE  ReadFirst' /\ ClaimsOwned' /\ ClaimsFirst'
<1> DEFINE c == <<p, node>>
<1>1. ReadFirst /\ ClaimsOwned /\ ClaimsFirst
  BY DEF FirstLife
<1>2. c \in Claims /\ At("pvc", p) /\ at # 0 /\ node \in Nat /\ cache' = cache
  BY ClaimFacts DEF Ensure, TypeOK, At
<1>3. CASE Fail /\ UNCHANGED api
  BY <1>2, <1>3, QuietStep DEF Fail, NotRunning
<1>4. CASE NextNode /\ \/ cache.pvc[c] # None /\ UNCHANGED api
                       \/ api' = [api EXCEPT !.pvc[c] = read.uid]
  <2>1. read.uid = 1 /\ None # 1
    BY <1>1, <1>2, ConstantFacts DEF ReadFirst
  <2>2. /\ api'.pvc[c] # None /\ api'.pvc[c] \in {1, None}
        /\ \A d \in Claims : d # c => api'.pvc[d] = api.pvc[d]
        /\ api'.sfs = api.sfs
    BY <1>1, <1>2, <1>4, <2>1 DEF ClaimsOwned, TypeOK, Objects
  <2>3. \A d \in Claims : api.pvc[d] # None => api'.pvc[d] # None
    BY <2>2
  <2>4. /\ node' = node + 1 /\ at' = at /\ read' = read
    BY <1>4 DEF NextNode
  <2>5. ReadFirst' /\ ClaimsOwned'
    BY <1>1, <1>2, <2>2, <2>3, <2>4 DEF ReadFirst, ClaimsOwned
  <2>6. \A q : Has(q) => Has(q)'
    BY <2>3 DEF Has
  <2>7. \A q \in Parts : At("pvc", q)' => q = p
    BY <1>2, <2>4 DEF At
  <2>8. \A d \in Claims : d[1] = p /\ d[2] < node' => api'.pvc[d] # None
    <3> SUFFICES ASSUME NEW d \in Claims, d[1] = p, d[2] < node'
                 PROVE  api'.pvc[d] # None
      OBVIOUS
    <3>1. d[2] \in Nat /\ d = <<d[1], d[2]>>
      BY ClaimFacts
    <3>2. d[2] < node \/ d[2] = node
      BY <1>2, <2>4, <3>1
    <3>3. CASE d[2] = node
      BY <2>2, <3>1, <3>3
    <3>4. CASE d[2] < node
      BY <1>1, <1>2, <2>3, <3>4 DEF ClaimsFirst
    <3> QED
      BY <3>2, <3>3, <3>4
  <2>9. ClaimsFirst'
    <3>1. (at' > 2 => Has("gbase8s")') /\ (at' > 4 => Has("cm")')
      BY <1>1, <2>4, <2>6 DEF ClaimsFirst
    <3>2. \A q \in Parts : api'.sfs[q] # None => Has(q)'
      BY <1>1, <2>2, <2>6 DEF ClaimsFirst
    <3>3. \A q \in Parts : At("pvc", q)' =>
            \A d \in Claims : d[1] = q /\ d[2] < node' => api'.pvc[d] # None
      BY ONLY <2>7, <2>8
    <3> QED
      BY ONLY <3>1, <3>2, <3>3 DEF ClaimsFirst
  <2> QED
    BY <2>5, <2>9
<1> QED
  BY <1>3, <1>4 DEF Ensure

LEMMA ClaimsStep ==
    ASSUME ClaimsInv, [Next]_vars, First, First'
    PROVE  ReadFirst' /\ ClaimsOwned' /\ ClaimsFirst'
<1>1. /\ TypeOK /\ FirstLife /\ ReadFirst /\ ClaimsOwned /\ ClaimsFirst
      /\ api \in Objects /\ at \in 0..11 /\ node \in Nat
  BY StageCount DEF ClaimsInv, FirstLife, TypeOK
<1>2. CASE \/ Gone \/ Resync \/ (\E type \in Types : Sync(type))
           \/ ContainerStarts \/ ContainerStops \/ UNCHANGED vars
  <2>1. /\ api' = api /\ UNCHANGED <<at, node, read>>
        /\ cache' = cache \/ \E type \in Types : Sync(type)
    BY <1>2 DEF Gone, Resync, Sync, ContainerStarts, ContainerStops, vars, run
  <2> QED
    BY <1>1, <2>1, QuietStep
<1>3. CASE Begin
  <2>1. GoOn(0) /\ read' = cache.resource /\ cache.resource # None
        /\ api' = api /\ cache' = cache
    BY <1>3 DEF Begin
  <2>2. at' = 1
    BY ONLY <2>1, NextStageIs
  <2>3. \A p \in Parts : ~ At("pvc", p)'
    BY <2>2, StageFacts DEF At
  <2> QED
    BY <1>1, <2>1, <2>2, <2>3 DEF ReadFirst, ClaimsOwned, ClaimsFirst, Has
<1>4. ASSUME NEW p \in Parts, Ensure("pv", p)
      PROVE  ReadFirst' /\ ClaimsOwned' /\ ClaimsFirst'
  <2>1. /\ api'.pvc = api.pvc /\ api'.sfs = api.sfs /\ cache' = cache
    BY <1>1, <1>4 DEF Ensure, Objects
  <2>2. \/ at' = 0
        \/ at' = at /\ read' = read
    BY <1>4 DEF Ensure, Fail, NotRunning, NextNode
  <2>3. at = 1 \/ at = 3
    BY ONLY <1>1, <1>4, AtStage DEF Ensure
  <2>4. \A q \in Parts : ~ At("pvc", q)'
    BY <2>2, <2>3, StageFacts DEF At
  <2>5. \A q : Has(q)' = Has(q)
    BY <2>1 DEF Has
  <2>6. ReadFirst' /\ ClaimsOwned'
    BY <1>1, <2>1, <2>2 DEF ReadFirst, ClaimsOwned
  <2>7. ClaimsFirst'
    BY <1>1, <2>1, <2>2, <2>4, <2>5 DEF ClaimsFirst
  <2> QED
    BY <2>6, <2>7
<1>5. ASSUME NEW p \in Parts, Ensure("pvc", p)
      PROVE  ReadFirst' /\ ClaimsOwned' /\ ClaimsFirst'
  BY <1>1, <1>5, EnsureClaimStep
<1>6. ASSUME NEW p \in Parts,
             \/ VolumesDone("pv", p) \/ VolumesDone("pvc", p)
             \/ GetStatefulSet(p) \/ KeepStatefulSet(p)
      PROVE  ReadFirst' /\ ClaimsOwned' /\ ClaimsFirst'
  <2>1. /\ api' = api /\ cache' = cache /\ NextStage /\ at # 0
    BY <1>6 DEF VolumesDone, GetStatefulSet, KeepStatefulSet, At
  <2>2. at \in {2, 4} => VolumesDone("pvc", p)
    BY ONLY <1>1, <1>6, AtStage DEF VolumesDone, GetStatefulSet, KeepStatefulSet
  <2>3. VolumesDone("pvc", p) => Has(p)
    <3>1. VolumesDone("pvc", p) => At("pvc", p) /\ node = Nodes[p]
      BY DEF VolumesDone
    <3> QED
      BY <1>1, <3>1, ClaimFacts DEF ClaimsFirst, Has
  <2>4. VolumesDone("pvc", p) => at = (IF p = "gbase8s" THEN 2 ELSE 4)
    BY ONLY <1>1, AtStage DEF VolumesDone
  <2>5. at = 2 => Has("gbase8s")
    BY <2>2, <2>3, <2>4
  <2>6. at = 4 => Has("cm")
    BY <2>2, <2>3, <2>4, ConstantFacts
  <2>7. \A q \in Parts : api'.sfs[q] # None => Has(q)
    BY <1>1, <2>1 DEF ClaimsFirst
  <2> QED
    BY <1>1, <2>1, <2>5, <2>6, <2>7, StageStep
<1>7. ASSUME NEW p \in Parts, EnsureService(p)
      PROVE  ReadFirst' /\ ClaimsOwned' /\ ClaimsFirst'
  <2>1. /\ api'.pvc = api.pvc /\ api'.sfs = api.sfs /\ cache' = cache /\ at # 0
        /\ \/ NextStage
           \/ api' = api /\ at' = 0
    BY <1>1, <1>7 DEF EnsureService, Fail, NotRunning, Objects, At
  <2>2. at # 2 /\ at # 4
    BY ONLY <1>1, <1>7, AtStage DEF EnsureService
  <2>3. \A q \in Parts : api'.sfs[q] # None => Has(q)
    BY <1>1, <2>1 DEF ClaimsFirst
  <2> QED
    BY <1>1, <2>1, <2>2, <2>3, StageStep, QuietStep
<1>8. ASSUME NEW p \in Parts, CreateStatefulSet(p) \/ UpdateStatefulSet(p)
      PROVE  ReadFirst' /\ ClaimsOwned' /\ ClaimsFirst'
  <2>1. /\ api'.pvc = api.pvc /\ cache' = cache /\ at # 0
        /\ \/ NextStage
           \/ api' = api /\ at' = 0
    BY <1>1, <1>8 DEF CreateStatefulSet, UpdateStatefulSet, Fail, NotRunning,
       Objects, At
  <2>2. at = 9 \/ at = 10
    BY ONLY <1>1, <1>8, AtStage DEF CreateStatefulSet, UpdateStatefulSet
  <2>3. \A q \in Parts : Has(q)
    BY <1>1, <2>2, ConstantFacts DEF ClaimsFirst
  <2> QED
    BY <1>1, <2>1, <2>2, <2>3, StageStep, QuietStep
<1>9. CASE AddCluster \/ NoHostTemplate \/ RequestFails \/ OperatorRestart
  <2>1. api' = api /\ at' = 0 /\ (cache' = cache \/ cache' = api)
    BY <1>9 DEF AddCluster, NoHostTemplate, RequestFails, OperatorRestart, Fail,
       Return, NotRunning
  <2>2. CASE cache' = cache
    BY <1>1, <2>1, <2>2, QuietStep
  <2>3. CASE cache' = api
    BY <1>1, <2>1, <2>3 DEF ReadFirst, ClaimsOwned, ClaimsFirst, Has, At, First
  <2> QED
    BY <2>1, <2>2, <2>3
<1>10. CASE Create \/ Change \/ Delete
  <2>1. /\ api'.pvc = api.pvc /\ api'.sfs = api.sfs /\ cache' = cache
        /\ UNCHANGED <<at, node, read>>
    BY <1>1, <1>10 DEF Create, Change, Delete, Objects, run
  <2> QED
    BY <1>1, <2>1 DEF ReadFirst, ClaimsOwned, ClaimsFirst, Has, At
<1>11. CASE Collect
  <2>1. \A c \in Claims : ~ CollectClaim(c)
    BY <1>1 DEF CollectClaim, Orphaned, ClaimsOwned, First
  <2>2. PICK p \in Parts : CollectService(p) \/ CollectStatefulSet(p)
    BY <1>11, <2>1 DEF Collect
  <2>3. /\ api'.pvc = api.pvc /\ cache' = cache /\ UNCHANGED <<at, node, read>>
        /\ \A q \in Parts : api'.sfs[q] # None => api.sfs[q] # None
    BY <1>1, <2>2 DEF CollectService, CollectStatefulSet, Objects, run
  <2>4. \A q : Has(q)' = Has(q)
    BY <2>3 DEF Has
  <2>5. ReadFirst' /\ ClaimsOwned'
    BY <1>1, <2>3 DEF ReadFirst, ClaimsOwned
  <2>6. ClaimsFirst'
    BY <1>1, <2>3, <2>4 DEF ClaimsFirst, At
  <2> QED
    BY <2>5, <2>6
<1>12. \A c \in Claims : ~ ClaimFromTemplate(c)
  BY <1>1, ClaimFacts DEF ClaimFromTemplate, ClaimsFirst, Has
<1> QED
  BY <1>2, <1>3, <1>4, <1>5, <1>6, <1>7, <1>8, <1>9, <1>10, <1>11, <1>12
     DEF Next, Reconcile

LEMMA InitClaims == Init => ClaimsInv
<1>1. Init => Start /\ Uids /\ ~ First
  BY DEF Init, Start, Uids, First, Empty
<1> QED
  BY <1>1, InitTyped DEF ClaimsInv, FirstLife

LEMMA ClaimsInvStep == ClaimsInv /\ [Next]_vars => ClaimsInv'
<1> SUFFICES ASSUME ClaimsInv, [Next]_vars PROVE ClaimsInv'
  OBVIOUS
<1>1. TypeOK' /\ Start' /\ Uids' /\ (First' => First \/ (Create /\ gen = 0))
  BY StepTyped, StartStep, UidsStep DEF ClaimsInv
<1>2. ASSUME First', First
      PROVE  ReadFirst' /\ ClaimsOwned' /\ ClaimsFirst'
  BY <1>2, ClaimsStep
<1>3. ASSUME Create, gen = 0
      PROVE  ReadFirst' /\ ClaimsOwned' /\ ClaimsFirst'
  <2>1. /\ api = Empty /\ cache = Empty /\ at = 0 /\ api \in Objects
    BY <1>3 DEF ClaimsInv, Start, TypeOK
  <2>2. /\ api'.pvc = Empty.pvc /\ api'.sfs = Empty.sfs /\ cache' = Empty
        /\ at' = 0
    BY <1>3, <2>1 DEF Create, Objects, run
  <2>3. /\ Empty.resource = None
        /\ \A c \in Claims : Empty.pvc[c] = None
        /\ \A p \in Parts : Empty.sfs[p] = None
    BY DEF Empty
  <2> QED
    BY <2>2, <2>3 DEF ReadFirst, ClaimsOwned, ClaimsFirst, At
<1> QED
  BY <1>1, <1>2, <1>3 DEF ClaimsInv, FirstLife

\* No claim of a listed node is made from the template, without a selector,
\* while the first resource lives: Reconcile makes the claims of a part before
\* its StatefulSet (src: createPVCs before createOrUpdateStatefulset), and
\* they are not collected before their owner.
THEOREM ClaimsSelect == Spec => []ClaimsSelectVolumes
<1>1. ClaimsInv => ClaimsSelectVolumes
  BY ConstantFacts DEF ClaimsInv, FirstLife, First, ClaimsOwned,
     ClaimsSelectVolumes
<1> QED
  BY <1>1, InitClaims, ClaimsInvStep, PTL DEF Spec

----------------------------------------------------------------------------
(* What is left to do when Reconcile rests.                                *)

\* Where the StatefulSet of p is read, and where it is made.
GetAt(p) == IF p = "gbase8s" THEN 5 ELSE 6
SfsAt(p) == IF p = "gbase8s" THEN 9 ELSE 10

\* What Reconcile reads of the StatefulSet of p.
View(p) == IF cache.sfs[p] = None THEN 0 ELSE cache.sfs[p].replicas

\* As far as the caches tell, p has its StatefulSet; one that the cache does not
\* know yet is the resource's own, so that it is not collected unseen.
Served(p) ==
    cache.resource # None /\ api.resource = cache.resource =>
        IF api.sfs[p] = cache.sfs[p]
        THEN /\ api.sfs[p] # None
             /\ api.sfs[p].replicas = cache.resource.want[p]
        ELSE cache.sfs[p] = None => api.sfs[p].uid = cache.resource.uid

\* As long as nothing queues the resource's name, this Reconcile works with what
\* the caches hold now, and what it has done stays done.
SettledInv ==
    ~queued =>
        /\ at # 0 => read = cache.resource
        /\ \A p \in Parts : /\ at > GetAt(p) => seen[p] = View(p)
                            /\ at = 0 \/ at > SfsAt(p) => Served(p)

\* A new content of the resource is none that a cache holds.
GenInv ==
    /\ api.resource # None => api.resource.gen <= gen
    /\ cache.resource # None => cache.resource.gen <= gen

RestInv == TypeOK /\ GenInv /\ SettledInv /\ ManagerSettled

LEMMA InitRest == Init => GenInv /\ SettledInv /\ ManagerSettled
<1> SUFFICES ASSUME Init PROVE GenInv /\ SettledInv /\ ManagerSettled
  OBVIOUS
<1>1. /\ api.resource = None /\ cache.resource = None /\ at = 0
      /\ managed = None
  BY DEF Init, Empty
<1>2. \A p \in Parts : ~(at > GetAt(p))
  BY <1>1 DEF GetAt
<1> QED
  BY <1>1, <1>2 DEF GenInv, SettledInv, ManagerSettled, Served

LEMMA GenStep == TypeOK /\ GenInv /\ [Next]_vars => GenInv'
<1> SUFFICES ASSUME TypeOK, GenInv, [Next]_vars PROVE GenInv'
  OBVIOUS
<1>1. /\ api \in Objects /\ cache \in Objects /\ gen \in Nat
      /\ api.resource \in Resources \cup {None}
      /\ cache.resource \in Resources \cup {None}
      /\ \A r \in Resources : r.gen \in Nat
  BY ConstantFacts, ObjectTypes DEF TypeOK, Resources
<1>2. CASE Create
  <2>1. /\ cache' = cache /\ gen' = gen + 1
        /\ api'.resource # None => api'.resource.gen = gen + 1
    BY <1>1, <1>2 DEF Create, Objects
  <2> QED
    BY <1>1, <2>1 DEF GenInv
<1>3. CASE Change
  <2>1. /\ cache' = cache /\ gen' = gen + 1
        /\ api'.resource.gen = gen + 1
    BY <1>1, <1>3 DEF Change, Objects, Resources
  <2> QED
    BY <1>1, <2>1 DEF GenInv
<1>4. CASE Delete
  BY <1>1, <1>4 DEF Delete, Objects, GenInv
<1>5. CASE ~ (Create \/ Change \/ Delete)
  <2>1. api'.resource = api.resource /\ gen' = gen
    BY <1>1, <1>5 DEF Next, Reconcile, Gone, Begin, Ensure, VolumesDone,
       GetStatefulSet, EnsureService, CreateStatefulSet, UpdateStatefulSet,
       KeepStatefulSet, AddCluster, NoHostTemplate, RequestFails, Sync, Resync,
       Collect, CollectClaim, CollectService, CollectStatefulSet,
       ClaimFromTemplate, ContainerStarts,
       ContainerStops, OperatorRestart, vars, Objects
  <2>2. cache'.resource = cache.resource \/ cache'.resource = api.resource
    BY <1>1, <1>5 DEF Next, Reconcile, Gone, Begin, Ensure, VolumesDone,
       GetStatefulSet, EnsureService, CreateStatefulSet, UpdateStatefulSet,
       KeepStatefulSet, AddCluster, NoHostTemplate, RequestFails, Sync, Resync,
       Collect, CollectClaim, CollectService, CollectStatefulSet,
       ClaimFromTemplate, ContainerStarts,
       ContainerStops, OperatorRestart, vars, Objects, Types
  <2> QED
    BY <2>1, <2>2 DEF GenInv
<1> QED
  BY <1>2, <1>3, <1>4, <1>5

\* Reconcile passes over none of the places where it reads or makes a
\* StatefulSet.
LEMMA NoneSkipped ==
    ASSUME NEW n \in 0..11, NEW p \in Parts, GoOn(n)
    PROVE  /\ at' \in (n + 1)..11
           /\ n < GetAt(p) => at' <= GetAt(p)
           /\ n < SfsAt(p) => at' <= SfsAt(p)
<1>1. PICK m \in Later(n) : at' = m /\ \A l \in Later(n) : m <= l
  BY DEF GoOn
<1>2. m \in (n + 1)..11
  BY <1>1, StageFacts DEF Later
<1>3. p = "gbase8s" \/ p = "cm"
  BY ConstantFacts
<1>4. /\ n < GetAt(p) => GetAt(p) \in Later(n)
      /\ n < SfsAt(p) => SfsAt(p) \in Later(n)
  BY <1>3, StageFacts DEF Later, GetAt, SfsAt
<1> QED
  BY <1>1, <1>2, <1>4

LEMMA PlaceOf ==
    ASSUME NEW p \in Parts, at \in 0..11
    PROVE  /\ At("get", p) => at = GetAt(p)
           /\ At("sfs", p) => at = SfsAt(p)
<1>1. at = 0 \/ at = 1 \/ at = 2 \/ at = 3 \/ at = 4 \/ at = 5 \/ at = 6
      \/ at = 7 \/ at = 8 \/ at = 9 \/ at = 10 \/ at = 11
  BY SMT
<1>2. p = "gbase8s" \/ p = "cm"
  BY ConstantFacts
<1> QED
  BY <1>1, <1>2, StageFacts DEF At, GetAt, SfsAt

\* Nothing is claimed while the name is queued.
LEMMA QueuedRest == queued' => SettledInv' /\ ManagerSettled'
BY DEF SettledInv, ManagerSettled

\* A step of Reconcile to its next stage or node.
LEMMA StageRest ==
    ASSUME RestInv, ~queued, at # 0, NextStage \/ NextNode, cache' = cache,
           api'.resource = api.resource,
           \A q \in Parts :
               \/ /\ api'.sfs[q] = api.sfs[q] /\ seen'[q] = seen[q]
                  /\ at # GetAt(q) /\ at # SfsAt(q)
               \/ at = GetAt(q) /\ seen'[q] = View(q)
               \/ at = SfsAt(q) /\ seen'[q] = seen[q] /\ Served(q)'
    PROVE  SettledInv' /\ ManagerSettled'
<1>1. at \in 1..11 /\ SettledInv
  BY StageCount DEF RestInv, TypeOK
<1>2. /\ at' \in 1..11 /\ read' = read
      /\ at' = at \/ GoOn(at)
  BY <1>1, NextStageIs DEF NextStage, NextNode
<1>3. read' = cache'.resource
  BY <1>1, <1>2 DEF SettledInv
<1>4. ASSUME NEW q \in Parts
      PROVE  /\ at' > GetAt(q) => seen'[q] = View(q)'
             /\ at' > SfsAt(q) => Served(q)'
  <2>1. /\ at' > GetAt(q) => at >= GetAt(q)
        /\ at' > SfsAt(q) => at >= SfsAt(q)
    BY <1>1, <1>2, NoneSkipped DEF GetAt, SfsAt
  <2>2. /\ at > GetAt(q) => seen[q] = View(q)
        /\ at > SfsAt(q) => Served(q)
    BY <1>1 DEF SettledInv
  <2>3. View(q)' = View(q)
    BY DEF View
  <2>4. CASE /\ api'.sfs[q] = api.sfs[q] /\ seen'[q] = seen[q]
             /\ at # GetAt(q) /\ at # SfsAt(q)
    <3>1. Served(q)' = Served(q)
      BY <2>4 DEF Served
    <3> QED
      BY <1>1, <1>2, <2>1, <2>2, <2>3, <2>4, <3>1 DEF GetAt, SfsAt
  <2>5. CASE at = GetAt(q) /\ seen'[q] = View(q)
    BY <1>1, <1>2, <2>1, <2>3, <2>5 DEF GetAt, SfsAt
  <2>6. CASE at = SfsAt(q) /\ seen'[q] = seen[q] /\ Served(q)'
    BY <2>2, <2>3, <2>6 DEF GetAt, SfsAt
  <2> QED
    BY <2>4, <2>5, <2>6
<1>5. at' # 0
  BY <1>2
<1> QED
  BY <1>3, <1>4, <1>5 DEF SettledInv, ManagerSettled

LEMMA SfsChange ==
    ASSUME api \in Objects, NEW p \in Parts, NEW s,
           api' = [api EXCEPT !.sfs[p] = s]
    PROVE  /\ api'.resource = api.resource /\ api'.sfs[p] = s
           /\ \A q \in Parts : q # p => api'.sfs[q] = api.sfs[q]
BY DEF Objects

\* The stage that makes the StatefulSet of p, when it goes on.
LEMMA MakeRest ==
    ASSUME RestInv, ~queued, NEW p \in Parts,
           CreateStatefulSet(p) \/ UpdateStatefulSet(p) \/ KeepStatefulSet(p)
    PROVE  SettledInv' /\ ManagerSettled'
<1>1. /\ at \in 0..11 /\ at # 0 /\ at = SfsAt(p) /\ api \in Objects
      /\ cache' = cache /\ SettledInv
  <2>1. At("sfs", p) /\ cache' = cache
    BY DEF CreateStatefulSet, UpdateStatefulSet, KeepStatefulSet
  <2>2. at \in 0..11 /\ api \in Objects /\ SettledInv
    BY StageCount DEF RestInv, TypeOK
  <2> QED
    BY <2>1, <2>2, PlaceOf DEF At
<1>2. CASE Fail
  BY <1>2, QueuedRest DEF Fail
<1>3. CASE ~Fail
  <2>1. NextStage /\ seen' = seen
    BY <1>3 DEF CreateStatefulSet, UpdateStatefulSet, KeepStatefulSet
  <2>2. read = cache.resource /\ seen[p] = View(p)
    BY <1>1 DEF SettledInv, GetAt, SfsAt
  <2>3. \/ api' = [api EXCEPT !.sfs[p] = Made(p)] /\ seen[p] # read.want[p]
        \/ api' = [api EXCEPT !.sfs[p] = Made(p)] /\ seen[p] = 0
        \/ api' = api /\ seen[p] # 0 /\ seen[p] = read.want[p]
    BY <1>3 DEF CreateStatefulSet, UpdateStatefulSet, KeepStatefulSet
  <2>4. /\ api'.resource = api.resource
        /\ \A q \in Parts : q # p => api'.sfs[q] = api.sfs[q]
    BY <1>1, <2>3, SfsChange
  <2>5. Served(p)'
    <3>1. CASE api' = [api EXCEPT !.sfs[p] = Made(p)]
      <4>1. api'.sfs[p] = Made(p)
        BY <1>1, <3>1, SfsChange
      <4>2. Made(p).uid = read.uid /\ Made(p).replicas = read.want[p]
        BY DEF Made
      <4>3. Made(p) # None
        BY <1>1, MadeTyped, NoneAssumption DEF RestInv
      <4> QED
        BY <1>1, <2>2, <4>1, <4>2, <4>3 DEF Served
    <3>2. CASE api' = api /\ seen[p] # 0 /\ seen[p] = read.want[p]
      <4>1. cache.sfs[p] # None /\ cache.sfs[p].replicas = cache.resource.want[p]
        BY <2>2, <3>2 DEF View
      <4> QED
        BY <1>1, <3>2, <4>1 DEF Served
    <3> QED
      BY <2>3, <3>1, <3>2
  <2>6. \A q \in Parts : q # p => at # GetAt(q) /\ at # SfsAt(q)
    BY <1>1, ConstantFacts DEF GetAt, SfsAt
  <2> QED
    BY <1>1, <2>1, <2>4, <2>5, <2>6, StageRest
<1> QED
  BY <1>2, <1>3

\* A step that does not move Reconcile, and touches no StatefulSet and no cache
\* of one.
LEMMA IdleRest ==
    ASSUME RestInv, ~queued, UNCHANGED <<at, read, seen, managed, missed>>,
           cache'.resource = cache.resource, cache'.sfs = cache.sfs,
           \A q \in Parts : Served(q) => Served(q)'
    PROVE  SettledInv' /\ ManagerSettled'
<1>1. SettledInv /\ ManagerSettled /\ TypeOK
  BY DEF RestInv
<1>2. \A q \in Parts : View(q)' = View(q)
  BY DEF View
<1>3. SettledInv'
  BY <1>1, <1>2 DEF SettledInv
<1>4. ManagerSettled'
  BY <1>1 DEF ManagerSettled
<1> QED
  BY <1>3, <1>4

\* The stages before a StatefulSet is made.
LEMMA PrepareRest ==
    ASSUME RestInv, ~queued, NEW p \in Parts,
           \/ Ensure("pv", p) \/ VolumesDone("pv", p)
           \/ Ensure("pvc", p) \/ VolumesDone("pvc", p)
           \/ GetStatefulSet(p) \/ EnsureService(p)
    PROVE  SettledInv' /\ ManagerSettled'
<1>1. at \in 0..11 /\ api \in Objects /\ seen \in [Parts -> Nat]
  BY StageCount DEF RestInv, TypeOK
<1>2. CASE Fail
  BY <1>2, QueuedRest DEF Fail
<1>3. CASE ~Fail /\ ~GetStatefulSet(p)
  <2>1. /\ at # 0 /\ cache' = cache /\ (NextStage \/ NextNode) /\ seen' = seen
    BY <1>3 DEF Ensure, VolumesDone, EnsureService, At
  <2>2. api'.resource = api.resource /\ api'.sfs = api.sfs
    BY <1>1, <1>3 DEF Ensure, VolumesDone, EnsureService, Objects
  <2>3. at \in {1, 2, 3, 4, 7, 8}
    <3>1. At("pv", p) \/ At("pvc", p) \/ At("svc", p)
      BY <1>3 DEF Ensure, VolumesDone, EnsureService
    <3> QED
      BY <1>1, <3>1, AtStage
  <2>4. \A q \in Parts : at # GetAt(q) /\ at # SfsAt(q)
    BY <2>3 DEF GetAt, SfsAt
  <2> QED
    BY <2>1, <2>2, <2>4, StageRest
<1>4. CASE GetStatefulSet(p)
  <2>1. /\ at # 0 /\ at = GetAt(p) /\ cache' = cache /\ api' = api /\ NextStage
        /\ seen' = [seen EXCEPT ![p] = View(p)]
    BY <1>1, <1>4, PlaceOf DEF GetStatefulSet, At, View
  <2>2. \A q \in Parts : q # p => at # GetAt(q) /\ at # SfsAt(q)
    BY <2>1, ConstantFacts DEF GetAt, SfsAt
  <2>3. seen'[p] = View(p) /\ \A q \in Parts : q # p => seen'[q] = seen[q]
    BY <1>1, <2>1
  <2> QED
    BY <2>1, <2>2, <2>3, StageRest
<1> QED
  BY <1>2, <1>3, <1>4

\* Reconcile begins, or ends.
LEMMA EndsRest ==
    ASSUME RestInv, Gone \/ Begin \/ AddCluster \/ NoHostTemplate \/ RequestFails
                    \/ OperatorRestart
    PROVE  SettledInv' /\ ManagerSettled'
<1>1. at \in 0..11 /\ queued \in BOOLEAN /\ SettledInv
  BY StageCount DEF RestInv, TypeOK
<1>2. CASE Gone
  <2>1. at' = 0 /\ managed' = None /\ cache'.resource = None
    BY <1>2 DEF Gone, run
  <2>2. \A q \in Parts : ~(at' > GetAt(q)) /\ Served(q)'
    BY <2>1 DEF GetAt, Served
  <2> QED
    BY <2>1, <2>2 DEF SettledInv, ManagerSettled
<1>3. CASE Begin
  <2>1. GoOn(0) /\ read' = cache.resource /\ cache' = cache
    BY <1>3 DEF Begin
  <2>2. at' = 1
    BY ONLY <2>1, NextStageIs
  <2>3. \A q \in Parts : ~(at' > GetAt(q)) /\ ~(at' > SfsAt(q))
    BY <2>2 DEF GetAt, SfsAt
  <2> QED
    BY <2>1, <2>2, <2>3 DEF SettledInv, ManagerSettled
<1>4. CASE RequestFails
  BY <1>4, QueuedRest DEF RequestFails, Fail
<1>5. CASE AddCluster \/ NoHostTemplate
  <2>1. /\ at = 11 /\ at' = 0 /\ queued' = queued /\ api' = api /\ cache' = cache
    BY <1>1, <1>5, AtStage, ConstantFacts
       DEF AddCluster, NoHostTemplate, Return, NotRunning
  <2>2. /\ managed' = read \/ missed'
        /\ read # None
    BY <1>1, <1>5, <2>1 DEF AddCluster, NoHostTemplate, RestInv, TypeOK
  <2>3. ASSUME ~queued
        PROVE  read = cache.resource /\ \A q \in Parts : Served(q)
    BY <1>1, <2>1, <2>3 DEF SettledInv, SfsAt
  <2>4. \A q \in Parts : Served(q)' = Served(q)
    BY <2>1 DEF Served
  <2>5. \A q \in Parts : ~(at' > GetAt(q))
    BY <2>1 DEF GetAt
  <2> QED
    BY <2>1, <2>2, <2>3, <2>4, <2>5 DEF SettledInv, ManagerSettled
<1>6. CASE OperatorRestart
  <2>1. /\ at' = 0 /\ managed' = None /\ cache' = api /\ api' = api
        /\ queued' = (api.resource # None)
    BY <1>6 DEF OperatorRestart, NotRunning
  <2>2. \A q \in Parts : ~(at' > GetAt(q))
    BY <2>1 DEF GetAt
  <2> QED
    BY <2>1, <2>2 DEF SettledInv, ManagerSettled, Served
<1> QED
  BY <1>2, <1>3, <1>4, <1>5, <1>6

\* The user's steps: the resource at the API server is none that the cache
\* holds, or the cache holds none.
LEMMA UserRest ==
    ASSUME RestInv, Create \/ Change \/ Delete
    PROVE  SettledInv' /\ ManagerSettled'
<1>1. /\ api \in Objects /\ gen \in Nat /\ GenInv
      /\ api.resource \in Resources \cup {None}
      /\ cache.resource \in Resources \cup {None}
      /\ \A r \in Resources : r.gen \in Nat
  BY ConstantFacts, ObjectTypes DEF RestInv, TypeOK, Resources
<1>2. /\ cache' = cache /\ queued' = queued
      /\ UNCHANGED <<at, read, seen, managed, missed>>
  BY DEF Create, Change, Delete, run
<1>3. cache.resource # None => api'.resource # cache.resource
  <2>1. CASE Create \/ Change
    <3>1. api'.resource.gen = gen + 1
      <4>1. CASE Create
        BY <1>1, <4>1 DEF Create, Objects
      <4>2. CASE Change
        BY <1>1, <4>2 DEF Change, Objects, Resources
      <4> QED
        BY <2>1, <4>1, <4>2
    <3>2. cache.resource # None => cache.resource.gen \in Nat
      BY <1>1
    <3>3. cache.resource # None => cache.resource.gen # gen + 1
      BY <1>1, <3>2 DEF GenInv
    <3> QED
      BY <3>1, <3>3
  <2>2. CASE Delete
    <3>1. api'.resource = None
      BY <1>1, <2>2 DEF Delete, Objects
    <3> QED
      BY <3>1
  <2> QED
    BY <2>1, <2>2
<1>4. \A q \in Parts : Served(q)'
  BY <1>2, <1>3 DEF Served
<1> QED
  BY <1>2, <1>4, IdleRest, QueuedRest

\* The steps of the garbage collector and of the StatefulSet controller.
LEMMA ClusterRest ==
    ASSUME RestInv, Collect \/ \E c \in Claims : ClaimFromTemplate(c)
    PROVE  SettledInv' /\ ManagerSettled'
<1>1. api \in Objects
  BY DEF RestInv, TypeOK
<1>2. /\ cache' = cache /\ queued' = queued
      /\ UNCHANGED <<at, read, seen, managed, missed>>
  BY DEF Collect, CollectClaim, CollectService, CollectStatefulSet,
     ClaimFromTemplate, run
<1>3. \A q \in Parts : Served(q) => Served(q)'
  <2>1. CASE \/ \E c \in Claims : CollectClaim(c) \/ ClaimFromTemplate(c)
             \/ \E p \in Parts : CollectService(p)
    <3>1. api'.resource = api.resource /\ api'.sfs = api.sfs
      BY <1>1, <2>1 DEF CollectClaim, CollectService, ClaimFromTemplate, Objects
    <3> QED
      BY <1>2, <3>1 DEF Served
  <2>2. ASSUME NEW p \in Parts, CollectStatefulSet(p),
               NEW q \in Parts, Served(q)
        PROVE  Served(q)'
    <3>1. /\ api'.resource = api.resource /\ api'.sfs[p] = None
          /\ \A r \in Parts : r # p => api'.sfs[r] = api.sfs[r]
      BY <1>1, <2>2, SfsChange DEF CollectStatefulSet
    <3>2. CASE q # p
      BY <1>2, <2>2, <3>1, <3>2 DEF Served
    <3>3. CASE q = p
      <4>1. api.sfs[p] # None /\ Orphaned(api.sfs[p].uid)
        BY <2>2 DEF CollectStatefulSet
      <4>2. cache.resource # None /\ api.resource = cache.resource =>
               cache.sfs[p] # None
        BY <2>2, <3>3, <4>1 DEF Served, Orphaned
      <4> QED
        BY <1>2, <3>1, <3>3, <4>2 DEF Served
    <3> QED
      BY <3>2, <3>3
  <2> QED
    BY <2>1, <2>2 DEF Collect
<1> QED
  BY <1>2, <1>3, IdleRest, QueuedRest

LEMMA RestStep == RestInv /\ [Next]_vars => RestInv'
<1> SUFFICES ASSUME RestInv, [Next]_vars PROVE SettledInv' /\ ManagerSettled'
  BY StepTyped, GenStep DEF RestInv
<1>0. cache \in Objects
  BY DEF RestInv, TypeOK
<1>1. CASE queued'
  BY <1>1, QueuedRest
<1>2. ASSUME NEW p \in Parts, ~queued',
             \/ Ensure("pv", p) \/ VolumesDone("pv", p)
             \/ Ensure("pvc", p) \/ VolumesDone("pvc", p)
             \/ GetStatefulSet(p) \/ EnsureService(p)
             \/ CreateStatefulSet(p) \/ UpdateStatefulSet(p) \/ KeepStatefulSet(p)
      PROVE  SettledInv' /\ ManagerSettled'
  <2>1. ~queued
    BY <1>2 DEF Ensure, VolumesDone, GetStatefulSet, EnsureService,
       CreateStatefulSet, UpdateStatefulSet, KeepStatefulSet, NextStage,
       NextNode, Fail
  <2> QED
    BY <1>2, <2>1, PrepareRest, MakeRest
<1>3. CASE Gone \/ Begin \/ AddCluster \/ NoHostTemplate \/ RequestFails
           \/ OperatorRestart
  BY <1>3, EndsRest
<1>4. CASE ~queued' /\ \E type \in Types : Sync(type)
  <2>1. PICK type \in Types : Sync(type)
    BY <1>4
  <2>2. type # "resource" /\ type # "sfs" /\ ~queued
    BY <1>4, <2>1 DEF Sync, Watched
  <2>3. /\ cache'.resource = cache.resource /\ cache'.sfs = cache.sfs
        /\ api' = api /\ UNCHANGED <<at, read, seen, managed, missed>>
    BY <1>0, <2>1, <2>2 DEF Sync, Types, Objects, run
  <2>4. \A q \in Parts : Served(q) => Served(q)'
    BY <2>3 DEF Served
  <2> QED
    BY <2>2, <2>3, <2>4, IdleRest
<1>5. CASE Resync
  BY <1>5, QueuedRest DEF Resync
<1>6. CASE Create \/ Change \/ Delete
  BY <1>6, UserRest
<1>7. CASE Collect \/ \E c \in Claims : ClaimFromTemplate(c)
  BY <1>7, ClusterRest
<1>8. CASE ContainerStarts \/ ContainerStops \/ UNCHANGED vars
  <2>1. /\ cache' = cache /\ api' = api /\ queued' = queued
        /\ UNCHANGED <<at, read, seen, managed, missed>>
    BY <1>8 DEF ContainerStarts, ContainerStops, vars, run
  <2>2. \A q \in Parts : Served(q) => Served(q)'
    BY <2>1 DEF Served
  <2> QED
    BY <2>1, <2>2, IdleRest, QueuedRest
<1> QED
  BY <1>1, <1>2, <1>3, <1>4, <1>5, <1>6, <1>7, <1>8 DEF Next, Reconcile

\* A Reconcile that worked with a stale read of the resource or of a
\* StatefulSet is not the last one (createOrUpdateStatefulset, with what
\* SetupWithManager watches): when nothing is queued and the caches have caught
\* up, each StatefulSet is there with its replicas. This is the safety core of
\* StatefulSetsFollow; it needs no fairness, and any number of faults may
\* happen.
THEOREM StatefulSetsAreSettled == Spec => []StatefulSetsSettled
<1>1. RestInv => StatefulSetsSettled
  BY DEF RestInv, SettledInv, StatefulSetsSettled, Served
<1> QED
  BY <1>1, InitTyped, InitRest, RestStep, PTL DEF Spec, RestInv

\* DelCluster has been called for a resource that is gone, and AddCluster with
\* what the cache holds of one that is there, however stale the reads were and
\* whatever failed; the one exception is a last Reconcile that found no database
\* container to ask for its domain (src: Reconcile, GetHostTemplate).
THEOREM ManagerIsSettled == Spec => []ManagerSettled
<1>1. RestInv => ManagerSettled
  BY DEF RestInv
<1> QED
  BY <1>1, InitTyped, InitRest, RestStep, PTL DEF Spec, RestInv
=============================================================================
