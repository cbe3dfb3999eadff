--------------------------- MODULE PodFilesProofs ---------------------------
(***************************************************************************)
(* Proofs about PodFiles, for any numbers of pods, any ways in which they  *)
(* fail, and any number of changes and faults.                             *)
(***************************************************************************)
EXTENDS PodFiles, TLAPS

LEMMA ConstantFacts ==
    /\ Wanted \subseteq [Parts -> Nat \ {0}]
    /\ Failures \subseteq {"waiting", "gone"}
    /\ MaxChanges \in Nat /\ MaxFaults \in Nat
BY PodFilesAssumption

LEMMA StepFacts ==
    /\ Names = {"hostfile", "sqlhosts", "sqlhosts.cm"}
    /\ Steps[1] = "hostfile" /\ DOMAIN Steps = 1..3 /\ Len(Steps) = 3
    /\ \A a, b : Follows(a, b) <=> \/ a = "hostfile" /\ b = "sqlhosts"
                                   \/ a = "sqlhosts" /\ b = "sqlhosts.cm"
<1>1. /\ Steps[1] = "hostfile" /\ Steps[2] = "sqlhosts"
      /\ Steps[3] = "sqlhosts.cm" /\ DOMAIN Steps = 1..3 /\ Len(Steps) = 3
  BY DEF Steps
<1>2. Names = {"hostfile", "sqlhosts", "sqlhosts.cm"}
  <2>1. \A n \in DOMAIN Steps : n = 1 \/ n = 2 \/ n = 3
    BY <1>1
  <2>2. 1 \in DOMAIN Steps /\ 2 \in DOMAIN Steps /\ 3 \in DOMAIN Steps
    BY <1>1
  <2> QED
    BY <1>1, <2>1, <2>2 DEF Names
<1>3. \A n \in 1 .. Len(Steps) - 1 : n = 1 \/ n = 2
  BY <1>1
<1>4. 1 \in 1 .. Len(Steps) - 1 /\ 2 \in 1 .. Len(Steps) - 1
  BY <1>1
<1> QED
  BY <1>1, <1>2, <1>3, <1>4 DEF Follows

----------------------------------------------------------------------------
(* Type correctness, in two parts: the pods with what is in them, and the  *)
(* state of the operator.                                                  *)

PodsTyped ==
    /\ want \in Wanted /\ expect \in Wanted \cup {Nothing}
    /\ pod \in [Pods -> States] /\ cached \in [Pods -> States]
    /\ file \in [Pods -> [Names -> [Parts -> Nat] \cup {None}]]
    /\ runs \subseteq Runs(pod) \cap PodsOf("cm")
    /\ at \in Names \cup {"none", "list", "signal"}
    /\ left \subseteq list /\ list \subseteq Pods
    /\ todo \subseteq PodsOf("cm")
    /\ changes \in 0..MaxChanges /\ faults \in 0..MaxFaults

FlagsTyped ==
    /\ active \in BOOLEAN /\ gOn \in BOOLEAN /\ cOn \in BOOLEAN
    /\ loop \in BOOLEAN /\ (loop => cOn)
    /\ excuse \in BOOLEAN

LEMMA TypeParts == TypeOK <=> PodsTyped /\ FlagsTyped
BY DEF TypeOK, PodsTyped, FlagsTyped

LEMMA Contents ==
    /\ Nothing \in [Parts -> Nat]
    /\ NoFiles \in [Names -> [Parts -> Nat] \cup {None}]
    /\ \A w \in [Parts -> Nat] : \A name : About(name, w) \in [Parts -> Nat]
    /\ \A p : PodsOf(p) \subseteq Pods
    /\ \A S : Runs(S) \subseteq Pods /\ Exists(S) \subseteq Pods
BY DEF Nothing, NoFiles, About, PodsOf, Runs, Exists, Parts

LEMMA FaultTyped == faults \in 0..MaxFaults /\ Fault => faults' \in 0..MaxFaults
BY ConstantFacts DEF Fault

\* A pod that enters a state loses its files and its process.
LEMMA EnterTyped ==
    ASSUME PodsTyped, NEW c \in Pods, NEW s \in States, Enter(c, s),
           faults' \in 0..MaxFaults
    PROVE  PodsTyped'
<1>1. /\ pod' = [pod EXCEPT ![c] = s]
      /\ file' = [file EXCEPT ![c] = NoFiles]
      /\ runs' = runs \ {c}
      /\ UNCHANGED <<want, changes, cached, expect, at, list, left, todo>>
  BY DEF Enter, build, thread
<1>2. runs' \subseteq Runs(pod')
  BY <1>1 DEF PodsTyped, Runs
<1> QED
  BY <1>1, <1>2, Contents DEF PodsTyped, Runs

LEMMA FlagsStep == FlagsTyped /\ [Next]_vars => FlagsTyped'
<1> SUFFICES ASSUME FlagsTyped, [Next]_vars PROVE FlagsTyped'
  OBVIOUS
<1>1. CASE Begin \/ Build
  <2>1. UNCHANGED <<gOn, cOn, loop>> /\ active' \in {active, TRUE}
    BY <1>1 DEF Begin, Build, NotBuilt, BuildFails, ListPods, Write, NextFile,
       Signal, thread, timers
  <2>2. excuse' \in BOOLEAN
    BY <1>1 DEF Begin, Build, NotBuilt, BuildFails, ListPods, Write, NextFile,
       Signal, FlagsTyped
  <2> QED
    BY <2>1, <2>2 DEF FlagsTyped
<1>2. CASE TakeActive \/ Gbase8sDone \/ Gbase8sFails
  <2>1. /\ loop' = loop /\ ~loop /\ excuse' = excuse
        /\ active' \in {active, FALSE}
        /\ gOn' \in {TRUE, FALSE} /\ cOn' \in {cOn, TRUE}
    BY <1>2 DEF TakeActive, Gbase8sDone, Gbase8sFails
  <2> QED
    BY <2>1 DEF FlagsTyped
<1>3. CASE CmTick \/ CmLoop
  <2>1. /\ UNCHANGED <<active, gOn, excuse>>
        /\ \/ loop' = loop /\ cOn' = cOn
           \/ loop' = TRUE /\ cOn /\ cOn' = cOn
           \/ loop' = FALSE /\ cOn' = FALSE
    BY <1>3 DEF CmTick, CmLoop, CmBegins, CmCannotBegin, CmPod, CmDone, CmStops,
       CmNormal, timers
  <2>2. loop' \in BOOLEAN /\ cOn' \in BOOLEAN /\ (loop' => cOn')
    <3>1. CASE loop' = loop /\ cOn' = cOn
      BY <3>1 DEF FlagsTyped
    <3>2. CASE loop' = TRUE /\ cOn /\ cOn' = cOn
      <4>1. loop' \in BOOLEAN /\ (cOn' <=> cOn)
        BY <3>2
      <4> QED
        BY <3>2, <4>1 DEF FlagsTyped
    <3>3. CASE loop' = FALSE /\ cOn' = FALSE
      BY <3>3
    <3> QED
      BY <2>1, <3>1, <3>2, <3>3
  <2> QED
    BY <2>1, <2>2 DEF FlagsTyped
<1>4. CASE \/ Sync \/ Change \/ UNCHANGED vars
           \/ \E c \in Pods : \/ PodCreated(c) \/ PodStarts(c)
                              \/ ScaledDown(c) \/ PodFails(c) \/ CmEnds(c)
  <2>1. UNCHANGED <<active, gOn, cOn, loop>>
    BY <1>4 DEF PodCreated, PodStarts, ScaledDown, PodFails, CmEnds, Enter,
       Sync, Change, vars, thread, timers
  <2>2. excuse' \in BOOLEAN
    BY <1>4 DEF PodCreated, PodStarts, ScaledDown, PodFails, CmEnds, Enter,
       Excused, Sync, Change, vars, FlagsTyped
  <2> QED
    BY <2>1, <2>2 DEF FlagsTyped
<1> QED
  BY <1>1, <1>2, <1>3, <1>4 DEF Next, Kubernetes

LEMMA PodsStep == PodsTyped /\ [Next]_vars => PodsTyped'
<1> SUFFICES ASSUME PodsTyped, [Next]_vars PROVE PodsTyped'
  OBVIOUS
<1> USE FaultTyped
<1>1. CASE Begin \/ NotBuilt \/ BuildFails \/ Signal
  <2>1. /\ UNCHANGED <<want, pod, file, runs, changes, cached, todo>>
        /\ at' \in {"none", "list", "signal"}
        /\ expect' \in {want, Nothing}
        /\ \/ left' = left /\ list' = list
           \/ left' = {} /\ list' = {}
        /\ faults' = faults \/ Fault
    BY <1>1 DEF Begin, NotBuilt, BuildFails, Signal, ReturnTo, env, thread
  <2> QED
    BY <2>1 DEF PodsTyped, Runs
<1>2. CASE ListPods
  <2>1. /\ UNCHANGED <<want, pod, file, runs, changes, cached, todo, expect, faults>>
        /\ at' \in Names /\ list' = Runs(cached) /\ left' \subseteq list'
    BY <1>2, StepFacts DEF ListPods, env, thread
  <2> QED
    BY <2>1, Contents DEF PodsTyped, Runs
<1>3. ASSUME NEW c \in Pods, Write(c) PROVE PodsTyped'
  <2>1. /\ UNCHANGED <<want, pod, runs, changes, cached, todo, expect, at, list>>
        /\ at \in Names /\ left' \subseteq left
        /\ \/ file' = file
           \/ file' = [file EXCEPT ![c][at] = About(at, expect)]
        /\ faults' = faults \/ Fault
    BY <1>3 DEF Write, Written, thread
  <2>2. About(at, expect) \in [Parts -> Nat]
    BY Contents, ConstantFacts DEF PodsTyped
  <2>3. file' \in [Pods -> [Names -> [Parts -> Nat] \cup {None}]]
    <3>1. file \in [Pods -> [Names -> [Parts -> Nat] \cup {None}]]
      BY DEF PodsTyped
    <3> DEFINE V == [Parts -> Nat] \cup {None}
    <3>2. About(at, expect) \in V /\ file \in [Pods -> [Names -> V]]
      BY <2>2, <3>1
    <3> HIDE DEF V
    <3>3. file' \in [Pods -> [Names -> V]]
      BY ONLY <2>1, <3>2
    <3> QED
      BY <3>3 DEF V
  <2> QED
    BY <2>1, <2>3 DEF PodsTyped, Runs
<1>4. CASE NextFile
  <2>1. /\ UNCHANGED <<want, pod, file, runs, changes, cached, todo, faults>>
        /\ at' \in Names \cup {"signal"}
        /\ expect' \in {expect, Nothing}
        /\ \/ list' = list /\ left' \subseteq list
           \/ list' = {} /\ left' = {}
    BY <1>4 DEF NextFile, ReturnTo, env, thread
  <2> QED
    BY <2>1 DEF PodsTyped, Runs
<1>5. CASE \/ TakeActive \/ Gbase8sDone \/ Gbase8sFails
           \/ CmTick \/ CmDone \/ Sync
  <2>1. /\ UNCHANGED <<want, pod, file, runs, changes, expect, at, list, left>>
        /\ cached' = cached \/ cached' = pod
        /\ todo' \subseteq todo \/ todo' = Exists(cached) \cap PodsOf("cm")
        /\ faults' = faults \/ Fault
    BY <1>5 DEF TakeActive, Gbase8sDone, Gbase8sFails, CmTick, CmBegins,
       CmCannotBegin, CmDone, CmStops, Sync, env, build, thread
  <2> QED
    BY <2>1 DEF PodsTyped, Runs
<1>6. ASSUME NEW c \in Pods, CmPod(c) PROVE PodsTyped'
  <2>1. /\ UNCHANGED <<want, pod, file, changes, cached, expect, at, list, left>>
        /\ todo' \subseteq todo /\ c \in todo
        /\ \/ runs' = runs
           \/ c \in Runs(pod) /\ runs' = runs \cup {c}
        /\ faults' = faults \/ Fault
    BY <1>6 DEF CmPod, CmStops, CmNormal, build
  <2> QED
    BY <2>1 DEF PodsTyped, Runs
<1>7. CASE Change
  BY <1>7, ConstantFacts DEF Change, PodsTyped, Runs, build, thread
<1>8. ASSUME NEW c \in Pods, PodCreated(c) \/ PodStarts(c) \/ ScaledDown(c)
      PROVE  PodsTyped'
  <2>1. \E s \in States : Enter(c, s)
    BY <1>8 DEF PodCreated, PodStarts, ScaledDown, States
  <2>2. faults' \in 0..MaxFaults
    BY <1>8 DEF PodCreated, PodStarts, ScaledDown, PodsTyped
  <2> QED
    BY <2>1, <2>2, EnterTyped
<1>9. ASSUME NEW c \in Pods, PodFails(c) PROVE PodsTyped'
  <2>1. Fault /\ \E s \in States : Enter(c, s)
    BY <1>9, ConstantFacts DEF PodFails, States
  <2> QED
    BY <2>1, EnterTyped DEF PodsTyped
<1>10. ASSUME NEW c \in Pods, CmEnds(c) PROVE PodsTyped'
  <2>1. /\ UNCHANGED <<want, pod, file, changes, cached, build, thread>>
        /\ runs' \subseteq runs /\ Fault
    BY <1>10 DEF CmEnds
  <2> QED
    BY <2>1 DEF PodsTyped, Runs, build, thread
<1>11. CASE UNCHANGED vars
  BY <1>11 DEF PodsTyped, Runs, vars, env, build, thread
<1> QED
  BY <1>1, <1>2, <1>3, <1>4, <1>5, <1>6, <1>7, <1>8, <1>9, <1>10, <1>11
     DEF Next, Build, CmLoop, Kubernetes

LEMMA InitTyped == Init => TypeOK
<1>1. Init => FlagsTyped
  BY Zenon DEF Init, FlagsTyped
<1>2. Init => PodsTyped
  <2> SUFFICES ASSUME Init PROVE PodsTyped
    OBVIOUS
  <2>1. /\ pod = [c \in Pods |-> IF c \in Asked THEN "running" ELSE "gone"]
        /\ file = [c \in Pods |-> NoFiles]
        /\ cached = pod /\ want \in Wanted /\ runs = {} /\ at = "none"
        /\ expect = Nothing /\ list = {} /\ left = {} /\ todo = {}
        /\ changes = 0 /\ faults = 0
    BY DEF Init
  <2> QED
    BY ONLY <2>1, Contents, ConstantFacts DEF PodsTyped, States
<1> QED
  BY <1>1, <1>2, TypeParts

LEMMA StepTyped == TypeOK /\ [Next]_vars => TypeOK'
<1>1. TypeOK' <=> PodsTyped' /\ FlagsTyped'
  BY DEF TypeOK, PodsTyped, FlagsTyped
<1> QED
  BY <1>1, TypeParts, PodsStep, FlagsStep

\* The pods, their files and processes and the operator's state have their
\* types; a connection manager runs only in a container that does.
THEOREM TypeCorrect == Spec => []TypeOK
BY InitTyped, StepTyped, PTL DEF Spec

----------------------------------------------------------------------------
(* The files come before the signal.                                       *)

\* Every pod to be written for the file name, but those of W, has it.
WrittenBut(name, W) ==
    \A c \in (Asked \cap PodsOf(PartOf(name))) \ W : file[c][name] = About(name, want)

\* Of a file, the pods that may still lack it at this step.
Lack(name) ==
    IF at = "signal" \/ \/ at = "sqlhosts" /\ name = "hostfile"
                        \/ at = "sqlhosts.cm" /\ name # "sqlhosts.cm"
    THEN {} ELSE IF at = name THEN left ELSE Pods

\* Unless excused, the pods and their numbers are those listed, and the files of
\* the steps done are written.
UnexcusedInv ==
    (at \in Names \cup {"signal"} /\ ~excuse) =>
        /\ at # "signal" => expect = want /\ list = Asked
        /\ \A name \in Names : WrittenBut(name, Lack(name))

FilesInv == TypeOK /\ UnexcusedInv

LEMMA AskedPods == Asked \subseteq Pods /\ (want' = want => Asked' = Asked)
BY DEF Asked

\* Steps that set excuse, or are not between the listing and the signal.
LEMMA Excusing ==
    ASSUME UnexcusedInv,
           \/ at' \in {"none", "list"}
           \/ excuse' = TRUE
           \/ UNCHANGED <<want, file, at, expect, list, left, excuse>>
    PROVE  UnexcusedInv'
<1>1. CASE at' \in {"none", "list"}
  BY <1>1, StepFacts DEF UnexcusedInv
<1>2. CASE excuse' = TRUE
  BY <1>2 DEF UnexcusedInv
<1>3. CASE UNCHANGED <<want, file, at, expect, list, left, excuse>>
  BY <1>3 DEF UnexcusedInv, WrittenBut, Lack, Asked
<1> QED
  BY <1>1, <1>2, <1>3

\* A step of the outside that sets excuse by Excused.
LEMMA OutsideStep ==
    ASSUME UnexcusedInv, TypeOK, Excused, UNCHANGED build PROVE UnexcusedInv'
<1>1. at' = at
  BY DEF build
<1>2. CASE at \in {"none", "list"}
  BY <1>1, <1>2, Excusing
<1>3. CASE at \notin {"none", "list"}
  BY <1>3, Excusing DEF Excused
<1> QED
  BY <1>2, <1>3

LEMMA ListStep == ASSUME TypeOK, ListPods PROVE UnexcusedInv'
<1> SUFFICES ASSUME ~excuse' PROVE UnexcusedInv'
  BY DEF UnexcusedInv
<1>1. /\ at' = "hostfile" /\ list' = Runs(cached)
      /\ left' = list' \cap PodsOf("gbase8s")
      /\ UNCHANGED <<want, file, expect>>
  BY StepFacts DEF ListPods, PartOf, env
<1>2. expect = want /\ list' = Asked
  BY Zenon DEF ListPods
<1>3. Asked' = Asked /\ Asked \subseteq Pods
  BY <1>1, AskedPods
<1>4. \A name \in Names : WrittenBut(name, Lack(name))'
  BY <1>1, <1>2, <1>3, StepFacts DEF WrittenBut, Lack, PartOf
<1> QED
  BY <1>1, <1>2, <1>3, <1>4 DEF UnexcusedInv

LEMMA WriteStep ==
    ASSUME TypeOK, UnexcusedInv, NEW c \in Pods, Write(c) PROVE UnexcusedInv'
<1>1. CASE excuse'
  BY <1>1 DEF UnexcusedInv
<1>2. CASE ~excuse'
  <2>1. /\ c \in Runs(pod) /\ excuse' = excuse
        /\ file' = [file EXCEPT ![c][at] = About(at, expect)]
        /\ UNCHANGED <<want, at, expect, list>>
        /\ at \in Names /\ left' = left \ {c}
    BY <1>2, Zenon DEF Write, Written
  <2>2. ~excuse
    BY <1>2, <2>1
  <2>3. /\ expect = want /\ list = Asked
        /\ \A name \in Names : WrittenBut(name, Lack(name))
    BY <2>1, <2>2, StepFacts DEF UnexcusedInv
  <2>4. Asked' = Asked
    BY <2>1, AskedPods
  <2>5. \A name \in Names, d \in Pods :
          file'[d][name] = IF d = c /\ name = at THEN About(at, want)
                           ELSE file[d][name]
    BY <2>1, <2>3 DEF TypeOK
  <2>6. \A name \in Names :
          Lack(name)' = IF name = at THEN left \ {c} ELSE Lack(name)
    BY <2>1, StepFacts DEF Lack
  <2>7. Lack(at) = left
    BY <2>1, StepFacts DEF Lack
  <2>8. ASSUME NEW name \in Names PROVE WrittenBut(name, Lack(name))'
    <3> SUFFICES ASSUME NEW d \in (Asked \cap PodsOf(PartOf(name))) \ Lack(name)'
                 PROVE  file'[d][name] = About(name, want)
      BY <2>1, <2>4 DEF WrittenBut
    <3>1. d \in Pods
      BY AskedPods
    <3>2. CASE d = c /\ name = at
      BY <2>5, <3>1, <3>2
    <3>3. CASE ~(d = c /\ name = at)
      <4>1. d \notin Lack(name)
        BY <2>6, <2>7, <3>3
      <4> QED
        BY <2>3, <2>5, <3>1, <3>3, <4>1 DEF WrittenBut
    <3> QED
      BY <3>2, <3>3
  <2> QED
    BY <2>1, <2>3, <2>4, <2>8, StepFacts DEF UnexcusedInv
<1> QED
  BY <1>1, <1>2

LEMMA NextFileStep ==
    ASSUME TypeOK, UnexcusedInv, NextFile PROVE UnexcusedInv'
<1> SUFFICES ASSUME ~excuse' PROVE UnexcusedInv'
  BY DEF UnexcusedInv
<1>1. /\ at \in Names /\ left = {} /\ UNCHANGED <<want, file>>
      /\ excuse' = excuse
      /\ \/ /\ Follows(at, at') /\ left' = list \cap PodsOf(PartOf(at'))
            /\ expect' = expect /\ list' = list
         \/ /\ at' = "signal" /\ \A b \in Names : ~Follows(at, b)
  BY Zenon DEF NextFile, ReturnTo, env
<1>2. ~excuse
  BY <1>1
<1>3. /\ expect = want /\ list = Asked
      /\ \A name \in Names : WrittenBut(name, Lack(name))
  BY <1>1, <1>2, StepFacts DEF UnexcusedInv
<1>4. Asked' = Asked /\ Asked \subseteq Pods
  BY <1>1, AskedPods
<1>5. ASSUME NEW name \in Names
      PROVE  \/ Lack(name) \subseteq Lack(name)'
             \/ Asked \cap PodsOf(PartOf(name)) \subseteq Lack(name)'
  BY <1>1, <1>3, <1>4, StepFacts DEF Lack
<1>6. ASSUME NEW name \in Names PROVE WrittenBut(name, Lack(name))'
  BY <1>1, <1>3, <1>4, <1>5 DEF WrittenBut
<1>7. at' # "signal" => expect' = want' /\ list' = Asked'
  BY <1>1, <1>3, <1>4
<1> QED
  BY <1>6, <1>7 DEF UnexcusedInv

LEMMA FilesStep == FilesInv /\ [Next]_vars => FilesInv'
<1> SUFFICES ASSUME TypeOK, UnexcusedInv, [Next]_vars PROVE UnexcusedInv'
  BY StepTyped DEF FilesInv
<1>1. CASE Begin \/ BuildFails \/ Signal
  <2>1. at' \in {"none", "list"}
    BY <1>1 DEF Begin, BuildFails, Signal, ReturnTo
  <2> QED
    BY <2>1, Excusing
<1>2. CASE NotBuilt
  <2>1. excuse' = TRUE
    BY <1>2 DEF NotBuilt
  <2> QED
    BY <2>1, Excusing
<1>3. CASE ListPods
  BY <1>3, ListStep
<1>4. CASE \E c \in Pods : Write(c)
  BY <1>4, WriteStep
<1>5. CASE NextFile
  BY <1>5, NextFileStep
<1>6. CASE \/ TakeActive \/ Gbase8sDone \/ Gbase8sFails
           \/ CmTick \/ CmLoop \/ Sync
           \/ \E c \in Pods : CmEnds(c)
           \/ UNCHANGED vars
  <2>1. UNCHANGED <<want, file, at, expect, list, left, excuse>>
    BY <1>6 DEF TakeActive, Gbase8sDone, Gbase8sFails, CmTick, CmBegins,
       CmCannotBegin, CmLoop, CmPod, CmDone, Sync, CmEnds, vars, env, build
  <2> QED
    BY <2>1, Excusing
<1>7. CASE \/ Change
           \/ \E c \in Pods : \/ PodCreated(c) \/ PodStarts(c)
                              \/ ScaledDown(c) \/ PodFails(c)
  <2>1. Excused /\ UNCHANGED build
    BY <1>7 DEF Change, PodCreated, PodStarts, ScaledDown, PodFails, Enter
  <2> QED
    BY <2>1, OutsideStep
<1> QED
  BY <1>1, <1>2, <1>3, <1>4, <1>5, <1>6, <1>7 DEF Next, Build, Kubernetes

LEMMA InitFiles == Init => FilesInv
<1>1. Init => at = "none"
  BY DEF Init
<1> QED
  BY <1>1, InitTyped, StepFacts DEF FilesInv, UnexcusedInv

\* The signal of UpdateCluster comes after the files: when BuildCluster returns
\* they are right in every pod, unless a write failed, a pod was not running, or
\* pods or resource changed since it listed them.
THEOREM FilesBeforeSignal == Spec => []SignalAfterFiles
<1>1. FilesInv => SignalAfterFiles
  BY DEF FilesInv, UnexcusedInv, SignalAfterFiles, FilesRight, WrittenBut, Lack
<1> QED
  BY <1>1, InitFiles, FilesStep, PTL DEF Spec
=============================================================================
