-------------------------- MODULE MCClusterThread --------------------------
(* The instances of ClusterThread that TLC checks: how often each kind of  *)
(* fault may happen in one behaviour. A kind not named does not happen.    *)
EXTENDS ClusterThread

Faults(f) == [k \in FaultKinds |-> IF k \in DOMAIN f THEN f[k] ELSE 0]

\* Pods crash and are evicted, and an answer gets lost.
CrashFaults == Faults([crash |-> 1, evict |-> 1, glitch |-> 1])

\* The operator is replaced, its commands are executed although they seem to
\* fail, the API server fails, and detectingCount changes.
OperatorFaults == Faults([crash |-> 1, glitch |-> 1, lost |-> 1, api |-> 1,
                          restart |-> 1, spec |-> 1])

\* The primary goes down, for good or not, and a failover command may fail on
\* its node.
FailoverFaults == Faults([crash |-> 1, glitch |-> 1, stderr |-> 1])

\* A little of everything that a cluster recovers from.
RecoveryFaults == Faults([crash |-> 1, evict |-> 1, lost |-> 1, restart |-> 1])

\* A failover command that fails half way, and a restart after a failover.
StderrFaults  == Faults([crash |-> 1, stderr |-> 1])
RestartFaults == Faults([crash |-> 1, restart |-> 1])
NoFaults      == Faults(<<>>)
=============================================================================
