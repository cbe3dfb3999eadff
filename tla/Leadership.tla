----------------------------- MODULE Leadership -----------------------------
(***************************************************************************)
(* What the operator promises to a database cluster: which node leads,     *)
(* and how nodes change their roles. Only a node that is the leader's own  *)
(* replica is promoted in its place, data are copied from the leader only, *)
(* and the leader's are never overwritten. ClusterThread implements this   *)
(* with probes, tickers and commands that may fail half way.               *)
(***************************************************************************)

CONSTANTS
    Pods,   \* the nodes
    NoPod   \* no node

VARIABLES
    leader,  \* the node the operator follows, or NoPod
    role,    \* the server type of each node
    from     \* the node each replica has its data from

vars == <<leader, role, from>>

Init ==
    /\ leader = NoPod
    /\ role = [p \in Pods |-> "Standard"]
    /\ from = [p \in Pods |-> NoPod]

\* p is made a primary: the leader, or any node as long as none leads.
Lead(p) ==
    /\ leader \in {NoPod, p} /\ role[p] # "RSS"
    /\ role' = [role EXCEPT ![p] = "Primary"]
    /\ UNCHANGED <<leader, from>>

\* q is made a replica of p, whose data it takes.
Copy(q, p) ==
    /\ q # p /\ leader \in {NoPod, p} /\ role[p] = "Primary"
    /\ role' = [role EXCEPT ![q] = "RSS"]
    /\ from' = [from EXCEPT ![q] = p]
    /\ UNCHANGED leader

\* A replica of the leader takes its place. If the answer is lost, the operator
\* goes on with the old leader.
Promote(v) ==
    /\ leader # NoPod /\ role[v] = "RSS" /\ from[v] = leader
    /\ role' = [role EXCEPT ![v] = "Primary"]
    /\ from' = [from EXCEPT ![v] = NoPod]
    /\ leader' \in {leader, v}

\* The operator takes a primary it finds for the leader.
Recognise(p) ==
    /\ leader = NoPod /\ role[p] = "Primary"
    /\ leader' = p
    /\ UNCHANGED <<role, from>>

\* The operator is replaced.
Forget ==
    /\ leader' = NoPod
    /\ UNCHANGED <<role, from>>

Next ==
    \/ \E p \in Pods : \/ Lead(p)
                       \/ \E q \in Pods : Copy(q, p)
                       \/ Promote(p)
                       \/ Recognise(p)
    \/ Forget

Spec == Init /\ [][Next]_vars

TypeOK ==
    /\ leader \in Pods \cup {NoPod}
    /\ role \in [Pods -> {"Standard", "Primary", "RSS"}]
    /\ from \in [Pods -> Pods \cup {NoPod}]
=============================================================================
