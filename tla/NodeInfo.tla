------------------------------ MODULE NodeInfo ------------------------------
(***************************************************************************)
(* What the operator knows of a database node, and the decisions it takes  *)
(* on that knowledge alone (controllers/NodeInfo.go and the pure helpers   *)
(* of controllers/cluster_manager.go).                                     *)
(*                                                                         *)
(* A database cluster is a function d from pods to records:                *)
(*   status  "down" (no shared memory, or no container), "starting"        *)
(*           (initialisation or fast recovery), "online";                  *)
(*   type    the server type the node keeps on disk;                       *)
(*   src     the server an RSS node replicates from;                       *)
(*   subs    the servers registered on it with `onmode -d add RSS`.        *)
(* A server's name is its pod's name with '-' replaced by '_', which is    *)
(* injective on Kubernetes names, so one identity stands for both.         *)
(***************************************************************************)
EXTENDS Integers, FiniteSets

CONSTANTS
    Pods,   \* the pods of the StatefulSet, numbered in the order of their names
    NoPod   \* no pod: a nil pointer, an empty server name

ASSUME PodsAssumption ==
    /\ Pods \subseteq Nat /\ IsFiniteSet(Pods)
    /\ NoPod \notin Pods

Standard == "Standard"
Primary  == "Primary"
RSS      == "RSS"
Unknown  == ""

NodeState ==
    [status : {"down", "starting", "online"},
     type   : {Standard, Primary, RSS},
     src    : Pods \cup {NoPod},
     subs   : SUBSET Pods]

Online(d, p) == d[p].status = "online"
Down(d, p)   == d[p].status = "down"

----------------------------------------------------------------------------
(* The database server, as the operator's commands and parser use it.      *)

\* q is an RSS node whose replication from p is established.
Linked(d, q, p) ==
    /\ Online(d, q) /\ d[q].type = RSS /\ d[q].src = p
    /\ Online(d, p) /\ d[p].type = Primary /\ q \in d[p].subs

\* `onstat -g rss verbose` prints "Connected" somewhere in its answer.
ShowsConnected(d, p) ==
    \/ d[p].type = RSS /\ d[p].src \in Pods /\ Linked(d, p, d[p].src)
    \/ d[p].type = Primary /\ \E q \in d[p].subs : Linked(d, q, p)

\* ParseNodeInfo of that answer. A node that is not on line yet prints its
\* banner only, so the type, the source and the RSS list stay empty.
ParseNodeInfo(d, p) ==
    IF Online(d, p)
    THEN [pod |-> p, status |-> d[p].status, type |-> d[p].type,
          source |-> d[p].src, connected |-> ShowsConnected(d, p),
          sub |-> d[p].subs]
    ELSE [pod |-> p, status |-> d[p].status, type |-> Unknown,
          source |-> NoPod, connected |-> FALSE, sub |-> {}]

\* The nodes parsed from the answers of the pods A.
RssStatus(d, A) == {ParseNodeInfo(d, p) : p \in A}

\* `onmode -d add RSS s` for every s of S, run on p.
AddRss(d, p, S) ==
    [d EXCEPT ![p] = [@ EXCEPT !.type = Primary,
                         !.subs = d[p].subs \cup S]]

\* `onmode -d standard`, run on p.
SetStandard(d, p) ==
    [d EXCEPT ![p] = [@ EXCEPT !.type = Standard, !.src = NoPod, !.subs = {}]]

\* `curl -o tape ... && sh /recover.sh tape && onmode -d RSS p`, run on q.
SetRss(d, q, p) ==
    [d EXCEPT ![q] = [@ EXCEPT !.type = RSS, !.src = p, !.subs = {}]]

CanAddRss(d, p)    == Online(d, p) /\ d[p].type # RSS
CanSetRss(d, q, p) == ~Down(d, q) /\ Online(d, p) /\ q \in d[p].subs

----------------------------------------------------------------------------
(* Decisions over a set of parsed nodes.                                   *)

\* A node in this status makes the forming cluster wait.
NeedsWait(n) == n.status # "online"

IsGbase8sClusterNormal(nodes) == \A n \in nodes : n.connected

Primaries(nodes) == {n \in nodes : n.type = Primary}
Standards(nodes) == {n \in nodes : n.type \notin {Primary, RSS}}

\* The nodes findRealGbase8sPrimary may return when the thread holds no
\* primary yet. Pod lists come from the informer cache in no fixed order, so
\* "the first" of several is any of them; {} is the error.
RealPrimaries(nodes) ==
    LET connected == {n \in Primaries(nodes) : n.connected}
    IN  IF connected # {} THEN connected
        ELSE IF nodes # {} /\ Standards(nodes) = nodes
             THEN {n \in nodes : \A m \in nodes : n.pod <= m.pod}
             ELSE Primaries(nodes)
=============================================================================
