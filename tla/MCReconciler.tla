---------------------------- MODULE MCReconciler ----------------------------
(* The instances of Reconciler that TLC checks.                            *)
EXTENDS Reconciler

\* The databases alone, without listed nodes, with 0, 1 or 2 replicas.
OnePart == {"gbase8s"}
NoNodes == [p \in Parts |-> 0]
AnySize == [Parts -> 0..2]

\* Databases on one listed node and connection managers, one replica each.
BothParts == {"gbase8s", "cm"}
DatabaseNode == [p \in Parts |-> IF p = "gbase8s" THEN 1 ELSE 0]
OneReplica == [Parts -> {1}]
=============================================================================
