----------------------------- MODULE MCPodFiles -----------------------------
(* The instance of PodFiles that TLC checks: one or two databases with two *)
(* connection managers.                                                    *)
EXTENDS PodFiles

TwoManagers == {w \in [Parts -> 1..2] : w["cm"] = 2}
=============================================================================
