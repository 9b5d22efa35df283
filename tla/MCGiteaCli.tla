----------------------------- MODULE MCGiteaCli -----------------------------
(* Instances of GiteaCli for TLC. *)
EXTENDS GiteaCli, TLC

CONSTANTS dev1, dev2, pm, developer, manager

\* Two agents have one role, the third another.
RoleUser == dev1 :> developer @@ dev2 :> developer @@ pm :> manager

\* The agents of a role are interchangeable.
AgentSymmetry == Permutations({dev1, dev2})
=============================================================================
