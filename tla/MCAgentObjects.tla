-------------------------- MODULE MCAgentObjects --------------------------
(* Instances of AgentObjects for TLC. *)
EXTENDS AgentObjects

CONSTANTS r1, r2, g1, n1, s1, s2

\* Specs that differ in the role, in the setup and in what they give access to.
MCSpecs ==
    {[role |-> r1, repos |-> {}, spaces |-> {n1}, setup |-> s1],
     [role |-> r1, repos |-> {g1}, spaces |-> {n1}, setup |-> s2],
     [role |-> r2, repos |-> {g1}, spaces |-> {}, setup |-> s1]}
=============================================================================
