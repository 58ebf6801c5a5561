-------------------------- MODULE MCAgentIngestion --------------------------
(* Instances of AgentIngestion for TLC.                                    *)
EXTENDS AgentIngestion, TLC

Symmetry == Permutations(Agents) \cup Permutations(Files)
              \cup Permutations(Lists) \cup Permutations(Tasks)
=============================================================================
