-------------------------- MODULE MCAgentTaskQueue --------------------------
(***************************************************************************)
(* Instances of AgentTaskQueue for TLC.                                    *)
(***************************************************************************)
EXTENDS AgentTaskQueue, TLC

CONSTANTS a1, a2, s1, s2

\* Two agents of two sessions, and one agent of one session.
Apart == (a1 :> s1) @@ (a2 :> s2)
Alone == a1 :> s1

TaskSymmetry == Permutations(Tasks) \cup Permutations(Workers)
=============================================================================
