--------------------------- MODULE MCAgentSession ---------------------------
(***************************************************************************)
(* Small instances of AgentSession for TLC.                                *)
(***************************************************************************)
EXTENDS AgentSession, TLC

\* Apps, tokens and ids are only compared for equality.
Symmetry == Permutations(Tokens) \cup Permutations(ConvIds) \cup Permutations(AgentIds) \cup Permutations(Apps)

=============================================================================
