---------------------------- MODULE MCAgentSetup ----------------------------
(* AgentSetup for TLC: the sources of credentials the configurations choose. *)
EXTENDS AgentSetup

Console == {"console"}

ConsoleAndRainMaker == {"console", "rainmaker"}

=============================================================================
