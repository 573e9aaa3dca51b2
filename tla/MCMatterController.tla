-------------------------- MODULE MCMatterController --------------------------
(* MatterController for TLC: the tasks the configurations choose.           *)
EXTENDS MatterController, TLC

AllTasks == {"writer", "loop", "timer"}

\* RainMaker's task and the event loop's, without the renewal of the token.
WriterAndLoop == {"writer", "loop"}

\* Tokens, groups and keys are only compared for equality.
Symmetry == Permutations(Tokens) \cup Permutations(Groups) \cup Permutations(Keys)

=============================================================================
