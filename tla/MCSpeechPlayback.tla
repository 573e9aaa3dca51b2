-------------------------- MODULE MCSpeechPlayback --------------------------
(* SpeechPlayback for TLC: how often things happen.                         *)
EXTENDS SpeechPlayback

SmallBudget == [responses |-> 2, blocks |-> 3, users |-> 1, failures |-> 1]

TinyBudget == [responses |-> 1, blocks |-> 1, users |-> 0, failures |-> 1]

=============================================================================
