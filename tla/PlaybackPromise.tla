-------------------------- MODULE PlaybackPromise --------------------------
(***************************************************************************)
(* What the speaker promises the device state machine: speech is accepted  *)
(* and played; asked to report the end of a playback, the speaker reports  *)
(* it once everything it had accepted when it turned to the request has    *)
(* been played, and it does report it, as long as it is not broken.        *)
(* DeviceFSM relies on it: a speaking device has stopped its sleep timer   *)
(* and waits for the report.                                               *)
(***************************************************************************)
EXTENDS Naturals

CONSTANT Capacity  \* blocks of speech the speaker holds, a positive number

VARIABLES
    unplayed,  \* blocks accepted and not played
    asked,     \* a report is asked for; requests that wait are one
    serving,   \* the speaker has turned to a request
    due,       \* blocks still to be played before its report
    broken     \* nothing will be played any more

vars == <<unplayed, asked, serving, due, broken>>

Init == unplayed = 0 /\ asked = FALSE /\ serving = FALSE /\ due = 0 /\ broken = FALSE

Accept ==
    /\ unplayed < Capacity /\ unplayed' = unplayed + 1
    /\ UNCHANGED <<asked, serving, due, broken>>

Play ==
    /\ ~broken
    /\ unplayed > 0 /\ unplayed' = unplayed - 1
    /\ due' = IF due = 0 THEN 0 ELSE due - 1
    /\ UNCHANGED <<asked, serving, broken>>

Ask == asked' = TRUE /\ UNCHANGED <<unplayed, serving, due, broken>>

Serve ==
    /\ asked /\ ~serving
    /\ asked' = FALSE /\ serving' = TRUE /\ due' = unplayed
    /\ UNCHANGED <<unplayed, broken>>

Report ==
    /\ serving /\ due = 0
    /\ serving' = FALSE
    /\ UNCHANGED <<unplayed, asked, due, broken>>

Break == broken' = TRUE /\ UNCHANGED <<unplayed, asked, serving, due>>

Next == Accept \/ Play \/ Ask \/ Serve \/ Report \/ Break

Spec == Init /\ [][Next]_vars

\* A report may also wait for speech accepted after its request, and with it
\* for ever once the speaker is broken.
FairSpec == Spec /\ WF_vars(Play) /\ WF_vars(Serve) /\ WF_vars(~broken /\ Report)

=============================================================================
