---------------------------- MODULE MCDeviceFSM ----------------------------
(* DeviceFSM for TLC: the sets of inputs the configurations choose from.    *)
EXTENDS DeviceFSM

WakeWord == {"wake"}

\* The wake word, with responses of the server.
Talking == {"wake", "speech"}

\* Responses and reminders, with the touch that may end one early.
Dialogue == {"wake", "touch", "speech", "reminder"}

\* Every way to wake the device and to put it to sleep, without responses.
Waking == {"wake", "sleep", "touch", "error"}

\* State constraint: nothing happens after the agent's stream was broken.
Unbroken == broken = {}

=============================================================================
