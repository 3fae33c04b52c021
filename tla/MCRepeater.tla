----------------------------- MODULE MCRepeater -----------------------------
(* Model-checking instance of Repeater: every mix of configured events. *)
EXTENDS Repeater

MCFrequencies == {-1, 0, 4}
MCCounters == {-1, 1}

(* Three events: enough for one to connect, one to kill and one to suffer. *)
MCFewKinds == {"connect", "kill_connection", "session"}
MCFewFrequencies == {-1, 2}
MCFewCounters == {-1}
=============================================================================
