-------------------------- MODULE MCMirrorHistory --------------------------
(* The instances of MCCalendarSync with the history of MirrorHistory.      *)
EXTENDS MirrorHistory, MCCalendarSync

=============================================================================
