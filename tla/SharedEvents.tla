---------------------------- MODULE SharedEvents ----------------------------
(***************************************************************************)
(* What the bridge promises about the events of the destination calendar:  *)
(* an event is there for everybody who attends the meeting, from the       *)
(* moment it is inserted until the last of them lets go of it, and then it *)
(* is gone for good.  CalendarSync implements this with rows, queries and  *)
(* calls that may fail.                                                    *)
(***************************************************************************)
CONSTANTS Attendances, Ids

VARIABLES
  phase,     \* of each event: "unused", "live" or "deleted"
  holders    \* of each event: the attendances it is kept for

sharedVars == <<phase, holders>>

SharedInit ==
  /\ phase = [d \in Ids |-> "unused"]
  /\ holders = [d \in Ids |-> {}]

\* Somebody needs an event there is none of.
Create(d) ==
  /\ phase[d] = "unused"
  /\ phase' = [phase EXCEPT ![d] = "live"]
  /\ UNCHANGED holders

\* An attendance holds at most one event, be it one that is gone: the row of a
\* meeting that comes back still names the event it had.
Hold(a, d) ==
  /\ phase[d] # "unused"
  /\ \A c \in Ids : a \notin holders[c]
  /\ holders' = [holders EXCEPT ![d] = @ \cup {a}]
  /\ UNCHANGED phase

\* Nobody else holds what is removed.
Remove(d) ==
  /\ phase[d] = "live"
  /\ \A a, b \in holders[d] : a = b
  /\ phase' = [phase EXCEPT ![d] = "deleted"]
  /\ UNCHANGED holders

\* The last to let go sees to it that the event is gone.
LetGo(a, d) ==
  /\ a \in holders[d]
  /\ phase[d] = "live" => holders[d] # {a}
  /\ holders' = [holders EXCEPT ![d] = @ \ {a}]
  /\ UNCHANGED phase

SharedNext ==
  \E d \in Ids : Create(d) \/ Remove(d) \/ \E a \in Attendances : Hold(a, d) \/ LetGo(a, d)

SharedSpec == SharedInit /\ [][SharedNext]_sharedVars

=============================================================================
