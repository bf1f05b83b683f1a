---------------------------- MODULE SyncHistory ----------------------------
(***************************************************************************)
(* CalendarSync with two history variables: what a pass of the worker had  *)
(* no chance to see, and what it failed to read.  The rows themselves do   *)
(* not say why they were cancelled, last_seen_at only says that this pass  *)
(* did not see them; the history says whether it had a reason.             *)
(***************************************************************************)
EXTENDS CalendarSync

VARIABLES
  hidden,   \* [Workers -> SUBSET Pairs]: meetings that were gone
  unread    \* [Workers -> SUBSET Pairs]: meetings of a calendar that could not be read

\* What a scan has to find: listed, in a calendar no administrator has disabled.
Visible == {p \in listed : calendars[p[1]][CalendarOf[p[2]]] # "disabled"}
Hidden  == Pairs \ Visible

\* The step of w leaves a calendar behind without the meetings listed there.
Skipped(w) ==
  {p \in listed : /\ pc[w] = "list" /\ pc'[w] = "list" /\ p[1] = emp[w]
                  /\ CalendarOf[p[2]] \in cals[w] \ cals'[w]
                  /\ \A m \in todo'[w] : m.src # p[2]}

HistoryInit ==
  /\ Init
  /\ hidden = [w \in Workers |-> Hidden]
  /\ unread = [w \in Workers |-> {}]

\* The pairs hidden at some moment since w took up its employee, and those it
\* missed in a calendar it could not read.
Record ==
  /\ hidden' = [w \in Workers |->
       IF pc[w] = "next" THEN Hidden' ELSE hidden[w] \cup Hidden']
  /\ unread' = [w \in Workers |->
       IF pc[w] = "next" THEN {} ELSE unread[w] \cup Skipped(w)]

HistoryNext == Next /\ Record

historyVars == <<vars, hidden, unread>>
HistorySpec == HistoryInit /\ [][HistoryNext]_historyVars

Unseen(w) == hidden[w] \cup unread[w]

-----------------------------------------------------------------------------
(* Properties.                                                             *)

\* A mapping is cancelled only if its meeting was gone from the attendee's
\* calendar, or the calendar disabled, at some moment of the pass that cancels
\* it, or else its calendar could not be read: scanStart lies before the scan, and
\* what the scan finds it marks as seen (SyncEmployee, Scan, ListToCancel).
CancelledOnlyIfUnseen ==
  [][\A p \in Pairs : Active(p) /\ mapping'[p].state # "active" =>
       \E w \in Workers : p \in Unseen(w)]_historyVars

\* The worker deletes an event only if that is so for every active mapping that
\* points to it, whichever attendee's: DestinationShared keeps the event for the
\* others, and no answer the deletion rests on is out of date by then.
RemovedOnlyIfUnseen ==
  [][\A d \in EventIds : Live(d) /\ event'[d].state = "deleted" /\ UNCHANGED doomed =>
       \E w \in Workers : Refs(d) \subseteq Unseen(w)]_historyVars

\* What migration 0003_sync_state says a stale last_seen_at means: the event was
\* cancelled at the source.  Then no event is deleted whose meeting every calendar
\* still shows, whatever the worker could or could not read of it.
RemovedOnlyIfWithdrawn ==
  [][\A d \in EventIds : Live(d) /\ event'[d].state = "deleted" /\ UNCHANGED doomed =>
       \E w \in Workers : Refs(d) \subseteq hidden[w]]_historyVars

=============================================================================
