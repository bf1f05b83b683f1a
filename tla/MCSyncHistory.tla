--------------------------- MODULE MCSyncHistory ---------------------------
(* The instances of MCCalendarSync with the history of SyncHistory.        *)
EXTENDS SyncHistory, MCCalendarSync

-----------------------------------------------------------------------------
\* HistoryNext with its disjuncts side by side, for TLC to count each of them.
Recorded(A) == A /\ Record

RecordedWork(w) ==
  \/ Recorded(StartRun(w)) \/ Recorded(NextEmployee(w)) \/ Recorded(EndRun(w))
  \/ Recorded(Discover(w)) \/ Recorded(ScanFails(w)) \/ Recorded(BeginScan(w))
  \/ Recorded(ListCalendar(w)) \/ Recorded(UpsertMapping(w))
  \/ Recorded(ResolveDestination(w)) \/ Recorded(SkipUntimed(w))
  \/ Recorded(LookupShared(w)) \/ Recorded(InsertEvent(w)) \/ Recorded(InsertFails(w))
  \/ Recorded(MarkCreated(w)) \/ Recorded(CreateDone(w)) \/ Recorded(UpdateEvent(w))
  \/ Recorded(MarkUpdated(w)) \/ Recorded(UpdateDone(w)) \/ Recorded(CheckShared(w))
  \/ Recorded(DeleteEvent(w)) \/ Recorded(DeleteFails(w)) \/ Recorded(MarkCancelled(w))
  \/ Recorded(CancelDone(w)) \/ Recorded(Abort(w)) \/ Recorded(Crash(w))

RecordedNext ==
  \/ Recorded(Quieten) \/ Recorded(Purge)
  \/ \E e \in Employees :
       \/ Recorded(Deauthorize(e)) \/ Recorded(Authorize(e))
       \/ \E s \in SourceIds : Recorded(Appear(e, s)) \/ Recorded(Disappear(e, s))
       \/ \E c \in Calendars : Recorded(SetCalendarEnabled(e, c))
  \/ \E s \in SourceIds : Recorded(Edit(s))
  \/ \E w \in Workers : RecordedWork(w)
  \/ Recorded(PruneReadActive) \/ Recorded(PruneList)
  \/ Recorded(PruneDelete) \/ Recorded(PruneEnd)

RecordedSpec == HistoryInit /\ [][RecordedNext]_historyVars

=============================================================================
