--------------------------- MODULE MirrorHistory ---------------------------
(***************************************************************************)
(* CalendarSync with a history variable for the question whether every     *)
(* meeting ends up on the destination calendar.  The engine goes by what a *)
(* row says, destination_event_id and destination_synced_at, and never     *)
(* looks at the event.  In three ways the two come apart, and no later     *)
(* pass mends it: the history remembers which rows that has happened to.   *)
(***************************************************************************)
EXTENDS CalendarSync

VARIABLE parted   \* rows that claim more than their event holds

\* The row says it is synced; the event it names is gone, or holds an older version.
Behind(p) ==
  /\ Active(p) /\ mapping[p].dest # None
  /\ ~Live(mapping[p].dest) \/ event[mapping[p].dest].version < mapping[p].synced

\* CREATE attaches a row to a co-attendee's event and records the row's version
\* without writing it, or the upsert revives a cancelled row with its old event.
TakesOver(p) == Behind(p)' /\ (~Active(p) \/ mapping'[p].dest # mapping[p].dest)

\* UPDATE writes the row of a co-attendee, which holds an older version.
Overwritten(p) ==
  /\ Active(p) /\ mapping[p].dest # None /\ Behind(p)'
  /\ event'[mapping[p].dest].version < event[mapping[p].dest].version

\* CANCEL deletes the event; until MarkCancelled, or for good if the call fails or
\* the worker dies first, the row names it still.
LosesEvent(p) == event' # event /\ \E w \in Workers : pc[w] = "delete" /\ CurRow(w) = p

\* The row gives its event up, or its next version is written.
Mended(p) == ~Active(p)' \/ mapping'[p].synced # mapping[p].synced

Record ==
  parted' = {p \in Pairs : \/ TakesOver(p) \/ Overwritten(p) \/ LosesEvent(p)
                           \/ p \in parted /\ ~Mended(p)}

mirrorVars == <<vars, parted>>

MirrorInit == Init /\ parted = {}

\* Service with the history, its disjuncts side by side for TLC to count each of them.
Recorded(A) == A /\ Record

RecordedWork(w) ==
  \/ Recorded(StartRun(w)) \/ Recorded(NextEmployee(w)) \/ Recorded(EndRun(w))
  \/ Recorded(Discover(w)) \/ Recorded(ScanFails(w)) \/ Recorded(BeginScan(w))
  \/ Recorded(ListCalendar(w)) \/ Recorded(UpsertMapping(w))
  \/ Recorded(ResolveDestination(w)) \/ Recorded(SkipUntimed(w))
  \/ Recorded(LookupShared(w)) \/ Recorded(InsertEvent(w)) \/ Recorded(InsertFails(w))
  \/ Recorded(MarkCreated(w)) \/ Recorded(CreateDone(w)) \/ Recorded(UpdateEvent(w))
  \/ Recorded(MarkUpdated(w)) \/ Recorded(UpdateDone(w)) \/ Recorded(CheckShared(w))
  \/ Recorded(DeleteEvent(w)) \/ Recorded(DeleteFails(w)) \/ Recorded(MarkCancelled(w))
  \/ Recorded(CancelDone(w))

RecordedService ==
  \/ Recorded(Quieten) \/ Recorded(Purge)
  \/ \E e \in Employees :
       \/ Recorded(Deauthorize(e)) \/ Recorded(Authorize(e))
       \/ \E s \in SourceIds : Recorded(Appear(e, s)) \/ Recorded(Disappear(e, s))
  \/ \E s \in SourceIds : Recorded(Edit(s))
  \/ \E w \in Workers :
       RecordedWork(w) \/ Recorded(Abort(w) \/ Crash(w))

\* main never leaves its sync loop: a worker that can go on does.  Liveness is about
\* the service left to itself, for an operator can take a new event away.
MirrorSpec ==
  /\ MirrorInit
  /\ [][RecordedService]_mirrorVars
  /\ \A w \in Workers : WF_mirrorVars(RecordedWork(w))

-----------------------------------------------------------------------------
(* Properties.                                                             *)

\* e's calendar shows s, and the worker may read that calendar.
Wanted(p) ==
  /\ p \in listed /\ p[1] \in authorized
  /\ calendars[p[1]][CalendarOf[p[2]]] # "disabled"
  /\ invitation[p[2]].key # NoTime

Mirrored(p) ==
  /\ Active(p) /\ mapping[p].dest # None /\ Live(mapping[p].dest)
  /\ event[mapping[p].dest].version = invitation[p[2]].version

\* Once nothing changes or fails any more, every qualifying meeting is on the
\* destination calendar in its current version (the retries of CREATE and UPDATE),
\* unless its row has come apart from its event in one of the three ways.
EventuallyMirrored ==
  <>[](quiet /\ IdsLeft) =>
    <>[](\A p \in Pairs : Wanted(p) /\ p \notin parted => Mirrored(p))

=============================================================================
