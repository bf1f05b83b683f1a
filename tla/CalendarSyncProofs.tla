------------------------- MODULE CalendarSyncProofs -------------------------
(* Theorems about CalendarSync, for every value of its constants.           *)
EXTENDS CalendarSync, TLAPS

-----------------------------------------------------------------------------
(* Type correctness.                                                        *)

\* A row read by a query is a pending event.
LEMMA PendingOfType ==
  ASSUME TypeOK, NEW p \in Pairs
  PROVE  PendingOf(p) \in Pending
BY DEF TypeOK, PendingOf, Pending, Pairs, Row

\* The three work lists of a pass hold pending events.
LEMMA ListsType ==
  ASSUME TypeOK, NEW e \in Employees, NEW w \in Workers
  PROVE  /\ ToCreate(e) \subseteq Pending
         /\ ToUpdate(e) \subseteq Pending
         /\ ToCancel(e, w) \subseteq Pending
BY PendingOfType DEF ToCreate, ToUpdate, ToCancel, RowsOf, Pairs

\* A worker past "next" has an employee, and one between a loop's decision and its
\* effect has a pending event in hand.
WorkerOK(w) ==
  /\ pc[w] \notin {"idle", "next"} => emp[w] \in Employees
  /\ pc[w] \in {"insert", "mark_created", "mark_updated", "delete", "mark_cancelled"}
       => cur[w] \in Pending

TypeInv == TypeOK /\ \A w \in Workers : WorkerOK(w)

\* The empty database and an idle worker are well typed.
LEMMA InitTypeInv == Init => TypeInv
<1> SUFFICES ASSUME Init PROVE TypeInv
  OBVIOUS
<1> USE ConstantsAssumption
<1>1. NoRow \in Row
  BY DEF NoRow, Row, Versions, OptEvent
<1>2. NoCalendarEvent \in Event
  BY DEF NoCalendarEvent, Event
<1>3. quiet \in BOOLEAN
  <2>1. quiet = FALSE
    BY DEF Init
  <2>2. QED
    BY <2>1
<1>4. TypeOK
  BY <1>1, <1>2, <1>3 DEF Init, TypeOK, Versions, Pairs, Stages
<1>5. QED
  BY <1>4 DEF Init, TypeInv, WorkerOK

\* The shared-destination lookup returns ids of events, never NULL.
LEMMA SharedType ==
  ASSUME TypeOK, NEW org, NEW m \in Pending
  PROVE  /\ SharedById(m.src) \subseteq EventIds
         /\ SharedDestinationForMeeting(org, m) \subseteq EventIds
<1>1. ASSUME NEW p \in Pairs, mapping[p].dest # None PROVE mapping[p].dest \in EventIds
  BY <1>1 DEF TypeOK, Row, OptEvent
<1>2. SharedById(m.src) \subseteq EventIds
  BY <1>1 DEF SharedById
<1>3. SharedByKey(org, m.key) \subseteq EventIds
  BY <1>1 DEF SharedByKey
<1>4. QED
  BY <1>2, <1>3 DEF SharedDestinationForMeeting

\* Giving a pending event a destination changes nothing else of it.
LEMMA WithDest ==
  ASSUME NEW m \in Pending, NEW d \in OptEvent
  PROVE  /\ [m EXCEPT !.dest = d] \in Pending
         /\ [m EXCEPT !.dest = d].dest = d
         /\ [m EXCEPT !.dest = d].src = m.src
         /\ [m EXCEPT !.dest = d].updated = m.updated
BY DEF Pending

\* No step of a worker leaves it, or another one, without what its stage needs.
LEMMA StepWorkerOK ==
  ASSUME TypeInv, NEW w \in Workers, NEW v \in Workers,
         Work(w) \/ Abort(w) \/ Crash(w)
  PROVE  WorkerOK(v)'
<1> USE DEF TypeInv, TypeOK, WorkerOK, Stages, engine, Goto
<1>1. CASE StartRun(w)
  BY <1>1 DEF StartRun
<1>2. CASE EndRun(w)
  BY <1>2 DEF EndRun
<1>3. CASE NextEmployee(w)
  BY <1>3 DEF NextEmployee
<1>4. CASE Discover(w)
  BY <1>4 DEF Discover
<1>5. CASE ScanFails(w)
  BY <1>5 DEF ScanFails, EndPass, Unhand
<1>6. CASE BeginScan(w)
  BY <1>6 DEF BeginScan
<1>7. CASE ListCalendar(w)
  BY <1>7 DEF ListCalendar
<1>8. CASE UpsertMapping(w)
  BY <1>8 DEF UpsertMapping, Take
<1>9. CASE ResolveDestination(w)
  BY <1>9 DEF ResolveDestination, EndPass, Unhand
<1>10. CASE SkipUntimed(w)
  BY <1>10 DEF SkipUntimed, Take
<1>11. CASE LookupShared(w)
  <2>1. PICK m \in todo[w] :
          \/ \E d \in SharedDestinationForMeeting(CurOrg(w), m) :
                cur' = [cur EXCEPT ![w] = [m EXCEPT !.dest = d]]
          \/ cur' = [cur EXCEPT ![w] = m]
    BY <1>11 DEF LookupShared
  <2>2. m \in Pending
    BY <2>1
  <2>3. cur'[w] \in Pending
    BY <2>1, <2>2, SharedType, WithDest DEF OptEvent
  <2>4. QED
    BY <1>11, <2>1, <2>3 DEF LookupShared
<1>12. CASE InsertEvent(w)
  <2>1. cur[w] \in Pending
    BY <1>12 DEF InsertEvent
  <2>2. CASE Unhand(w) /\ Goto(w, "create")
    BY <1>12, <2>2 DEF InsertEvent, Unhand
  <2>3. CASE \E d \in Unused : cur' = [cur EXCEPT ![w].dest = d]
    <3>1. cur'[w] \in Pending
      BY <2>1, <2>3, WithDest DEF Unused, OptEvent
    <3>2. QED
      BY <1>12, <2>3, <3>1 DEF InsertEvent
  <2>4. QED
    BY <1>12, <2>2, <2>3 DEF InsertEvent
<1>13. CASE InsertFails(w)
  BY <1>13 DEF InsertFails, Unhand
<1>14. CASE MarkCreated(w)
  BY <1>14 DEF MarkCreated, Unhand, UpdateRow, CurRow
<1>15. CASE CreateDone(w)
  BY <1>15 DEF CreateDone
<1>16. CASE UpdateEvent(w)
  BY <1>16 DEF UpdateEvent, Take
<1>17. CASE MarkUpdated(w)
  BY <1>17 DEF MarkUpdated, Unhand, UpdateRow, CurRow
<1>18. CASE UpdateDone(w)
  BY <1>18 DEF UpdateDone
<1>19. CASE CheckShared(w)
  BY <1>19 DEF CheckShared, Take
<1>20. CASE DeleteEvent(w)
  BY <1>20 DEF DeleteEvent, Unhand
<1>21. CASE DeleteFails(w)
  BY <1>21 DEF DeleteFails, Unhand
<1>22. CASE MarkCancelled(w)
  BY <1>22 DEF MarkCancelled, Unhand, UpdateRow, CurRow
<1>23. CASE CancelDone(w)
  BY <1>23 DEF CancelDone, EndPass, Unhand
<1>24. CASE Abort(w)
  BY <1>24 DEF Abort, EndPass, Unhand
<1>25. CASE Crash(w)
  BY <1>25 DEF Crash, Unhand
<1> QED
  BY <1>1, <1>2, <1>3, <1>4, <1>5, <1>6, <1>7, <1>8, <1>9, <1>10, <1>11, <1>12, <1>13, <1>14,
     <1>15, <1>16, <1>17, <1>18, <1>19, <1>20, <1>21, <1>22, <1>23, <1>24, <1>25 DEF Work

\* The changes the engine makes to a row leave a row.
LEMMA RowSteps ==
  ASSUME ConstantsAssumption, NEW r \in Row, NEW w, NEW m \in Pending
  PROVE  /\ [r EXCEPT !.seen = @ \ {w}] \in Row
         /\ [r EXCEPT !.state = "active", !.key = m.key, !.updated = m.updated,
                      !.seen = Workers] \in Row
         /\ [r EXCEPT !.dest = m.dest, !.synced = m.updated] \in Row
         /\ [r EXCEPT !.synced = m.updated] \in Row
         /\ [r EXCEPT !.state = "cancelled"] \in Row
<1> m.key \in Keys /\ m.updated \in Versions /\ m.updated \in 0..MaxVersion /\ m.dest \in OptEvent
  BY DEF Pending, Versions, ConstantsAssumption
<1>1. [r EXCEPT !.seen = @ \ {w}] \in Row
  BY DEF Row
<1>2. [r EXCEPT !.state = "active", !.key = m.key, !.updated = m.updated, !.seen = Workers] \in Row
  BY DEF Row
<1>3. [r EXCEPT !.dest = m.dest, !.synced = m.updated] \in Row
  BY DEF Row
<1>4. [r EXCEPT !.synced = m.updated] \in Row
  BY DEF Row
<1>5. [r EXCEPT !.state = "cancelled"] \in Row
  BY DEF Row
<1>6. QED
  BY <1>1, <1>2, <1>3, <1>4, <1>5

\* UPDATE ... WHERE id = $1 keeps event_mappings well typed.
LEMMA UpdateRowType ==
  ASSUME TypeOK, NEW p, NEW row \in Row, UpdateRow(p, row)
  PROVE  mapping' \in [Pairs -> Row]
BY DEF TypeOK, UpdateRow

\* What the destination stores for a pending event of one of the employees.
LEMMA EventSteps ==
  ASSUME ConstantsAssumption, NEW e \in Employees, NEW m \in Pending, NEW x \in Event
  PROVE  /\ [state |-> "live", org |-> OrgOf[e], src |-> m.src, version |-> m.updated] \in Event
         /\ [x EXCEPT !.src = m.src, !.version = m.updated] \in Event
         /\ [x EXCEPT !.state = "deleted"] \in Event
<1> m.src \in SourceIds /\ m.updated \in 0..MaxVersion /\ OrgOf[e] \in Orgs
  BY DEF Pending, Versions, ConstantsAssumption
<1>1. [state |-> "live", org |-> OrgOf[e], src |-> m.src, version |-> m.updated] \in Event
  BY DEF Event
<1>2. [x EXCEPT !.src = m.src, !.version = m.updated] \in Event
  BY DEF Event
<1>3. [x EXCEPT !.state = "deleted"] \in Event
  BY DEF Event
<1>4. QED
  BY <1>1, <1>2, <1>3

\* Every step of the engine, of an abort and of a crash keeps the types.
LEMMA StepTypeOK ==
  ASSUME TypeInv, NEW w \in Workers, Work(w) \/ Abort(w) \/ Crash(w)
  PROVE  TypeOK'
<1> USE ConstantsAssumption DEF TypeInv, TypeOK, WorkerOK, Stages, engine, prune, world, Goto
<1>1. CASE StartRun(w)
  BY <1>1, ListsType DEF StartRun
<1>2. CASE EndRun(w)
  BY <1>2, ListsType DEF EndRun
<1>3. CASE NextEmployee(w)
  <2>1. \A r \in Row : [r EXCEPT !.seen = @ \ {w}] \in Row
    BY DEF Row
  <2>2. PICK e \in queue[w] :
          /\ emp' = [emp EXCEPT ![w] = e]
          /\ queue' = [queue EXCEPT ![w] = @ \ {e}]
          /\ mapping' = [p \in Pairs |-> IF p[1] = e
                           THEN [mapping[p] EXCEPT !.seen = @ \ {w}] ELSE mapping[p]]
    BY <1>3 DEF NextEmployee
  <2>3. mapping' \in [Pairs -> Row]
    BY <2>1, <2>2
  <2>4. QED
    BY <1>3, <2>2, <2>3 DEF NextEmployee
<1>4. CASE Discover(w)
  <2> DEFINE States == {"absent", "enabled", "disabled"}
             Switched(stored, row) == [c \in Calendars |->
               IF c \in stored /\ row[c] = "absent" THEN DefaultEnabled(emp[w], c) ELSE row[c]]
  <2>1. PICK stored \in SUBSET Calendars :
          calendars' = [calendars EXCEPT ![emp[w]] = Switched(stored, @)]
    BY <1>4 DEF Discover
  <2>2. \A row \in [Calendars -> States] : Switched(stored, row) \in [Calendars -> States]
    BY DEF DefaultEnabled
  <2> HIDE DEF Switched
  <2>3. calendars' \in [Employees -> [Calendars -> States]]
    BY <2>1, <2>2
  <2>4. QED
    BY <1>4, <2>3 DEF Discover
<1>5. CASE ScanFails(w)
  BY <1>5, ListsType DEF ScanFails, EndPass, Unhand
<1>6. CASE BeginScan(w)
  BY <1>6, ListsType DEF BeginScan
<1>7. CASE ListCalendar(w)
  <2>1. \A s \in SourceIds : [src |-> s, key |-> invitation[s].key,
                             updated |-> invitation[s].version, dest |-> None] \in Pending
    BY DEF Pending, OptEvent
  <2> DEFINE Found(c) == {[src |-> s, key |-> invitation[s].key,
                           updated |-> invitation[s].version, dest |-> None] :
                           s \in {t \in SourceIds : <<emp[w], t>> \in listed
                                                  /\ CalendarOf[t] = c}}
  <2>2. PICK c \in cals[w] :
          /\ cals' = [cals EXCEPT ![w] = @ \ {c}]
          /\ todo' = [todo EXCEPT ![w] = Found(c)] \/ todo' = todo
    BY <1>7 DEF ListCalendar
  <2>3. ASSUME NEW m \in Found(c) PROVE m \in Pending
    <3>1. PICK s \in SourceIds : m = [src |-> s, key |-> invitation[s].key,
                                      updated |-> invitation[s].version, dest |-> None]
      OBVIOUS
    <3>2. QED
      BY <2>1, <3>1
  <2> HIDE DEF Found
  <2>4. todo' \in [Workers -> SUBSET Pending] /\ cals' \in [Workers -> SUBSET Calendars]
    BY <2>2, <2>3
  <2>5. QED
    BY <1>7, <2>4 DEF ListCalendar
<1>8. CASE UpsertMapping(w)
  <2>1. PICK m \in todo[w] :
          mapping' = [mapping EXCEPT ![<<emp[w], m.src>>] =
            [@ EXCEPT !.state = "active", !.key = m.key, !.updated = m.updated,
                      !.seen = Workers]]
    BY <1>8 DEF UpsertMapping
  <2>2. m \in Pending
    <3>1. todo[w] \subseteq Pending
      OBVIOUS
    <3>2. QED
      BY <3>1
  <2>3. \A r \in Row : [r EXCEPT !.state = "active", !.key = m.key, !.updated = m.updated,
                                !.seen = Workers] \in Row
    BY <2>2, RowSteps
  <2>4. mapping' \in [Pairs -> Row]
    BY <2>1, <2>3
  <2>5. QED
    BY <1>8, <2>4 DEF UpsertMapping, Take
<1>9. CASE ResolveDestination(w)
  <2>1. emp[w] \in Employees
    BY <1>9 DEF ResolveDestination
  <2>2. CASE EndPass(w)
    BY <1>9, <2>2 DEF ResolveDestination, EndPass, Unhand
  <2>3. CASE /\ Goto(w, "create")
             /\ todo' = [todo EXCEPT ![w] = ToCreate(emp[w])]
             /\ UNCHANGED <<queue, emp, cals, cur>>
    <3>1. ToCreate(emp[w]) \subseteq Pending
      BY <2>1, ListsType
    <3>2. pc' \in [Workers -> Stages] /\ todo' \in [Workers -> SUBSET Pending]
      BY <2>3, <3>1
    <3>3. QED
      BY <1>9, <2>3, <3>2 DEF ResolveDestination
  <2>4. QED
    BY <1>9, <2>2, <2>3 DEF ResolveDestination
<1>10. CASE SkipUntimed(w)
  BY <1>10, ListsType DEF SkipUntimed, Take
<1>11. CASE LookupShared(w)
  <2>1. PICK m \in todo[w] :
          \/ \E d \in SharedDestinationForMeeting(CurOrg(w), m) :
               cur' = [cur EXCEPT ![w] = [m EXCEPT !.dest = d]]
          \/ cur' = [cur EXCEPT ![w] = m]
    BY <1>11 DEF LookupShared
  <2>2. m \in Pending
    BY <2>1
  <2>3. cur' \in [Workers -> Pending \cup {None}]
    <3>1. CASE cur' = [cur EXCEPT ![w] = m]
      BY <2>2, <3>1
    <3>2. ASSUME NEW d \in SharedDestinationForMeeting(CurOrg(w), m),
                 cur' = [cur EXCEPT ![w] = [m EXCEPT !.dest = d]]
          PROVE  cur' \in [Workers -> Pending \cup {None}]
      <4>1. [m EXCEPT !.dest = d] \in Pending
        BY <2>2, SharedType, WithDest DEF OptEvent
      <4>2. QED
        BY <3>2, <4>1
    <3>3. QED
      BY <2>1, <3>1, <3>2
  <2>4. QED
    BY <1>11, <2>3 DEF LookupShared, Take
<1>12. CASE InsertEvent(w)
  <2>1. emp[w] \in Employees /\ cur[w] \in Pending
    BY <1>12 DEF InsertEvent
  <2>2. event' \in [EventIds -> Event]
    <3>1. PICK d \in Unused : event' = [event EXCEPT ![d] = Written(w)]
      BY <1>12 DEF InsertEvent
    <3>2. Written(w) \in Event
      BY <2>1, <3>1, EventSteps DEF Written, CurOrg, Unused
    <3>3. QED
      BY <3>1, <3>2
  <2>3. cur' \in [Workers -> Pending \cup {None}]
    BY <1>12, <2>1, WithDest DEF InsertEvent, Unhand, Unused, OptEvent
  <2>4. pc' \in [Workers -> Stages]
    BY <1>12 DEF InsertEvent
  <2>5. QED
    BY <1>12, <2>2, <2>3, <2>4 DEF InsertEvent
<1>13. CASE InsertFails(w)
  BY <1>13, ListsType DEF InsertFails, Unhand
<1>14. CASE MarkCreated(w)
  <2>1. cur[w] \in Pending /\ CurRow(w) \in Pairs
    BY <1>14 DEF MarkCreated, CurRow, Pairs, Pending
  <2>2. mapping' \in [Pairs -> Row]
    BY <1>14, <2>1, RowSteps, UpdateRowType DEF MarkCreated
  <2>3. QED
    BY <1>14, <2>2 DEF MarkCreated, Unhand
<1>15. CASE CreateDone(w)
  BY <1>15, ListsType DEF CreateDone
<1>16. CASE UpdateEvent(w)
  <2>1. PICK m \in todo[w] :
          /\ \/ event' = [event EXCEPT ![m.dest] = [@ EXCEPT !.src = m.src, !.version = m.updated]]
             \/ event' = event
          /\ \/ cur' = [cur EXCEPT ![w] = m] /\ Goto(w, "mark_updated")
             \/ UNCHANGED <<cur, pc>>
    BY <1>16 DEF UpdateEvent
  <2>2. m \in Pending
    BY <2>1
  <2>3. emp[w] \in Employees
    BY <1>16 DEF UpdateEvent
  <2>4. \A x \in Event : [x EXCEPT !.src = m.src, !.version = m.updated] \in Event
    BY <2>2, <2>3, EventSteps
  <2>5. event' \in [EventIds -> Event]
    <3>1. CASE event' = event
      BY <3>1
    <3>2. CASE event' = [event EXCEPT ![m.dest] = [@ EXCEPT !.src = m.src, !.version = m.updated]]
      BY <2>4, <3>2
    <3>3. QED
      BY <2>1, <3>1, <3>2
  <2>6. cur' \in [Workers -> Pending \cup {None}] /\ pc' \in [Workers -> Stages]
    <3>1. CASE cur' = [cur EXCEPT ![w] = m] /\ Goto(w, "mark_updated")
      BY <2>2, <3>1
    <3>2. CASE UNCHANGED <<cur, pc>>
      BY <3>2
    <3>3. QED
      BY <2>1, <3>1, <3>2
  <2>7. todo' \in [Workers -> SUBSET Pending]
    BY <1>16 DEF UpdateEvent, Take
  <2>8. QED
    BY <1>16, <2>5, <2>6, <2>7 DEF UpdateEvent
<1>17. CASE MarkUpdated(w)
  <2>1. cur[w] \in Pending /\ CurRow(w) \in Pairs
    BY <1>17 DEF MarkUpdated, CurRow, Pairs, Pending
  <2>2. mapping' \in [Pairs -> Row]
    BY <1>17, <2>1, RowSteps, UpdateRowType DEF MarkUpdated
  <2>3. QED
    BY <1>17, <2>2 DEF MarkUpdated, Unhand
<1>18. CASE UpdateDone(w)
  BY <1>18, ListsType DEF UpdateDone
<1>19. CASE CheckShared(w)
  <2>1. cur' \in [Workers -> Pending \cup {None}] /\ todo' \in [Workers -> SUBSET Pending]
    <3>1. PICK m \in todo[w] : Take(w, m) /\ (cur' = [cur EXCEPT ![w] = m] \/ UNCHANGED cur)
      BY <1>19 DEF CheckShared
    <3>2. QED
      BY <3>1 DEF Take
  <2>2. pc' \in [Workers -> Stages]
    BY <1>19 DEF CheckShared
  <2>3. QED
    BY <1>19, <2>1, <2>2 DEF CheckShared
<1>20. CASE DeleteEvent(w)
  <2>1. event' \in [EventIds -> Event]
    BY <1>20, EventSteps DEF DeleteEvent
  <2>2. QED
    BY <1>20, <2>1 DEF DeleteEvent, Unhand
<1>21. CASE DeleteFails(w)
  BY <1>21, ListsType DEF DeleteFails, Unhand
<1>22. CASE MarkCancelled(w)
  <2>1. cur[w] \in Pending /\ CurRow(w) \in Pairs
    BY <1>22 DEF MarkCancelled, CurRow, Pairs, Pending
  <2>2. mapping' \in [Pairs -> Row]
    BY <1>22, <2>1, RowSteps, UpdateRowType DEF MarkCancelled
  <2>3. QED
    BY <1>22, <2>2 DEF MarkCancelled, Unhand
<1>23. CASE CancelDone(w)
  BY <1>23, ListsType DEF CancelDone, EndPass, Unhand
<1>24. CASE Abort(w)
  BY <1>24, ListsType DEF Abort, EndPass, Unhand
<1>25. CASE Crash(w)
  BY <1>25, ListsType DEF Crash, Unhand
<1> QED
  BY <1>1, <1>2, <1>3, <1>4, <1>5, <1>6, <1>7, <1>8, <1>9, <1>10, <1>11, <1>12, <1>13, <1>14,
     <1>15, <1>16, <1>17, <1>18, <1>19, <1>20, <1>21, <1>22, <1>23, <1>24, <1>25 DEF Work

\* Everything that is not the worker leaves the engine's variables alone.
LEMMA OthersSpareEngine ==
  ASSUME World \/ Purge \/ Prune
  PROVE  UNCHANGED engine
BY DEF World, Outside, Quieten, Appear, Disappear, Edit, Deauthorize, Authorize,
   SetCalendarEnabled,
       Purge, Prune, PruneReadActive, PruneList, PruneDelete, PruneEnd

\* So do the outside world, the purge and prune-orphans.
LEMMA OthersTypeOK ==
  ASSUME TypeOK, World \/ Purge \/ Prune
  PROVE  TypeOK'
<1> USE ConstantsAssumption DEF TypeOK, engine, prune, world
<1>3. CASE World
  <2>1. ASSUME NEW kind, Change(kind) PROVE changes' \in 0..MaxChanges /\ quiet' \in BOOLEAN
    BY <2>1 DEF Change
  <2>2. ASSUME NEW e \in Employees, NEW s \in SourceIds, Appear(e, s) \/ Disappear(e, s)
        PROVE  TypeOK'
    BY <2>1, <2>2 DEF Appear, Disappear, Pairs
  <2>3. ASSUME NEW s \in SourceIds, Edit(s) PROVE TypeOK'
    <3>1. PICK k \in Keys : invitation' =
            [invitation EXCEPT ![s] = [key |-> k, version |-> @.version + 1]]
      BY <2>3 DEF Edit
    <3>2. invitation[s].version + 1 \in Versions
      BY <2>3 DEF Edit, Versions
    <3>3. invitation' \in [SourceIds -> [key: Keys, version: Versions]]
      BY <3>1, <3>2
    <3>4. QED
      BY <2>1, <2>3, <3>3 DEF Edit
  <2>4. ASSUME NEW e \in Employees, Deauthorize(e) \/ Authorize(e) PROVE TypeOK'
    BY <2>1, <2>4 DEF Deauthorize, Authorize
  <2>5. ASSUME NEW e \in Employees, NEW c \in Calendars, SetCalendarEnabled(e, c)
        PROVE  TypeOK'
    BY <2>1, <2>5 DEF SetCalendarEnabled
  <2>6. ASSUME Quieten PROVE TypeOK'
    BY <2>6 DEF Quieten
  <2>7. QED
    BY <2>6, <1>3, <2>2, <2>3, <2>4, <2>5 DEF World, Outside
<1>4. CASE Purge
  <2>1. NoRow \in Row
    BY DEF NoRow, Row, Versions, OptEvent
  <2>2. mapping' \in [Pairs -> Row]
    BY <1>4, <2>1 DEF Purge
  <2>3. QED
    BY <1>4, <2>2 DEF Purge
<1>5. CASE Prune
  <2>1. CASE PruneReadActive
    BY <2>1 DEF PruneReadActive
  <2>2. CASE PruneList
    BY <2>2 DEF PruneList
  <2>3. CASE PruneDelete
    <3>1. \A x \in Event : [x EXCEPT !.state = "deleted"] \in Event
      BY DEF Event
    <3>2. PICK d \in doomed : \/ event' = [event EXCEPT ![d].state = "deleted"]
                             \/ event' = event
      BY <2>3 DEF PruneDelete
    <3>3. event' \in [EventIds -> Event]
      <4>1. CASE event' = event
        BY <4>1
      <4>2. CASE event' = [event EXCEPT ![d].state = "deleted"]
        BY <3>1, <4>2
      <4>3. QED
        BY <3>2, <4>1, <4>2
    <3>4. QED
      BY <2>3, <3>3 DEF PruneDelete
  <2>4. CASE PruneEnd
    BY <2>4 DEF PruneEnd
  <2>5. QED
    BY <1>5, <2>1, <2>2, <2>3, <2>4 DEF Prune
<1> QED
  BY <1>3, <1>4, <1>5

\* The typing invariant is inductive.
LEMMA NextTypeInv == TypeInv /\ [Next]_vars => TypeInv'
<1> SUFFICES ASSUME TypeInv, [Next]_vars PROVE TypeInv'
  OBVIOUS
<1>1. CASE World \/ Purge \/ Prune
  <2>1. TypeOK'
    BY <1>1, OthersTypeOK DEF TypeInv
  <2>2. \A w \in Workers : WorkerOK(w)'
    BY <1>1, OthersSpareEngine DEF TypeInv, WorkerOK, engine
  <2>3. QED
    BY <2>1, <2>2 DEF TypeInv
<1>2. CASE \E w \in Workers : Work(w) \/ Abort(w) \/ Crash(w)
  BY <1>2, StepTypeOK, StepWorkerOK DEF TypeInv
<1>3. CASE UNCHANGED vars
  BY <1>3 DEF vars, world, engine, prune, TypeInv, TypeOK, WorkerOK
<1> QED
  BY <1>1, <1>2, <1>3 DEF Next

\* The typing invariant holds of every run.
LEMMA InductiveType == Spec => []TypeInv
<1>1. TypeInv /\ [Next]_vars => TypeInv'
  BY NextTypeInv
<1> QED
  BY <1>1, InitTypeInv, PTL DEF Spec

\* In every reachable state, for any number of employees, events and workers, each
\* variable has its type: SyncEmployee never works on an employee, a pending event
\* or a destination id it does not have.
THEOREM TypeCorrect == Spec => []TypeOK
<1>1. TypeInv => TypeOK
  BY DEF TypeInv
<1> QED
  BY <1>1, InductiveType, PTL

-----------------------------------------------------------------------------
(* Ids on record were handed out.                                           *)

\* Only ids the destination handed out are recorded, or about to be.
RecordedInv ==
  /\ \A p \in Pairs : mapping[p].dest \notin Unused
  /\ \A w \in Workers : pc[w] = "mark_created" => cur[w].dest \notin Unused

\* The steps that touch the destination calendars.
LEMMA EventSteppers ==
  ASSUME [Next]_vars, ~UNCHANGED event
  PROVE  PruneDelete \/ \E w \in Workers : InsertEvent(w) \/ UpdateEvent(w) \/ DeleteEvent(w)
<1>1. CASE World \/ Purge \/ PruneReadActive \/ PruneList \/ PruneEnd \/ UNCHANGED vars
  BY <1>1 DEF World, Outside, Quieten, Appear, Disappear, Edit, Deauthorize, Authorize,
     SetCalendarEnabled, Purge, PruneReadActive, PruneList, PruneEnd, vars
<1>2. ASSUME NEW w \in Workers, Work(w) \/ Abort(w) \/ Crash(w)
      PROVE  InsertEvent(w) \/ UpdateEvent(w) \/ DeleteEvent(w)
  BY <1>2 DEF Work, StartRun, NextEmployee, EndRun, Discover, ScanFails, BeginScan,
     ListCalendar, UpsertMapping, ResolveDestination, SkipUntimed, LookupShared,
     InsertFails, MarkCreated, CreateDone, MarkUpdated, UpdateDone, CheckShared,
     DeleteFails, MarkCancelled, CancelDone, Abort, Crash
<1> QED
  BY <1>1, <1>2 DEF Next, Prune

\* No step returns an event to "unused": an id is never handed out twice.
LEMMA UnusedShrinks ==
  ASSUME TypeInv, [Next]_vars
  PROVE  Unused' \subseteq Unused
<1> SUFFICES ASSUME NEW d \in EventIds, event[d].state # "unused"
             PROVE  event'[d].state # "unused"
  BY DEF Unused
<1> USE DEF TypeInv, TypeOK
<1>1. CASE UNCHANGED event
  BY <1>1
<1>2. CASE \E c \in EventIds : event' = [event EXCEPT ![c].state = "deleted"]
  BY <1>2 DEF Event
<1>3. CASE \E w \in Workers : InsertEvent(w)
  <2>1. PICK w \in Workers, c \in Unused : event' = [event EXCEPT ![c] = Written(w)]
    BY <1>3 DEF InsertEvent
  <2>2. d # c
    BY <2>1 DEF Unused
  <2>3. QED
    BY <2>1, <2>2
<1>4. CASE \E w \in Workers : UpdateEvent(w)
  <2> PICK w \in Workers : UpdateEvent(w)
    BY <1>4
  <2>1. PICK m \in todo[w] :
          \/ event' = [event EXCEPT ![m.dest] = [@ EXCEPT !.src = m.src, !.version = m.updated]]
          \/ event' = event
    BY DEF UpdateEvent
  <2>2. \A x \in Event : [x EXCEPT !.src = m.src, !.version = m.updated].state = x.state
    BY DEF Event
  <2>3. event'[d].state = event[d].state
    <3>1. CASE event' = event
      BY <3>1
    <3>2. CASE event' = [event EXCEPT ![m.dest] = [@ EXCEPT !.src = m.src, !.version = m.updated]]
      BY <2>2, <3>2
    <3>3. QED
      BY <2>1, <3>1, <3>2
  <2>4. QED
    BY <2>3
<1>5. CASE \E w \in Workers : DeleteEvent(w)
  BY <1>5 DEF DeleteEvent, Event
<1>6. CASE PruneDelete
  BY <1>6 DEF PruneDelete, Event
<1> QED
  BY <1>1, <1>3, <1>4, <1>5, <1>6, EventSteppers

\* A row's destination id is kept, cleared by the purge, or set by MarkCreated.
LEMMA DestSteps ==
  ASSUME TypeInv, [Next]_vars, NEW p \in Pairs
  PROVE  \/ mapping'[p].dest = mapping[p].dest
         \/ mapping'[p].dest = None
         \/ \E w \in Workers : pc[w] = "mark_created" /\ mapping'[p].dest = cur[w].dest
<1> USE DEF TypeInv, TypeOK
<1>1. CASE UNCHANGED mapping
  BY <1>1
<1>2. CASE Purge
  BY <1>2 DEF Purge, NoRow
<1>3. CASE \E w \in Workers : NextEmployee(w)
  BY <1>3 DEF NextEmployee, Row
<1>4. CASE \E w \in Workers : UpsertMapping(w)
  <2> PICK w \in Workers : UpsertMapping(w)
    BY <1>4
  <2>1. PICK m \in todo[w] : mapping' = [mapping EXCEPT ![<<emp[w], m.src>>] =
            [@ EXCEPT !.state = "active", !.key = m.key, !.updated = m.updated,
                      !.seen = Workers]]
    BY DEF UpsertMapping
  <2>2. \A r \in Row : [r EXCEPT !.state = "active", !.key = m.key, !.updated = m.updated,
                                !.seen = Workers].dest = r.dest
    BY DEF Row
  <2>3. QED
    BY <2>1, <2>2
<1>5. CASE \E w \in Workers : MarkCreated(w)
  <2> PICK w \in Workers : MarkCreated(w)
    BY <1>5
  <2>1. pc[w] = "mark_created"
    BY DEF MarkCreated
  <2>2. \/ mapping' = mapping
        \/ mapping' = [mapping EXCEPT ![CurRow(w)] =
             [mapping[CurRow(w)] EXCEPT !.dest = cur[w].dest, !.synced = cur[w].updated]]
    BY DEF MarkCreated, UpdateRow
  <2>3. QED
    BY <2>1, <2>2 DEF Row
<1>6. CASE \E w \in Workers : MarkUpdated(w)
  BY <1>6 DEF MarkUpdated, UpdateRow, Row
<1>7. CASE \E w \in Workers : MarkCancelled(w)
  BY <1>7 DEF MarkCancelled, UpdateRow, Row
<1> QED
  <2>1. CASE World \/ Prune \/ UNCHANGED vars
    BY <1>1, <2>1 DEF World, Outside, Quieten, Appear, Disappear, Edit, Deauthorize,
       Authorize, SetCalendarEnabled,
       Prune, PruneReadActive, PruneList, PruneDelete, PruneEnd, vars
  <2>2. ASSUME NEW w \in Workers, Work(w) \/ Abort(w) \/ Crash(w)
        PROVE  \/ UNCHANGED mapping
               \/ NextEmployee(w) \/ UpsertMapping(w)
               \/ MarkCreated(w) \/ MarkUpdated(w) \/ MarkCancelled(w)
    BY <2>2 DEF Work, StartRun, EndRun, Discover, ScanFails, BeginScan, ListCalendar,
       ResolveDestination, SkipUntimed, LookupShared, InsertEvent, InsertFails, CreateDone,
       UpdateEvent, UpdateDone, CheckShared, DeleteEvent, DeleteFails, CancelDone, Abort, Crash
  <2>3. QED
    BY <1>1, <1>2, <1>3, <1>4, <1>5, <1>6, <1>7, <2>1, <2>2 DEF Next

\* How a worker comes to hold an id it is about to record.
LEMMA MarkSteps ==
  ASSUME TypeInv, [Next]_vars, NEW w \in Workers, pc'[w] = "mark_created"
  PROVE  \/ pc[w] = "mark_created" /\ cur'[w] = cur[w]
         \/ \E p \in Pairs : cur'[w].dest = mapping[p].dest
         \/ cur'[w].dest \notin Unused'
<1> USE DEF TypeInv, TypeOK
<1>1. CASE LookupShared(w)
  <2>1. PICK m \in todo[w] :
          \/ \E d \in SharedDestinationForMeeting(CurOrg(w), m) :
                cur' = [cur EXCEPT ![w] = [m EXCEPT !.dest = d]]
          \/ Goto(w, "insert")
    BY <1>1 DEF LookupShared
  <2>2. PICK d \in SharedDestinationForMeeting(CurOrg(w), m) :
          cur' = [cur EXCEPT ![w] = [m EXCEPT !.dest = d]]
    BY <2>1 DEF Goto, Stages
  <2>3. cur'[w].dest = d
    BY <2>2 DEF Pending
  <2>4. \E p \in Pairs : d = mapping[p].dest
    BY <2>2 DEF SharedDestinationForMeeting, SharedById, SharedByKey
  <2>5. QED
    BY <2>3, <2>4
<1>2. CASE InsertEvent(w)
  <2>1. PICK d \in Unused :
          /\ event' = [event EXCEPT ![d] = Written(w)]
          /\ cur' = [cur EXCEPT ![w].dest = d] \/ Goto(w, "create")
    BY <1>2 DEF InsertEvent
  <2>2. cur[w] \in Pending
    BY <1>2 DEF InsertEvent, WorkerOK
  <2>3. cur' = [cur EXCEPT ![w].dest = d]
    BY <2>1 DEF Goto, Stages
  <2>4. cur'[w].dest = d
    BY <2>2, <2>3 DEF Pending
  <2>5. event'[d].state = "live"
    BY <2>1 DEF Written, Unused
  <2>6. QED
    BY <2>4, <2>5 DEF Unused
<1>3. CASE UNCHANGED <<pc, cur>>
  BY <1>3
<1> QED
  <2>1. CASE World \/ Purge \/ Prune \/ UNCHANGED vars
    BY <1>3, <2>1, OthersSpareEngine DEF engine, vars
  <2>2. ASSUME NEW v \in Workers, v # w, Work(v) \/ Abort(v) \/ Crash(v)
        PROVE  pc'[w] = pc[w] /\ cur'[w] = cur[w]
    BY <2>2 DEF Work, StartRun, NextEmployee, EndRun, Discover, ScanFails, BeginScan,
       ListCalendar, UpsertMapping, ResolveDestination, SkipUntimed, LookupShared,
       InsertEvent, InsertFails, MarkCreated, CreateDone, UpdateEvent, MarkUpdated,
       UpdateDone, CheckShared, DeleteEvent, DeleteFails, MarkCancelled, CancelDone,
       Abort, Crash, EndPass, Goto, Unhand
  <2>3. ASSUME Work(w) \/ Abort(w) \/ Crash(w)
        PROVE  LookupShared(w) \/ InsertEvent(w)
    BY <2>3 DEF Work, StartRun, NextEmployee, EndRun, Discover, ScanFails, BeginScan,
       ListCalendar, UpsertMapping, ResolveDestination, SkipUntimed, InsertFails,
       MarkCreated, CreateDone, UpdateEvent, MarkUpdated, UpdateDone, CheckShared,
       DeleteEvent, DeleteFails, MarkCancelled, CancelDone, Abort, Crash, EndPass, Goto, Stages
  <2>4. QED
    BY <1>1, <1>2, <2>1, <2>2, <2>3 DEF Next

\* Recorded ids, and ids about to be recorded, are never unused again.
LEMMA NextRecordedInv == TypeInv /\ RecordedInv /\ [Next]_vars => RecordedInv'
<1> SUFFICES ASSUME TypeInv, RecordedInv, [Next]_vars PROVE RecordedInv'
  OBVIOUS
<1>1. Unused' \subseteq Unused
  BY UnusedShrinks
<1>2. None \notin Unused'
  BY ConstantsAssumption DEF Unused
<1>3. ASSUME NEW p \in Pairs PROVE mapping'[p].dest \notin Unused'
  BY <1>1, <1>2, <1>3, DestSteps DEF RecordedInv
<1>4. ASSUME NEW w \in Workers, pc'[w] = "mark_created" PROVE cur'[w].dest \notin Unused'
  BY <1>1, <1>4, MarkSteps DEF RecordedInv
<1> QED
  BY <1>3, <1>4 DEF RecordedInv

\* The destination ids in event_mappings were all handed out by the destination,
\* whatever fails or crashes and however many workers run.
THEOREM RecordedIds == Spec => []RecordedEventExists
<1>1. Init => RecordedInv
  BY ConstantsAssumption DEF Init, RecordedInv, NoRow, Unused
<1>2. TypeInv /\ RecordedInv /\ [Next]_vars => RecordedInv'
  BY NextRecordedInv
<1>3. RecordedInv => RecordedEventExists
  BY DEF RecordedInv, RecordedEventExists
<1> QED
  BY <1>1, <1>2, <1>3, InductiveType, PTL DEF Spec

-----------------------------------------------------------------------------
(* A single worker acts on what it has just read.                          *)

OneWorker == \A v, w \in Workers : v = w

\* What the sharing queries said is still true when the worker acts on it.
DeleteInv ==
  \A w \in Workers : pc[w] = "delete" => Refs(cur[w].dest) \subseteq {CurRow(w)}
InsertInv ==
  \A w \in Workers : pc[w] = "insert" => SharedById(cur[w].src) = {}

\* Purging never adds a reference.
LEMMA PurgeRefs ==
  ASSUME TypeInv, Purge
  PROVE  /\ \A d : Refs(d)' \subseteq Refs(d)
         /\ \A s : SharedById(s)' \subseteq SharedById(s)
BY DEF Purge, NoRow, Refs, SharedById, Active

\* A worker comes to "delete" or "insert" only from the query that decides it.
LEMMA DecisionSteps ==
  ASSUME TypeInv, NEW w \in Workers, Work(w) \/ Abort(w) \/ Crash(w)
  PROVE  /\ pc'[w] = "delete" => CheckShared(w)
         /\ pc'[w] = "insert" => LookupShared(w)
BY DEF TypeInv, TypeOK, Stages, Work, StartRun, NextEmployee, EndRun, Discover, ScanFails,
   BeginScan, ListCalendar, UpsertMapping, ResolveDestination, SkipUntimed, LookupShared,
   InsertEvent, InsertFails, MarkCreated, CreateDone, UpdateEvent, MarkUpdated, UpdateDone,
   CheckShared, DeleteEvent, DeleteFails, MarkCancelled, CancelDone, Abort, Crash, EndPass, Goto

\* Nothing adds a reference to an event between the sharing check and the delete.
LEMMA NextDeleteInv ==
  ASSUME OneWorker, TypeInv, DeleteInv, [Next]_vars
  PROVE  DeleteInv'
<1>1. CASE World \/ Prune \/ UNCHANGED vars
  <2>1. UNCHANGED <<mapping, engine>>
    BY <1>1, OthersSpareEngine DEF World, Outside, Quieten, Appear, Disappear, Edit,
       Deauthorize, Authorize,
       SetCalendarEnabled, Prune, PruneReadActive, PruneList, PruneDelete, PruneEnd, vars
  <2>2. QED
    BY <2>1 DEF DeleteInv, Refs, Active, CurRow, engine
<1>2. CASE Purge
  BY <1>2, PurgeRefs, OthersSpareEngine DEF DeleteInv, CurRow, engine
<1>3. CASE \E w \in Workers : Work(w) \/ Abort(w) \/ Crash(w)
  <2> PICK w \in Workers : Work(w) \/ Abort(w) \/ Crash(w)
    BY <1>3
  <2> SUFFICES ASSUME pc'[w] = "delete" PROVE Refs(cur[w].dest)' \subseteq {CurRow(w)'}
    BY DEF OneWorker, DeleteInv
  <2>1. CheckShared(w)
    BY DecisionSteps
  <2>2. PICK m \in todo[w] :
          \/ /\ cur' = [cur EXCEPT ![w] = m]
             /\ Goto(w, IF DestinationShared(m.dest, <<emp[w], m.src>>)
                        THEN "mark_cancelled" ELSE "delete")
          \/ UNCHANGED pc
    BY <2>1 DEF CheckShared
  <2>3. pc[w] = "cancel" /\ UNCHANGED <<mapping, emp>>
    BY <2>1 DEF CheckShared
  <2>4. cur'[w] = m /\ ~DestinationShared(m.dest, <<emp[w], m.src>>)
    BY <2>2, <2>3 DEF Goto, TypeInv, TypeOK
  <2>5. Refs(m.dest) \subseteq {<<emp[w], m.src>>}
    BY <2>4 DEF DestinationShared
  <2>6. QED
    BY <2>3, <2>4, <2>5 DEF Refs, Active, CurRow
<1> QED
  BY <1>1, <1>2, <1>3 DEF Next

\* Nothing gives the invitation a destination between the lookup and the insert.
LEMMA NextInsertInv ==
  ASSUME OneWorker, "lookup" \notin Faults, TypeInv, InsertInv, [Next]_vars
  PROVE  InsertInv'
<1>1. CASE World \/ Prune \/ UNCHANGED vars
  <2>1. UNCHANGED <<mapping, engine>>
    BY <1>1, OthersSpareEngine DEF World, Outside, Quieten, Appear, Disappear, Edit,
       Deauthorize, Authorize,
       SetCalendarEnabled, Prune, PruneReadActive, PruneList, PruneDelete, PruneEnd, vars
  <2>2. QED
    BY <2>1 DEF InsertInv, SharedById, Active, engine
<1>2. CASE Purge
  BY <1>2, PurgeRefs, OthersSpareEngine DEF InsertInv, engine
<1>3. CASE \E w \in Workers : Work(w) \/ Abort(w) \/ Crash(w)
  <2> PICK w \in Workers : Work(w) \/ Abort(w) \/ Crash(w)
    BY <1>3
  <2> SUFFICES ASSUME pc'[w] = "insert" PROVE SharedById(cur[w].src)' = {}
    BY DEF OneWorker, InsertInv
  <2>1. LookupShared(w)
    BY DecisionSteps
  <2>2. PICK m \in todo[w] :
          \/ Goto(w, "mark_created")
          \/ /\ SharedDestinationForMeeting(CurOrg(w), m) = {}
             /\ cur' = [cur EXCEPT ![w] = m]
    BY <2>1 DEF LookupShared, May
  <2>3. cur'[w] = m /\ SharedById(m.src) = {}
    BY <2>2 DEF Goto, TypeInv, TypeOK, SharedDestinationForMeeting
  <2>4. QED
    BY <2>1, <2>3 DEF LookupShared, SharedById, Active
<1> QED
  BY <1>1, <1>2, <1>3 DEF Next

\* An update writes what an event says, never its state.
LEMMA UpdateKeepsState ==
  ASSUME TypeInv, NEW w \in Workers, UpdateEvent(w), NEW d \in EventIds
  PROVE  event'[d].state = event[d].state
<1>1. PICK m \in todo[w] :
        \/ event' = [event EXCEPT ![m.dest] = [@ EXCEPT !.src = m.src, !.version = m.updated]]
        \/ event' = event
  BY DEF UpdateEvent
<1>2. \A x \in Event : [x EXCEPT !.src = m.src, !.version = m.updated].state = x.state
  BY DEF Event
<1>3. event \in [EventIds -> Event]
  BY DEF TypeInv, TypeOK
<1>4. CASE event' = event
  BY <1>4
<1>5. CASE event' = [event EXCEPT ![m.dest] = [@ EXCEPT !.src = m.src, !.version = m.updated]]
  BY <1>2, <1>3, <1>5
<1> QED
  BY <1>1, <1>4, <1>5

\* Which step removes an event, and which creates one.
LEMMA EventRemoval ==
  ASSUME TypeInv, [Next]_vars, UNCHANGED doomed,
         NEW d \in EventIds, Live(d), event'[d].state = "deleted"
  PROVE  \E w \in Workers : pc[w] = "delete" /\ cur[w].dest = d
<1> USE DEF TypeInv, TypeOK, Live
<1>1. PICK w \in Workers : InsertEvent(w) \/ UpdateEvent(w) \/ DeleteEvent(w)
  BY EventSteppers DEF PruneDelete
<1>2. ~InsertEvent(w)
  BY DEF InsertEvent, Unused, Written
<1>3. ~UpdateEvent(w)
  BY UpdateKeepsState
<1> QED
  BY <1>1, <1>2, <1>3 DEF DeleteEvent

\* Only a worker at "insert" brings an event to life, for the invitation in hand.
LEMMA EventCreation ==
  ASSUME TypeInv, [Next]_vars, NEW d \in Unused, event'[d].state = "live"
  PROVE  \E w \in Workers : pc[w] = "insert" /\ event'[d].src = cur[w].src
<1> USE DEF TypeInv, TypeOK, Unused
<1>1. ~PruneDelete
  BY DEF PruneDelete, Event
<1>2. PICK w \in Workers : InsertEvent(w) \/ UpdateEvent(w) \/ DeleteEvent(w)
  BY <1>1, EventSteppers
<1>3. ~UpdateEvent(w)
  BY UpdateKeepsState
<1>4. ~DeleteEvent(w)
  BY DEF DeleteEvent, Event
<1>5. PICK c \in Unused : event' = [event EXCEPT ![c] = Written(w)]
  BY <1>2, <1>3, <1>4 DEF InsertEvent
<1>6. d = c
  BY <1>5
<1> QED
  BY <1>2, <1>3, <1>4, <1>5, <1>6 DEF InsertEvent, Written

\* A single worker never takes an event away from a co-attendee: whatever fails, is
\* purged, pruned or changes between DestinationShared and DeleteEvent, the row
\* being cancelled is the last one pointing to the event.
THEOREM CoAttendeeSafe ==
  ASSUME OneWorker
  PROVE  Spec => CoAttendeeKeepsEvent
<1>1. Init => DeleteInv
  BY DEF Init, DeleteInv
<1>2. TypeInv /\ DeleteInv /\ [Next]_vars => DeleteInv'
  BY NextDeleteInv
<1>3. TypeInv /\ DeleteInv /\ [Next]_vars =>
        [\A d \in EventIds : Live(d) /\ event'[d].state = "deleted" /\ UNCHANGED doomed =>
           \A p, q \in Refs(d) : p = q]_vars
  BY EventRemoval DEF DeleteInv
<1> QED
  BY <1>1, <1>2, <1>3, InductiveType, PTL DEF Spec, CoAttendeeKeepsEvent

\* A single worker whose sharing queries do not fail inserts an event only for an
\* invitation nobody's active mapping has an event for.
THEOREM InsertsUntracked ==
  ASSUME OneWorker, "lookup" \notin Faults
  PROVE  Spec => InsertOnlyUntracked
<1>1. Init => InsertInv
  BY DEF Init, InsertInv
<1>2. TypeInv /\ InsertInv /\ [Next]_vars => InsertInv'
  BY NextInsertInv
<1>3. TypeInv /\ InsertInv /\ [Next]_vars =>
        [\A d \in EventIds : d \in Unused /\ event'[d].state = "live" =>
           SharedById(event'[d].src) = {}]_vars
  BY EventCreation DEF InsertInv
<1> QED
  BY <1>1, <1>2, <1>3, InductiveType, PTL DEF Spec, InsertOnlyUntracked

=============================================================================
