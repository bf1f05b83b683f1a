------------------------- MODULE SyncHistoryProofs -------------------------
(* Theorems about SyncHistory: whatever fails, crashes, is purged, toggled *)
(* or withdrawn and published again, nothing is cancelled without a reason.*)
EXTENDS SyncHistory, CalendarSyncProofs

-----------------------------------------------------------------------------
(* The inductive invariant.                                                 *)

CalendarKnown(e, s) == calendars[e][CalendarOf[s]] # "absent"

\* What has been stored was listed by a calendar that Discover had stored; before the
\* scan there is nothing to store.
KnownInv ==
  /\ \A p \in Pairs : Active(p) => CalendarKnown(p[1], p[2])
  /\ \A w \in Workers : pc[w] \in {"idle", "next", "discover", "scan"} => todo[w] = {}
  /\ \A w \in Workers : pc[w] = "list" =>
       /\ \A c \in cals[w] : calendars[emp[w]][c] # "absent"
       /\ \A m \in todo[w] : CalendarKnown(emp[w], m.src)

Cancelling == {"cancel", "delete", "mark_cancelled"}
Scanned == {"create", "insert", "mark_created", "update", "mark_updated"} \cup Cancelling

\* The scan of w still has s before it.
ToCome(w, s) == CalendarOf[s] \in cals[w] \/ \E m \in todo[w] : m.src = s

\* The scan leaves no active row of its employee unseen that it has passed and that
\* could be seen throughout.
ScanInv(w) ==
  pc[w] \in {"list"} \cup Scanned => \A s \in SourceIds :
    LET p == <<emp[w], s>> IN
    Active(p) => \/ w \in mapping[p].seen
                 \/ p \in Unseen(w)
                 \/ pc[w] = "list" /\ ToCome(w, s)

\* The rows of the CANCEL loop, and the one in hand, were not to be seen.
CancelInv(w) ==
  /\ pc[w] \in Cancelling => \A m \in todo[w] : <<emp[w], m.src>> \in Unseen(w)
  /\ pc[w] \in {"delete", "mark_cancelled"} => CurRow(w) \in Unseen(w)

HiddenInv == \A w \in Workers : Hidden \subseteq hidden[w]

HistoryInv ==
  /\ TypeInv /\ KnownInv /\ HiddenInv
  /\ hidden \in [Workers -> SUBSET Pairs] /\ unread \in [Workers -> SUBSET Pairs]
  /\ \A w \in Workers : ScanInv(w) /\ CancelInv(w)

-----------------------------------------------------------------------------
(* Lemmas about steps.                                                      *)

\* The history variable restricts nothing.
LEMMA HistoryOnlyRecords == [HistoryNext]_historyVars => [Next]_vars
BY DEF HistoryNext, Record, historyVars

\* The history of a pass only grows, and is up to date.
LEMMA HistoryGrows ==
  ASSUME HistoryInv, [HistoryNext]_historyVars
  PROVE  /\ hidden' \in [Workers -> SUBSET Pairs] /\ unread' \in [Workers -> SUBSET Pairs]
         /\ HiddenInv'
         /\ \A w \in Workers : pc[w] # "next" => /\ Unseen(w) \subseteq Unseen(w)'
                                                 /\ Skipped(w) \subseteq Unseen(w)'
<1> USE DEF HistoryInv, Unseen
<1>1. CASE HistoryNext
  <2>1. \A w \in Workers : Skipped(w) \subseteq Pairs
    BY DEF Skipped, TypeInv, TypeOK
  <2> QED
    BY <1>1, <2>1 DEF HistoryNext, Record, HiddenInv, Hidden
<1>2. CASE UNCHANGED historyVars
  <2>1. UNCHANGED <<listed, calendars, cals, hidden, unread>>
    BY <1>2 DEF historyVars, vars, world, engine
  <2>2. \A w \in Workers : Skipped(w) = {}
    BY <2>1 DEF Skipped
  <2> QED
    BY <2>1, <2>2 DEF HiddenInv, Hidden, Visible
<1> QED
  BY <1>1, <1>2

\* The steps that touch event_mappings.
LEMMA MappingSteppers ==
  ASSUME [Next]_vars, ~UNCHANGED mapping
  PROVE  Purge \/ \E w \in Workers : \/ NextEmployee(w) \/ UpsertMapping(w)
                                     \/ MarkCreated(w) \/ MarkUpdated(w) \/ MarkCancelled(w)
<1>1. CASE World \/ Prune \/ UNCHANGED vars
  BY <1>1 DEF World, Outside, Quieten, Appear, Disappear, Edit, Deauthorize, Authorize,
     SetCalendarEnabled, Prune, PruneReadActive, PruneList, PruneDelete, PruneEnd, vars
<1>2. ASSUME NEW w \in Workers, Work(w) \/ Abort(w) \/ Crash(w)
      PROVE  NextEmployee(w) \/ UpsertMapping(w) \/ MarkCreated(w) \/ MarkUpdated(w) \/ MarkCancelled(w)
  BY <1>2 DEF Work, StartRun, EndRun, Discover, ScanFails, BeginScan, ListCalendar,
     ResolveDestination, SkipUntimed, LookupShared, InsertEvent, InsertFails, CreateDone,
     UpdateEvent, UpdateDone, CheckShared, DeleteEvent, DeleteFails, CancelDone, Abort, Crash
<1> QED
  BY <1>1, <1>2 DEF Next

\* What each of them does to the state of a row and to the passes that have seen it.
LEMMA RowEffects ==
  ASSUME TypeInv, NEW p \in Pairs, NEW v \in Workers
  PROVE  /\ Purge /\ Active(p)' => mapping'[p] = mapping[p]
         /\ NextEmployee(v) => /\ mapping'[p].state = mapping[p].state
                               /\ \/ mapping'[p].seen = mapping[p].seen
                                  \/ mapping'[p].seen = mapping[p].seen \ {v}
         /\ UpsertMapping(v) =>
              \/ mapping'[p] = mapping[p]
              \/ mapping'[p].seen = Workers /\ \E m \in todo[v] : p = <<emp[v], m.src>>
         /\ MarkCreated(v) \/ MarkUpdated(v) =>
              mapping'[p].state = mapping[p].state /\ mapping'[p].seen = mapping[p].seen
         /\ MarkCancelled(v) =>
              \/ mapping'[p] = mapping[p]
              \/ mapping'[p].state = "cancelled" /\ p = CurRow(v)
<1> USE DEF TypeInv, TypeOK
<1>1. Purge /\ Active(p)' => mapping'[p] = mapping[p]
  BY DEF Purge, NoRow, Active
<1>2. NextEmployee(v) => /\ mapping'[p].state = mapping[p].state
                         /\ \/ mapping'[p].seen = mapping[p].seen
                            \/ mapping'[p].seen = mapping[p].seen \ {v}
  BY DEF NextEmployee, Row
<1>3. ASSUME UpsertMapping(v)
      PROVE  \/ mapping'[p] = mapping[p]
             \/ mapping'[p].seen = Workers /\ \E m \in todo[v] : p = <<emp[v], m.src>>
  <2>1. PICK m \in todo[v] : mapping' = [mapping EXCEPT ![<<emp[v], m.src>>] =
            [@ EXCEPT !.state = "active", !.key = m.key, !.updated = m.updated,
                      !.seen = Workers]]
    BY <1>3 DEF UpsertMapping
  <2>2. \A r \in Row : [r EXCEPT !.state = "active", !.key = m.key, !.updated = m.updated,
                                !.seen = Workers].seen = Workers
    BY DEF Row
  <2>3. QED
    BY <2>1, <2>2
<1>4. MarkCreated(v) \/ MarkUpdated(v) =>
        mapping'[p].state = mapping[p].state /\ mapping'[p].seen = mapping[p].seen
  <2>1. MarkCreated(v) =>
          mapping'[p].state = mapping[p].state /\ mapping'[p].seen = mapping[p].seen
    BY DEF MarkCreated, UpdateRow, Row
  <2>2. MarkUpdated(v) =>
          mapping'[p].state = mapping[p].state /\ mapping'[p].seen = mapping[p].seen
    BY DEF MarkUpdated, UpdateRow, Row
  <2>3. QED
    BY <2>1, <2>2
<1>5. MarkCancelled(v) => \/ mapping'[p] = mapping[p]
                          \/ mapping'[p].state = "cancelled" /\ p = CurRow(v)
  BY DEF MarkCancelled, UpdateRow, Row
<1> QED
  BY <1>1, <1>2, <1>3, <1>4, <1>5

\* The upsert never leaves an active row inactive.
LEMMA UpsertActivates ==
  ASSUME TypeInv, NEW p \in Pairs, Active(p), NEW v \in Workers, UpsertMapping(v)
  PROVE  mapping'[p].state = "active"
<1>1. PICK m \in todo[v] : mapping' = [mapping EXCEPT ![<<emp[v], m.src>>] =
          [@ EXCEPT !.state = "active", !.key = m.key, !.updated = m.updated,
                    !.seen = Workers]]
  BY DEF UpsertMapping
<1>2. \A r \in Row : [r EXCEPT !.state = "active", !.key = m.key, !.updated = m.updated,
                              !.seen = Workers].state = "active"
  BY DEF Row
<1> QED
  BY <1>1, <1>2 DEF TypeInv, TypeOK, Active

\* A row stays active and seen, or is seen anew, unless w starts another pass.
LEMMA RowKept ==
  ASSUME TypeInv, [Next]_vars, NEW w \in Workers, pc[w] # "next",
         NEW p \in Pairs, Active(p)'
  PROVE  \/ w \in mapping'[p].seen
         \/ Active(p) /\ mapping'[p].seen = mapping[p].seen
         \/ Active(p) /\ \E v \in Workers \ {w} : mapping'[p].seen = mapping[p].seen \ {v}
<1>1. CASE UNCHANGED mapping
  BY <1>1 DEF Active
<1>2. CASE Purge
  BY <1>2, RowEffects DEF Active
<1>3. CASE \E v \in Workers : NextEmployee(v)
  <2> PICK v \in Workers : NextEmployee(v)
    BY <1>3
  <2>1. v # w
    BY DEF NextEmployee
  <2>2. QED
    BY <2>1, RowEffects DEF Active
<1>4. CASE \E v \in Workers : UpsertMapping(v)
  BY <1>4, RowEffects DEF Active
<1>5. CASE \E v \in Workers : MarkCreated(v) \/ MarkUpdated(v)
  BY <1>5, RowEffects DEF Active
<1>6. CASE \E v \in Workers : MarkCancelled(v)
  BY <1>6, RowEffects DEF Active
<1> QED
  BY <1>1, <1>2, <1>3, <1>4, <1>5, <1>6, MappingSteppers

\* A step that is not w's leaves its variables alone.
LEMMA OthersSpareWorker ==
  ASSUME TypeInv, [Next]_vars, NEW w \in Workers, ~(Work(w) \/ Abort(w) \/ Crash(w))
  PROVE  /\ pc'[w] = pc[w] /\ emp'[w] = emp[w] /\ cals'[w] = cals[w]
         /\ todo'[w] = todo[w] /\ cur'[w] = cur[w]
<1> USE DEF TypeInv, TypeOK
<1>1. CASE World \/ Purge \/ Prune \/ UNCHANGED vars
  BY <1>1, OthersSpareEngine DEF engine, vars
<1>2. ASSUME NEW v \in Workers, v # w, Work(v) \/ Abort(v) \/ Crash(v)
      PROVE  /\ pc'[w] = pc[w] /\ emp'[w] = emp[w] /\ cals'[w] = cals[w]
             /\ todo'[w] = todo[w] /\ cur'[w] = cur[w]
  BY <1>2 DEF Work, StartRun, NextEmployee, EndRun, Discover, ScanFails, BeginScan,
     ListCalendar, UpsertMapping, ResolveDestination, SkipUntimed, LookupShared,
     InsertEvent, InsertFails, MarkCreated, CreateDone, UpdateEvent, MarkUpdated,
     UpdateDone, CheckShared, DeleteEvent, DeleteFails, MarkCancelled, CancelDone,
     Abort, Crash, EndPass, Goto, Unhand, Take
<1> QED
  BY <1>1, <1>2 DEF Next

\* How w comes to list, to a stage after the scan, and to the CANCEL loop.
LEMMA StageSteps ==
  ASSUME TypeInv, NEW w \in Workers, Work(w) \/ Abort(w) \/ Crash(w)
  PROVE  /\ pc'[w] = "list" => BeginScan(w) \/ ListCalendar(w) \/ UpsertMapping(w)
         /\ pc'[w] \in Scanned => ResolveDestination(w) \/ pc[w] \in Scanned
         /\ pc'[w] \in Cancelling => UpdateDone(w) \/ CheckShared(w) \/ DeleteEvent(w)
                                     \/ DeleteFails(w) \/ MarkCancelled(w)
         /\ pc'[w] \in {"list"} \cup Scanned => pc[w] # "next" /\ emp'[w] = emp[w]
<1> USE DEF TypeInv, TypeOK, Stages, Goto, EndPass, Scanned, Cancelling
<1>1. CASE \/ StartRun(w) \/ EndRun(w) \/ NextEmployee(w) \/ Discover(w) \/ ScanFails(w)
           \/ BeginScan(w) \/ ListCalendar(w) \/ UpsertMapping(w) \/ ResolveDestination(w)
  BY <1>1 DEF StartRun, EndRun, NextEmployee, Discover, ScanFails, BeginScan, ListCalendar,
     UpsertMapping, ResolveDestination
<1>2. CASE \/ SkipUntimed(w) \/ LookupShared(w) \/ InsertEvent(w) \/ InsertFails(w)
           \/ MarkCreated(w) \/ CreateDone(w) \/ UpdateEvent(w) \/ MarkUpdated(w)
           \/ UpdateDone(w)
  BY <1>2 DEF SkipUntimed, LookupShared, InsertEvent, InsertFails, MarkCreated, CreateDone,
     UpdateEvent, MarkUpdated, UpdateDone
<1>3. CASE \/ CheckShared(w) \/ DeleteEvent(w) \/ DeleteFails(w) \/ MarkCancelled(w)
           \/ CancelDone(w) \/ Abort(w) \/ Crash(w)
  BY <1>3 DEF CheckShared, DeleteEvent, DeleteFails, MarkCancelled, CancelDone, Abort, Crash
<1> QED
  BY <1>1, <1>2, <1>3 DEF Work

\* Before the scan there is no work list.
LEMMA EarlySteps ==
  ASSUME TypeInv, NEW w \in Workers, Work(w) \/ Abort(w) \/ Crash(w),
         pc'[w] \in {"idle", "next", "discover", "scan"}
  PROVE  \/ todo'[w] = {}
         \/ pc[w] \in {"idle", "next", "discover", "scan"} /\ todo'[w] = todo[w]
BY DEF TypeInv, TypeOK, Stages, Goto, EndPass, Work, StartRun, EndRun, NextEmployee, Discover,
   ScanFails, BeginScan, ListCalendar, UpsertMapping, ResolveDestination, SkipUntimed,
   LookupShared, InsertEvent, InsertFails, MarkCreated, CreateDone, UpdateEvent, MarkUpdated,
   UpdateDone, CheckShared, DeleteEvent, DeleteFails, MarkCancelled, CancelDone, Abort, Crash

-----------------------------------------------------------------------------
(* The invariant is inductive.                                              *)

\* A calendar is never forgotten once Discover has stored it.
LEMMA CalendarsKept ==
  ASSUME TypeInv, [Next]_vars, NEW e \in Employees, NEW c \in Calendars,
         calendars[e][c] # "absent"
  PROVE  calendars'[e][c] # "absent"
<1> USE DEF TypeInv, TypeOK
<1>1. CASE UNCHANGED calendars
  BY <1>1
<1>2. CASE \E f \in Employees, k \in Calendars : SetCalendarEnabled(f, k)
  BY <1>2 DEF SetCalendarEnabled
<1>3. CASE \E w \in Workers : Discover(w)
  <2> PICK w \in Workers : Discover(w)
    BY <1>3
  <2>1. PICK stored \in SUBSET Calendars :
          calendars' = [calendars EXCEPT ![emp[w]] = [k \in Calendars |->
                          IF k \in stored /\ @[k] = "absent" THEN DefaultEnabled(emp[w], k) ELSE @[k]]]
    BY DEF Discover
  <2>2. QED
    BY <2>1
<1>4. CASE World \/ Purge \/ Prune \/ UNCHANGED vars
  BY <1>1, <1>2, <1>4 DEF World, Outside, Quieten, Appear, Disappear, Edit, Deauthorize,
     Authorize, Purge,
     Prune, PruneReadActive, PruneList, PruneDelete, PruneEnd, vars
<1>5. ASSUME NEW w \in Workers, Work(w) \/ Abort(w) \/ Crash(w)
      PROVE  UNCHANGED calendars \/ Discover(w)
  BY <1>5 DEF Work, StartRun, NextEmployee, EndRun, ScanFails, BeginScan,
     ListCalendar, UpsertMapping, ResolveDestination, SkipUntimed, LookupShared,
     InsertEvent, InsertFails, MarkCreated, CreateDone, UpdateEvent, MarkUpdated,
     UpdateDone, CheckShared, DeleteEvent, DeleteFails, MarkCancelled, CancelDone,
     Abort, Crash
<1> QED
  BY <1>1, <1>3, <1>4, <1>5 DEF Next

\* A pending event of a list step was listed by the calendar it names.
LEMMA ListStep ==
  ASSUME TypeInv, NEW w \in Workers, ListCalendar(w)
  PROVE  \E c \in cals[w] :
           /\ cals'[w] = cals[w] \ {c}
           /\ \A s \in SourceIds : <<emp[w], s>> \in listed /\ CalendarOf[s] = c =>
                \/ \E m \in todo'[w] : m.src = s
                \/ "list" \in Faults /\ <<emp[w], s>> \in Skipped(w)
           /\ \A m \in todo'[w] : CalendarOf[m.src] = c
<1> DEFINE Found(c) == {[src |-> s, key |-> invitation[s].key,
                         updated |-> invitation[s].version, dest |-> None] :
                         s \in {t \in SourceIds : <<emp[w], t>> \in listed
                                                /\ CalendarOf[t] = c}}
<1>1. PICK c \in cals[w] : /\ cals' = [cals EXCEPT ![w] = @ \ {c}]
                          /\ \/ todo' = [todo EXCEPT ![w] = Found(c)]
                             \/ "list" \in Faults /\ UNCHANGED todo
  BY DEF ListCalendar, May
<1>2. /\ cals'[w] = cals[w] \ {c} /\ pc[w] = "list" /\ pc'[w] = "list"
      /\ todo'[w] = Found(c) \/ ("list" \in Faults /\ todo'[w] = {})
  <2>1. pc[w] = "list" /\ pc'[w] = "list" /\ todo[w] = {}
    BY DEF ListCalendar
  <2> HIDE DEF Found
  <2> QED
    BY <1>1, <2>1 DEF TypeInv, TypeOK
<1>3. ASSUME NEW s \in SourceIds, <<emp[w], s>> \in listed, CalendarOf[s] = c
      PROVE  \E m \in Found(c) : m.src = s
  <2> DEFINE m == [src |-> s, key |-> invitation[s].key,
                   updated |-> invitation[s].version, dest |-> None]
  <2>1. m \in Found(c) /\ m.src = s
    BY <1>3
  <2>2. QED
    BY <2>1
<1>4. ASSUME NEW m \in Found(c) PROVE CalendarOf[m.src] = c
  <2>1. PICK s \in SourceIds : /\ CalendarOf[s] = c
                              /\ m = [src |-> s, key |-> invitation[s].key,
                                     updated |-> invitation[s].version, dest |-> None]
    OBVIOUS
  <2>2. QED
    BY <2>1
<1>5. CASE todo'[w] = {} /\ "list" \in Faults
  <2>1. c \in cals[w] \ cals'[w] /\ pc[w] = "list" /\ pc'[w] = "list"
    BY <1>2
  <2>2. ASSUME NEW s \in SourceIds, <<emp[w], s>> \in listed, CalendarOf[s] = c
        PROVE  <<emp[w], s>> \in Skipped(w)
    BY <1>5, <2>1, <2>2 DEF Skipped
  <2>3. QED
    BY <1>2, <1>5, <2>2
<1> HIDE DEF Found
<1> QED
  BY <1>2, <1>3, <1>4, <1>5

\* A scan that can read the calendars leaves nothing behind.
LEMMA NothingSkippedIfReadable ==
  ASSUME TypeInv, [Next]_vars, "list" \notin Faults, NEW w \in Workers
  PROVE  Skipped(w) = {}
<1> USE DEF TypeInv, TypeOK
<1>1. CASE ListCalendar(w)
  <2> SUFFICES ASSUME NEW p \in Skipped(w) PROVE FALSE
    OBVIOUS
  <2>1. PICK c \in cals[w] :
          /\ cals'[w] = cals[w] \ {c}
          /\ \A s \in SourceIds : <<emp[w], s>> \in listed /\ CalendarOf[s] = c =>
               \E m \in todo'[w] : m.src = s
    BY <1>1, ListStep
  <2>2. /\ p \in listed /\ p[1] = emp[w] /\ CalendarOf[p[2]] = c
        /\ \A m \in todo'[w] : m.src # p[2]
    BY <2>1 DEF Skipped
  <2>3. p[2] \in SourceIds /\ p = <<emp[w], p[2]>>
    BY <2>2 DEF Pairs
  <2> QED
    BY <2>1, <2>2, <2>3
<1>2. CASE ~ListCalendar(w) /\ pc[w] = "list" /\ pc'[w] = "list"
  <2>1. cals'[w] = cals[w]
    <3>1. CASE Work(w) \/ Abort(w) \/ Crash(w)
      <4>1. ~BeginScan(w)
        BY <1>2 DEF BeginScan
      <4>2. UpsertMapping(w)
        BY <1>2, <3>1, <4>1, StageSteps
      <4> QED
        BY <4>2 DEF UpsertMapping
    <3>2. CASE ~(Work(w) \/ Abort(w) \/ Crash(w))
      BY <3>2, OthersSpareWorker
    <3> QED
      BY <3>1, <3>2
  <2> QED
    BY <2>1 DEF Skipped
<1>3. CASE ~(pc[w] = "list" /\ pc'[w] = "list")
  BY <1>3 DEF Skipped
<1> QED
  BY <1>1, <1>2, <1>3

\* Rows are stored only from calendars Discover knows.
LEMMA NextKnownInv ==
  ASSUME TypeInv, KnownInv, [Next]_vars
  PROVE  KnownInv'
<1> USE DEF TypeInv, TypeOK
<1>1. ASSUME NEW e \in Employees, NEW s \in SourceIds, CalendarKnown(e, s)
      PROVE  CalendarKnown(e, s)'
  BY <1>1, CalendarsKept, ConstantsAssumption DEF CalendarKnown
<1>2. ASSUME NEW p \in Pairs, Active(p)' PROVE CalendarKnown(p[1], p[2])'
  <2>1. p[1] \in Employees /\ p[2] \in SourceIds /\ p = <<p[1], p[2]>>
    BY DEF Pairs
  <2>2. CASE Active(p)
    BY <1>1, <2>1, <2>2 DEF KnownInv
  <2>3. CASE \E v \in Workers : UpsertMapping(v) /\ \E m \in todo[v] : p = <<emp[v], m.src>>
    BY <1>1, <2>1, <2>3 DEF UpsertMapping, KnownInv
  <2>4. CASE UNCHANGED mapping
    BY <1>2, <2>2, <2>4 DEF Active
  <2>5. QED
    <3>1. CASE Purge
      BY <1>2, <2>2, <3>1, RowEffects, ConstantsAssumption DEF Active
    <3>2. ASSUME NEW v \in Workers, NextEmployee(v) \/ MarkCreated(v) \/ MarkUpdated(v)
                                    \/ MarkCancelled(v)
          PROVE  Active(p)
      BY <1>2, <3>2, RowEffects DEF Active
    <3>3. ASSUME NEW v \in Workers, UpsertMapping(v)
          PROVE  Active(p) \/ \E m \in todo[v] : p = <<emp[v], m.src>>
      BY <1>2, <3>3, RowEffects DEF Active
    <3>4. QED
      BY <2>2, <2>3, <2>4, <3>1, <3>2, <3>3, MappingSteppers
<1>3. ASSUME NEW w \in Workers, pc'[w] = "list"
      PROVE  /\ \A c \in cals'[w] : calendars'[emp'[w]][c] # "absent"
             /\ \A m \in todo'[w] : CalendarKnown(emp[w], m.src)'
  <2>1. CASE ~(Work(w) \/ Abort(w) \/ Crash(w))
    <3>1. /\ pc[w] = "list" /\ emp'[w] = emp[w] /\ emp[w] \in Employees
          /\ cals'[w] = cals[w] /\ todo'[w] = todo[w]
      BY <1>3, <2>1, OthersSpareWorker DEF WorkerOK
    <3>2. \A c \in cals[w] : calendars'[emp[w]][c] # "absent"
      BY <3>1, CalendarsKept DEF KnownInv
    <3>3. \A m \in todo[w] : m.src \in SourceIds
      BY DEF Pending
    <3>4. \A m \in todo[w] : CalendarKnown(emp[w], m.src)'
      BY <1>1, <3>1, <3>3 DEF KnownInv, CalendarKnown
    <3>5. QED
      BY <3>1, <3>2, <3>4 DEF CalendarKnown
  <2>2. CASE BeginScan(w)
    BY <2>2 DEF BeginScan, KnownInv, CalendarKnown, WorkerOK
  <2>3. CASE ListCalendar(w)
    <3>1. pc[w] = "list" /\ UNCHANGED <<calendars, emp>>
      BY <2>3 DEF ListCalendar
    <3>2. QED
      BY <2>3, <3>1, ListStep DEF KnownInv, CalendarKnown
  <2>4. CASE UpsertMapping(w)
    BY <2>4 DEF UpsertMapping, Take, KnownInv, CalendarKnown
  <2>5. QED
    BY <1>3, <2>1, <2>2, <2>3, <2>4, StageSteps
<1>4. ASSUME NEW w \in Workers, pc'[w] \in {"idle", "next", "discover", "scan"}
      PROVE  todo'[w] = {}
  BY <1>4, OthersSpareWorker, EarlySteps DEF KnownInv
<1> QED
  BY <1>2, <1>3, <1>4 DEF KnownInv

\* ScanInv of a row that w's scan has passed stays true while w is in its pass.
LEMMA PassedRow ==
  ASSUME HistoryInv, [HistoryNext]_historyVars, NEW w \in Workers, pc[w] # "next",
         NEW p \in Pairs, Active(p)',
         Active(p) => w \in mapping[p].seen \/ p \in Unseen(w)
  PROVE  w \in mapping'[p].seen \/ p \in Unseen(w)'
BY HistoryOnlyRecords, HistoryGrows, RowKept DEF HistoryInv

\* The scan of one employee, whoever else works on the rows.
LEMMA NextScanInv ==
  ASSUME HistoryInv, [HistoryNext]_historyVars, NEW w \in Workers
  PROVE  ScanInv(w)'
<1> USE DEF HistoryInv, TypeInv, TypeOK
<1>1. [Next]_vars /\ HiddenInv' /\ (pc[w] # "next" => Unseen(w) \subseteq Unseen(w)')
  BY HistoryOnlyRecords, HistoryGrows
<1> SUFFICES ASSUME pc'[w] \in {"list"} \cup Scanned, NEW s \in SourceIds,
                    Active(<<emp[w], s>>)',
                    emp'[w] = emp[w] /\ pc[w] # "next" /\ emp[w] \in Employees
             PROVE  \/ w \in mapping'[<<emp[w], s>>].seen
                    \/ <<emp[w], s>> \in Unseen(w)'
                    \/ pc'[w] = "list" /\ ToCome(w, s)'
  <2>1. pc'[w] \in {"list"} \cup Scanned => emp'[w] = emp[w] /\ pc[w] \notin {"idle", "next"}
    <3>1. CASE Work(w) \/ Abort(w) \/ Crash(w)
      BY <3>1, StageSteps DEF StartRun, BeginScan, ListCalendar, UpsertMapping,
         ResolveDestination, Scanned, Cancelling
    <3>2. CASE ~(Work(w) \/ Abort(w) \/ Crash(w))
      BY <1>1, <3>2, OthersSpareWorker DEF Scanned, Cancelling
    <3>3. QED
      BY <3>1, <3>2
  <2>2. QED
    BY <2>1 DEF ScanInv, Active, WorkerOK
<1> DEFINE p == <<emp[w], s>>
<1>2. p \in Pairs
  BY DEF Pairs
<1>3. CASE pc[w] \in Scanned
  <2>1. Active(p) => w \in mapping[p].seen \/ p \in Unseen(w)
    BY <1>3 DEF ScanInv, Scanned, Cancelling
  <2>2. QED
    BY <1>2, <2>1, PassedRow
<1>4. CASE pc[w] = "list" /\ ~(Work(w) \/ Abort(w) \/ Crash(w))
  <2>1. pc'[w] = "list" /\ (ToCome(w, s) => ToCome(w, s)')
    BY <1>1, <1>4, OthersSpareWorker DEF ToCome
  <2>2. Active(p) => w \in mapping[p].seen \/ p \in Unseen(w) \/ ToCome(w, s)
    BY <1>4 DEF ScanInv
  <2>3. QED
    BY <1>2, <2>1, <2>2, PassedRow
<1>5. CASE BeginScan(w)
  <2>1. CASE p \in Hidden'
    BY <1>1, <2>1 DEF HiddenInv, Unseen
  <2>2. CASE p \in Visible'
    <3>1. CalendarKnown(emp[w], s)
      BY <1>2, <1>5 DEF BeginScan, KnownInv, Active
    <3>2. calendars[emp[w]][CalendarOf[s]] # "disabled"
      BY <1>5, <2>2 DEF BeginScan, Visible
    <3>3. CalendarOf[s] \in cals'[w] /\ pc'[w] = "list"
      BY <1>5, <3>1, <3>2, ConstantsAssumption DEF BeginScan, CalendarKnown, Goto
    <3>4. QED
      BY <3>3 DEF ToCome
  <2>3. QED
    BY <1>2, <2>1, <2>2 DEF Hidden
<1>6. CASE ListCalendar(w)
  <2>1. pc[w] = "list" /\ pc'[w] = "list" /\ todo[w] = {} /\ UNCHANGED <<world, mapping>>
    BY <1>6 DEF ListCalendar
  <2>2. PICK c \in cals[w] :
          /\ cals'[w] = cals[w] \ {c}
          /\ <<emp[w], s>> \in listed /\ CalendarOf[s] = c =>
               (\E m \in todo'[w] : m.src = s) \/ p \in Skipped(w)
    BY <1>6, ListStep
  <2>3. CASE p \in Unseen(w) \/ w \in mapping[p].seen
    BY <1>1, <2>1, <2>3
  <2>4. CASE CalendarOf[s] \in cals[w] /\ CalendarOf[s] # c
    BY <2>1, <2>2, <2>4 DEF ToCome
  <2>5. CASE CalendarOf[s] = c /\ p \notin Unseen(w)
    <3>1. p \in listed
      BY <1>2, <2>5 DEF HiddenInv, Hidden, Visible, Unseen
    <3>2. p \in Skipped(w) => p \in Unseen(w)'
      BY HistoryGrows
    <3>3. QED
      BY <2>1, <2>2, <2>5, <3>1, <3>2 DEF ToCome
  <2>6. QED
    <3>1. Active(p)
      BY <2>1 DEF Active
    <3>2. \/ p \in Unseen(w) \/ w \in mapping[p].seen \/ CalendarOf[s] \in cals[w]
      BY <2>1, <3>1 DEF ScanInv, ToCome
    <3>3. QED
      BY <2>3, <2>4, <2>5, <3>2
<1>7. CASE UpsertMapping(w)
  <2>1. pc[w] = "list" /\ pc'[w] = "list" /\ cals' = cals
    BY <1>7 DEF UpsertMapping
  <2>2. PICK m \in todo[w] :
          /\ todo' = [todo EXCEPT ![w] = @ \ {m}]
          /\ mapping' = [mapping EXCEPT ![<<emp[w], m.src>>] =
               [@ EXCEPT !.state = "active", !.key = m.key, !.updated = m.updated,
                         !.seen = Workers]]
    BY <1>7 DEF UpsertMapping, Take
  <2>3. CASE m.src = s
    <3>1. \A r \in Row : [r EXCEPT !.state = "active", !.key = m.key, !.updated = m.updated,
                                  !.seen = Workers].seen = Workers
      BY DEF Row
    <3>2. mapping'[p].seen = Workers
      BY <1>2, <2>2, <2>3, <3>1
    <3>3. QED
      BY <3>2
  <2>4. CASE m.src # s
    <3>1. mapping'[p] = mapping[p]
      BY <1>2, <2>2, <2>4
    <3>2. ToCome(w, s) => ToCome(w, s)'
      BY <2>1, <2>2, <2>4 DEF ToCome
    <3>3. \/ w \in mapping[p].seen \/ p \in Unseen(w) \/ ToCome(w, s)
      BY <2>1, <3>1 DEF ScanInv, Active
    <3>4. QED
      BY <1>1, <2>1, <3>1, <3>2, <3>3
  <2>5. QED
    BY <2>3, <2>4
<1>8. CASE ResolveDestination(w)
  <2>1. pc[w] = "list" /\ todo[w] = {} /\ cals[w] = {}
    BY <1>8 DEF ResolveDestination
  <2>2. ~ToCome(w, s)
    BY <2>1 DEF ToCome
  <2>3. Active(p) => w \in mapping[p].seen \/ p \in Unseen(w)
    BY <2>1, <2>2 DEF ScanInv
  <2>4. QED
    BY <1>2, <2>3, PassedRow
<1>9. CASE ~(Work(w) \/ Abort(w) \/ Crash(w)) /\ pc[w] \notin Scanned /\ pc[w] # "list"
  BY <1>1, <1>9, OthersSpareWorker
<1> QED
  BY <1>3, <1>4, <1>5, <1>6, <1>7, <1>8, <1>9, StageSteps

\* The CANCEL loop works on rows that were not to be seen only, from the query to the last statement.
LEMMA NextCancelInv ==
  ASSUME HistoryInv, [HistoryNext]_historyVars, NEW w \in Workers
  PROVE  CancelInv(w)'
<1> USE DEF HistoryInv, TypeInv, TypeOK
<1>1. [Next]_vars /\ (pc[w] # "next" => Unseen(w) \subseteq Unseen(w)')
  BY HistoryOnlyRecords, HistoryGrows
<1>2. CASE ~(Work(w) \/ Abort(w) \/ Crash(w))
  BY <1>1, <1>2, OthersSpareWorker DEF CancelInv, CurRow, Cancelling
<1>3. CASE UpdateDone(w)
  <2>1. pc'[w] = "cancel" /\ pc[w] = "update" /\ UNCHANGED <<emp, mapping>>
    BY <1>3 DEF UpdateDone, Goto
  <2>2. todo'[w] = ToCancel(emp[w], w)
    BY <1>3 DEF UpdateDone
  <2>3. ASSUME NEW m \in ToCancel(emp[w], w) PROVE <<emp[w], m.src>> \in Unseen(w)
    <3>1. PICK s \in SourceIds : /\ m.src = s /\ Active(<<emp[w], s>>)
                                /\ w \notin mapping[<<emp[w], s>>].seen
      <4>1. PICK q \in RowsOf(emp[w]) : /\ m = PendingOf(q) /\ Active(q)
                                       /\ w \notin mapping[q].seen
        BY DEF ToCancel
      <4>2. PICK s \in SourceIds : q = <<emp[w], s>>
        BY DEF RowsOf
      <4>3. m.src = s
        BY <4>1, <4>2 DEF PendingOf
      <4> QED
        BY <4>1, <4>2, <4>3
    <3>2. QED
      BY <2>1, <3>1 DEF ScanInv, Scanned
  <2>4. QED
    BY <1>1, <2>1, <2>2, <2>3 DEF CancelInv, Cancelling
<1>4. CASE CheckShared(w)
  <2>1. pc[w] = "cancel" /\ UNCHANGED emp
    BY <1>4 DEF CheckShared
  <2>2. PICK m \in todo[w] :
          /\ todo' = [todo EXCEPT ![w] = @ \ {m}]
          /\ cur' = [cur EXCEPT ![w] = m] \/ UNCHANGED pc
    BY <1>4 DEF CheckShared, Take
  <2>3. <<emp[w], m.src>> \in Unseen(w)'
    BY <1>1, <2>1, <2>2 DEF CancelInv, Cancelling
  <2>4. \A n \in todo'[w] : <<emp[w], n.src>> \in Unseen(w)'
    BY <1>1, <2>1, <2>2 DEF CancelInv, Cancelling
  <2>5. QED
    BY <2>1, <2>2, <2>3, <2>4 DEF CancelInv, CurRow
<1>5. CASE DeleteEvent(w)
  <2>1. pc[w] = "delete" /\ UNCHANGED <<emp, todo>>
    BY <1>5 DEF DeleteEvent
  <2>2. UNCHANGED cur \/ pc'[w] = "cancel"
    BY <1>5 DEF DeleteEvent, Goto
  <2>3. QED
    BY <1>1, <2>1, <2>2 DEF CancelInv, CurRow, Cancelling
<1>6. CASE DeleteFails(w) \/ MarkCancelled(w)
  <2>1. pc[w] \in {"delete", "mark_cancelled"} /\ UNCHANGED <<emp, todo>> /\ pc'[w] = "cancel"
    BY <1>6 DEF DeleteFails, MarkCancelled, Goto
  <2>2. QED
    BY <1>1, <2>1 DEF CancelInv, Cancelling
<1>7. CASE pc'[w] \notin Cancelling
  BY <1>7 DEF CancelInv, Cancelling
<1> QED
  BY <1>2, <1>3, <1>4, <1>5, <1>6, <1>7, StageSteps

\* It holds of every run.
LEMMA HistoryInductive == HistorySpec => []HistoryInv
<1>1. HistoryInit => HistoryInv
  <2> SUFFICES ASSUME HistoryInit PROVE HistoryInv
    OBVIOUS
  <2>1. TypeInv
    BY InitTypeInv DEF HistoryInit
  <2>2. KnownInv
    BY DEF HistoryInit, Init, KnownInv, Active, NoRow
  <2>3. HiddenInv /\ hidden \in [Workers -> SUBSET Pairs] /\ unread \in [Workers -> SUBSET Pairs]
    BY DEF HistoryInit, HiddenInv, Hidden
  <2>4. \A w \in Workers : ScanInv(w) /\ CancelInv(w)
    BY DEF HistoryInit, Init, ScanInv, CancelInv, Scanned, Cancelling
  <2> QED
    BY <2>1, <2>2, <2>3, <2>4 DEF HistoryInv
<1>2. HistoryInv /\ [HistoryNext]_historyVars => HistoryInv'
  <2> SUFFICES ASSUME HistoryInv, [HistoryNext]_historyVars PROVE HistoryInv'
    OBVIOUS
  <2>1. TypeInv' /\ KnownInv'
    BY HistoryOnlyRecords, NextTypeInv, NextKnownInv DEF HistoryInv
  <2>2. /\ HiddenInv'
        /\ hidden' \in [Workers -> SUBSET Pairs] /\ unread' \in [Workers -> SUBSET Pairs]
    BY HistoryGrows DEF HistoryInv
  <2>3. \A w \in Workers : ScanInv(w)' /\ CancelInv(w)'
    BY NextScanInv, NextCancelInv
  <2> QED
    BY <2>1, <2>2, <2>3 DEF HistoryInv
<1> QED
  BY <1>1, <1>2, PTL DEF HistorySpec

-----------------------------------------------------------------------------
(* The theorems.                                                            *)

\* For any number of workers and whatever fails: the mappings that are cancelled are
\* those whose meeting was withdrawn, or whose calendar was disabled or could not be
\* read, during the pass that cancels them (SyncEmployee).
THEOREM CancelledForCause == HistorySpec => CancelledOnlyIfUnseen
<1>1. ASSUME HistoryInv, [Next]_vars, NEW p \in Pairs, Active(p), mapping'[p].state # "active"
      PROVE  \E w \in Workers : p \in Unseen(w)
  <2>1. PICK w \in Workers : MarkCancelled(w) /\ p = CurRow(w)
    <3>1. ~UNCHANGED mapping
      BY <1>1 DEF Active
    <3>2. ~Purge
      BY <1>1 DEF Purge, Active, HistoryInv, TypeInv, TypeOK
    <3>3. PICK v \in Workers : \/ NextEmployee(v) \/ UpsertMapping(v)
                              \/ MarkCreated(v) \/ MarkUpdated(v) \/ MarkCancelled(v)
      BY <1>1, <3>1, <3>2, MappingSteppers
    <3>4. ~UpsertMapping(v)
      BY <1>1, UpsertActivates DEF HistoryInv, Active
    <3>5. MarkCancelled(v) /\ p = CurRow(v)
      BY <1>1, <3>3, <3>4, RowEffects DEF HistoryInv, Active
    <3> QED
      BY <3>5
  <2>2. pc[w] = "mark_cancelled"
    BY <2>1 DEF MarkCancelled
  <2> QED
    BY <1>1, <2>1, <2>2 DEF HistoryInv, CancelInv
<1>2. HistoryInv /\ [HistoryNext]_historyVars =>
        [\A p \in Pairs : Active(p) /\ mapping'[p].state # "active" =>
           \E w \in Workers : p \in Unseen(w)]_historyVars
  BY <1>1, HistoryOnlyRecords
<1> QED
  BY <1>2, HistoryInductive, PTL DEF HistorySpec, CancelledOnlyIfUnseen

\* With a single worker the same holds of every attendee of an event the worker
\* deletes: nobody whose calendar showed the meeting throughout loses it.
THEOREM RemovedForCause ==
  ASSUME OneWorker
  PROVE  HistorySpec => RemovedOnlyIfUnseen
<1>1. HistoryInit => DeleteInv
  BY DEF HistoryInit, Init, DeleteInv
<1>2. HistoryInv /\ DeleteInv /\ [HistoryNext]_historyVars => DeleteInv'
  BY HistoryOnlyRecords, NextDeleteInv DEF HistoryInv
<1>3. ASSUME HistoryInv, DeleteInv, [Next]_vars,
             NEW d \in EventIds, Live(d), event'[d].state = "deleted", UNCHANGED doomed
      PROVE  \E w \in Workers : Refs(d) \subseteq Unseen(w)
  <2>1. PICK w \in Workers : pc[w] = "delete" /\ cur[w].dest = d
    BY <1>3, EventRemoval DEF HistoryInv
  <2>2. Refs(d) \subseteq {CurRow(w)} /\ CurRow(w) \in Unseen(w)
    BY <1>3, <2>1 DEF DeleteInv, HistoryInv, CancelInv
  <2> QED
    BY <2>2
<1>4. HistoryInv /\ DeleteInv /\ [HistoryNext]_historyVars =>
        [\A d \in EventIds : Live(d) /\ event'[d].state = "deleted" /\ UNCHANGED doomed =>
           \E w \in Workers : Refs(d) \subseteq Unseen(w)]_historyVars
  BY <1>3, HistoryOnlyRecords
<1> QED
  BY <1>1, <1>2, <1>4, HistoryInductive, PTL DEF HistorySpec, RemovedOnlyIfUnseen

\* As long as every calendar can be read, migration 0003 is right about last_seen_at:
\* a single worker deletes an event only if the meeting was withdrawn, or its calendar
\* disabled, during the pass, for every attendee the event is kept for.
THEOREM RemovedIfReadable ==
  ASSUME OneWorker, "list" \notin Faults
  PROVE  HistorySpec => RemovedOnlyIfWithdrawn
<1> DEFINE AllRead == \A w \in Workers : unread[w] = {}
<1>1. HistoryInit => AllRead
  BY DEF HistoryInit
<1>2. HistoryInv /\ AllRead /\ [HistoryNext]_historyVars => AllRead'
  <2> SUFFICES ASSUME HistoryInv, AllRead, [HistoryNext]_historyVars, NEW w \in Workers
               PROVE  unread'[w] = {}
    OBVIOUS
  <2>1. Skipped(w) = {}
    BY HistoryOnlyRecords, NothingSkippedIfReadable DEF HistoryInv
  <2> QED
    BY <2>1 DEF HistoryNext, Record, historyVars
<1>3. AllRead /\ [\A d \in EventIds : Live(d) /\ event'[d].state = "deleted" /\ UNCHANGED doomed =>
                    \E w \in Workers : Refs(d) \subseteq Unseen(w)]_historyVars
        => [\A d \in EventIds : Live(d) /\ event'[d].state = "deleted" /\ UNCHANGED doomed =>
              \E w \in Workers : Refs(d) \subseteq hidden[w]]_historyVars
  BY DEF Unseen
<1> HIDE DEF AllRead
<1> QED
  BY <1>1, <1>2, <1>3, HistoryInductive, RemovedForCause, PTL
     DEF HistorySpec, RemovedOnlyIfUnseen, RemovedOnlyIfWithdrawn

=============================================================================
