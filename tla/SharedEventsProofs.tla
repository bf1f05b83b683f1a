------------------------- MODULE SharedEventsProofs -------------------------
(* CalendarSync implements SharedEvents, for every value of its constants   *)
(* that has one worker and one organization.                                *)
EXTENDS CalendarSyncProofs

-----------------------------------------------------------------------------
(* The invariant.                                                          *)

\* The rows the CREATE loop has still to do, and has in hand, have no event yet.
CreateInv ==
  \A w \in Workers :
    /\ pc[w] \in {"create", "insert", "mark_created"} =>
         \A m \in todo[w] :
           /\ Active(<<emp[w], m.src>>) /\ mapping[<<emp[w], m.src>>].dest = None
           /\ \A n \in todo[w] : n.src = m.src => n = m
    /\ pc[w] \in {"insert", "mark_created"} =>
         /\ Active(CurRow(w)) /\ mapping[CurRow(w)].dest = None
         /\ \A m \in todo[w] : m.src # cur[w].src

\* The CANCEL loop lets go of the event its row names, and a row it is about to
\* mark cancelled is not the only one of an event that is still there.
CancelInv ==
  \A w \in Workers :
    /\ pc[w] \in {"cancel", "delete", "mark_cancelled"} =>
         \A m \in todo[w] :
           /\ m.dest \in EventIds
           /\ Active(<<emp[w], m.src>>) => mapping[<<emp[w], m.src>>].dest = m.dest
    /\ pc[w] \in {"delete", "mark_cancelled"} =>
         /\ cur[w].dest \in EventIds
         /\ Active(CurRow(w)) => mapping[CurRow(w)].dest = cur[w].dest
    /\ pc[w] = "mark_cancelled" =>
         ~Live(cur[w].dest) \/ Refs(cur[w].dest) # {CurRow(w)}

\* A live event is of one of the organizations.
OrgInv == \A d \in EventIds : Live(d) => event[d].org \in Orgs

RefInv == CreateInv /\ CancelInv /\ OrgInv /\ pruning = "idle"

Creating == {"create", "insert", "mark_created"}
Cancelling == {"cancel", "delete", "mark_cancelled"}

-----------------------------------------------------------------------------
(* Which steps lead where.                                                 *)

\* The stages of the CREATE and of the CANCEL loop are reached by their own steps.
LEMMA LoopSteps ==
  ASSUME TypeInv, NEW w \in Workers, Work(w) \/ Abort(w) \/ Crash(w)
  PROVE  /\ pc'[w] \in Creating =>
              \/ ResolveDestination(w) \/ (SkipUntimed(w) /\ pc[w] = "create")
              \/ LookupShared(w) \/ InsertEvent(w) \/ InsertFails(w) \/ MarkCreated(w)
         /\ pc'[w] \in Cancelling =>
              \/ UpdateDone(w) \/ CheckShared(w)
              \/ DeleteEvent(w) \/ DeleteFails(w) \/ MarkCancelled(w)
<1>1. ASSUME pc'[w] \in Creating
      PROVE  \/ ResolveDestination(w) \/ (SkipUntimed(w) /\ pc[w] = "create")
             \/ LookupShared(w) \/ InsertEvent(w) \/ InsertFails(w) \/ MarkCreated(w)
  BY <1>1 DEF Creating, Cancelling, TypeInv, TypeOK, Stages, Work, StartRun, NextEmployee, EndRun,
     Discover, ScanFails, BeginScan, ListCalendar, UpsertMapping, ResolveDestination,
     SkipUntimed, LookupShared, InsertEvent, InsertFails, MarkCreated, CreateDone,
     UpdateEvent, MarkUpdated, UpdateDone, CheckShared, DeleteEvent, DeleteFails,
     MarkCancelled, CancelDone, Abort, Crash, EndPass, Goto
<1>2. ASSUME pc'[w] \in Cancelling
      PROVE  \/ UpdateDone(w) \/ CheckShared(w)
             \/ DeleteEvent(w) \/ DeleteFails(w) \/ MarkCancelled(w)
  BY <1>2 DEF Creating, Cancelling, TypeInv, TypeOK, Stages, Work, StartRun, NextEmployee, EndRun,
     Discover, ScanFails, BeginScan, ListCalendar, UpsertMapping, ResolveDestination,
     SkipUntimed, LookupShared, InsertEvent, InsertFails, MarkCreated, CreateDone,
     UpdateEvent, MarkUpdated, UpdateDone, CheckShared, DeleteEvent, DeleteFails,
     MarkCancelled, CancelDone, Abort, Crash, EndPass, Goto
<1> QED
  BY <1>1, <1>2

\* Outside the engine only the purge writes rows, and only cancelled ones.
LEMMA OthersKeepRows ==
  ASSUME TypeInv, World \/ Purge \/ Prune \/ UNCHANGED vars
  PROVE  /\ UNCHANGED engine
         /\ \A p \in Pairs :
              /\ Active(p)' = Active(p)
              /\ Active(p) => mapping'[p].dest = mapping[p].dest
              /\ mapping[p].dest = None => mapping'[p].dest = None
<1>1. UNCHANGED engine
  BY OthersSpareEngine DEF vars, engine
<1>2. CASE Purge
  BY <1>1, <1>2 DEF Purge, NoRow, Active
<1>3. CASE World \/ Prune \/ UNCHANGED vars
  <2>1. UNCHANGED mapping
    BY <1>3 DEF World, Outside, Quieten, Appear, Disappear, Edit, Deauthorize, Authorize,
       SetCalendarEnabled, Prune, PruneReadActive, PruneList, PruneDelete, PruneEnd, vars
  <2>2. QED
    BY <1>1, <2>1 DEF Active
<1> QED
  BY <1>2, <1>3

\* ToCreate names rows without an event, each once.
LEMMA ToCreateRows ==
  ASSUME NEW e \in Employees
  PROVE  \A m \in ToCreate(e) :
           /\ Active(<<e, m.src>>) /\ mapping[<<e, m.src>>].dest = None
           /\ \A n \in ToCreate(e) : n.src = m.src => n = m
BY DEF ToCreate, RowsOf, PendingOf

\* ToCancel names rows with an event, and that event.
LEMMA ToCancelRows ==
  ASSUME TypeOK, NEW e \in Employees, NEW w \in Workers
  PROVE  \A m \in ToCancel(e, w) :
           m.dest \in EventIds /\ mapping[<<e, m.src>>].dest = m.dest
<1> SUFFICES ASSUME NEW m \in ToCancel(e, w)
             PROVE  m.dest \in EventIds /\ mapping[<<e, m.src>>].dest = m.dest
  OBVIOUS
<1>1. PICK s \in SourceIds : m = PendingOf(<<e, s>>) /\ mapping[<<e, s>>].dest # None
  BY DEF ToCancel, RowsOf
<1>2. mapping[<<e, s>>] \in Row
  BY DEF TypeOK, Pairs
<1> QED
  BY <1>1, <1>2 DEF PendingOf, Row, OptEvent

-----------------------------------------------------------------------------
(* The invariant is kept.                                                  *)

LEMMA NextCreateInv ==
  ASSUME OneWorker, TypeInv, CreateInv, [Next]_vars
  PROVE  CreateInv'
<1>1. CASE World \/ Purge \/ Prune \/ UNCHANGED vars
  <2>1. /\ UNCHANGED engine
        /\ \A p \in Pairs : /\ Active(p)' = Active(p)
                            /\ mapping[p].dest = None => mapping'[p].dest = None
    BY <1>1, OthersKeepRows
  <2>2. ASSUME NEW w \in Workers, pc[w] \in Creating, NEW m \in todo[w]
        PROVE  <<emp[w], m.src>> \in Pairs
    <3>1. emp[w] \in Employees /\ m \in Pending
      BY <2>2 DEF TypeInv, TypeOK, WorkerOK, Creating
    <3>2. QED
      BY <3>1 DEF Pairs, Pending
  <2>3. ASSUME NEW w \in Workers, pc[w] \in {"insert", "mark_created"}
        PROVE  CurRow(w) \in Pairs
    BY <2>3 DEF TypeInv, TypeOK, WorkerOK, Pairs, Pending, CurRow
  <2>4. QED
    BY <2>1, <2>2, <2>3 DEF CreateInv, Creating, engine, CurRow
<1>2. CASE \E w \in Workers : Work(w) \/ Abort(w) \/ Crash(w)
  <2> PICK w \in Workers : Work(w) \/ Abort(w) \/ Crash(w)
    BY <1>2
  <2> DEFINE
        Untracked == \A m \in todo[w] :
                       /\ Active(<<emp[w], m.src>>) /\ mapping[<<emp[w], m.src>>].dest = None
                       /\ \A n \in todo[w] : n.src = m.src => n = m
        InHand == /\ Active(CurRow(w)) /\ mapping[CurRow(w)].dest = None
                  /\ \A m \in todo[w] : m.src # cur[w].src
  <2> SUFFICES ASSUME pc'[w] \in Creating
               PROVE  Untracked' /\ (pc'[w] # "create" => InHand')
    BY DEF OneWorker, CreateInv, Creating
  <2> USE DEF TypeInv, TypeOK
  <2>1. CASE ResolveDestination(w)
    <3>1. /\ todo'[w] = ToCreate(emp[w]) /\ UNCHANGED <<mapping, emp>>
          /\ pc'[w] = "create" /\ emp[w] \in Employees
      BY <2>1 DEF ResolveDestination, EndPass, Goto, Creating, WorkerOK
    <3>2. QED
      BY <3>1, ToCreateRows DEF Active
  <2>2. CASE SkipUntimed(w) /\ pc[w] = "create"
    <3>1. todo'[w] \subseteq todo[w] /\ UNCHANGED <<mapping, emp, pc>>
      BY <2>2 DEF SkipUntimed, Take
    <3>2. QED
      BY <2>2, <3>1 DEF CreateInv, Active
  <2>3. CASE LookupShared(w)
    <3>1. PICK m \in todo[w] :
            /\ todo'[w] = todo[w] \ {m}
            /\ \/ \E d \in SharedDestinationForMeeting(CurOrg(w), m) :
                    cur'[w] = [m EXCEPT !.dest = d]
               \/ cur'[w] = m
      BY <2>3 DEF LookupShared, Take
    <3>2. m \in Pending
      BY <3>1
    <3>3. cur'[w].src = m.src
      <4>1. CASE cur'[w] = m
        BY <4>1
      <4>2. CASE \E d \in SharedDestinationForMeeting(CurOrg(w), m) :
                   cur'[w] = [m EXCEPT !.dest = d]
        BY <3>2, <4>2, SharedType, WithDest DEF OptEvent
      <4>3. QED
        BY <3>1, <4>1, <4>2
    <3>4. Untracked /\ UNCHANGED <<mapping, emp>>
      BY <2>3 DEF LookupShared, CreateInv
    <3>5. CurRow(w)' = <<emp[w], m.src>>
      BY <3>3, <3>4 DEF CurRow
    <3>6. QED
      BY <3>1, <3>3, <3>4, <3>5 DEF Active
  <2>4. CASE InsertEvent(w)
    <3>1. pc[w] = "insert" /\ UNCHANGED <<mapping, emp, todo>>
      BY <2>4 DEF InsertEvent
    <3>2. pc'[w] # "create" => cur'[w].src = cur[w].src
      <4>1. PICK d \in Unused : cur' = [cur EXCEPT ![w].dest = d] \/ Goto(w, "create")
        BY <2>4 DEF InsertEvent
      <4>2. cur[w] \in Pending
        BY <3>1 DEF WorkerOK
      <4>3. CASE cur' = [cur EXCEPT ![w].dest = d]
        BY <4>2, <4>3 DEF Pending
      <4>4. QED
        BY <4>1, <4>3 DEF Goto
    <3>3. QED
      BY <3>1, <3>2 DEF CreateInv, CurRow, Active
  <2>5. CASE InsertFails(w)
    BY <2>5 DEF InsertFails, Goto, CreateInv, Active
  <2>6. CASE MarkCreated(w)
    <3>1. /\ pc[w] = "mark_created" /\ pc'[w] = "create"
          /\ UNCHANGED <<emp, todo>>
      BY <2>6 DEF MarkCreated, Goto
    <3>2. \A p \in Pairs : p # CurRow(w) => mapping'[p] = mapping[p]
      BY <2>6 DEF MarkCreated, UpdateRow
    <3>3. \A m \in todo[w] : <<emp[w], m.src>> \in Pairs
      BY <3>1 DEF WorkerOK, Pairs, Pending
    <3>4. \A m \in todo[w] : <<emp[w], m.src>> # CurRow(w)
      BY <3>1 DEF CreateInv, CurRow
    <3>5. QED
      BY <3>1, <3>2, <3>3, <3>4 DEF CreateInv, Active
  <2> QED
    BY <2>1, <2>2, <2>3, <2>4, <2>5, <2>6, LoopSteps
<1> QED
  BY <1>1, <1>2 DEF Next

OneOrganization == \A o1, o2 \in Orgs : o1 = o2

\* Only the engine makes and changes events, unless prune-orphans runs.
LEMMA EngineEvents ==
  ASSUME [Next]_vars, pruning = "idle", ~UNCHANGED event
  PROVE  \E w \in Workers : InsertEvent(w) \/ UpdateEvent(w) \/ DeleteEvent(w)
BY EventSteppers DEF PruneDelete

\* A live event was inserted for an employee, whose organization it keeps.
LEMMA NextOrgInv ==
  ASSUME TypeInv, OrgInv, pruning = "idle", [Next]_vars
  PROVE  OrgInv'
<1> USE DEF TypeInv, TypeOK
<1> SUFFICES ASSUME NEW d \in EventIds, event'[d].state = "live"
             PROVE  event'[d].org \in Orgs
  BY DEF OrgInv, Live
<1>1. CASE UNCHANGED event
  BY <1>1 DEF OrgInv, Live
<1>2. CASE \E w \in Workers : InsertEvent(w)
  <2>1. PICK w \in Workers : InsertEvent(w)
    BY <1>2
  <2>2. PICK c \in Unused : event' = [event EXCEPT ![c] = Written(w)]
    BY <2>1 DEF InsertEvent
  <2>3. emp[w] \in Employees
    BY <2>1 DEF InsertEvent, WorkerOK
  <2>4. Written(w).org \in Orgs
    BY <2>3, ConstantsAssumption DEF Written, CurOrg
  <2>5. CASE d = c
    BY <2>2, <2>4, <2>5
  <2>6. CASE d # c
    BY <2>2, <2>6 DEF OrgInv, Live
  <2> QED
    BY <2>5, <2>6
<1>3. CASE \E w \in Workers : UpdateEvent(w)
  <2>1. PICK w \in Workers : UpdateEvent(w)
    BY <1>3
  <2>2. PICK m \in todo[w] :
          \/ event' = [event EXCEPT ![m.dest] = [@ EXCEPT !.src = m.src, !.version = m.updated]]
          \/ event' = event
    BY <2>1 DEF UpdateEvent
  <2>3. \A x \in Event :
          /\ [x EXCEPT !.src = m.src, !.version = m.updated].state = x.state
          /\ [x EXCEPT !.src = m.src, !.version = m.updated].org = x.org
    BY DEF Event
  <2>4. event'[d].state = event[d].state /\ event'[d].org = event[d].org
    <3>1. CASE event' = event
      BY <3>1
    <3>2. CASE event' = [event EXCEPT ![m.dest] = [@ EXCEPT !.src = m.src, !.version = m.updated]]
      BY <2>3, <3>2
    <3> QED
      BY <2>2, <3>1, <3>2
  <2> QED
    BY <2>4 DEF OrgInv, Live
<1>4. CASE \E w \in Workers : DeleteEvent(w)
  <2>1. PICK w \in Workers : DeleteEvent(w)
    BY <1>4
  <2>2. event' = event \/ event' = [event EXCEPT ![cur[w].dest].state = "deleted"]
    BY <2>1 DEF DeleteEvent
  <2>3. event'[d] = event[d] \/ event'[d].state = "deleted"
    BY <2>2 DEF Event
  <2> QED
    BY <2>3 DEF OrgInv, Live
<1> QED
  BY <1>1, <1>2, <1>3, <1>4, EngineEvents

\* Where there is one organization, a delete leaves the event not live.
LEMMA DeleteKills ==
  ASSUME OneOrganization, TypeInv, OrgInv, NEW w \in Workers, DeleteEvent(w),
         cur[w].dest \in EventIds
  PROVE  event'[cur[w].dest].state # "live"
<1> USE DEF TypeInv, TypeOK
<1>1. CurOrg(w) \in Orgs
  BY ConstantsAssumption DEF DeleteEvent, WorkerOK, CurOrg
<1>2. CASE Reachable(w, cur[w].dest)
  <2>1. event' = [event EXCEPT ![cur[w].dest].state = "deleted"]
    BY <1>2 DEF DeleteEvent
  <2> QED
    BY <2>1 DEF Event
<1>3. CASE ~Reachable(w, cur[w].dest)
  <2>1. event' = event
    BY <1>3 DEF DeleteEvent
  <2>2. ~Live(cur[w].dest)
    BY <1>1, <1>3 DEF Reachable, OrgInv, OneOrganization
  <2> QED
    BY <2>1, <2>2 DEF Live
<1> QED
  BY <1>2, <1>3

\* The engine lets go of what its rows still name, last or not.
LEMMA NextCancelInv ==
  ASSUME OneWorker, OneOrganization, TypeInv, OrgInv, CancelInv, [Next]_vars,
         pruning = "idle"
  PROVE  CancelInv'
<1>1. CASE World \/ Purge \/ Prune \/ UNCHANGED vars
  <2>1. /\ UNCHANGED engine
        /\ \A p \in Pairs : /\ Active(p)' = Active(p)
                            /\ Active(p) => mapping'[p].dest = mapping[p].dest
    BY <1>1, OthersKeepRows
  <2>2. ASSUME NEW d PROVE Refs(d)' = Refs(d)
    BY <2>1 DEF Refs
  <2>3. UNCHANGED event
    BY <1>1 DEF World, Outside, Quieten, Appear, Disappear, Edit, Deauthorize, Authorize,
       SetCalendarEnabled, Purge, Prune, PruneReadActive, PruneList, PruneDelete, PruneEnd, vars
  <2>4. ASSUME NEW w \in Workers, pc[w] \in Cancelling, NEW m \in todo[w]
        PROVE  <<emp[w], m.src>> \in Pairs
    <3>1. emp[w] \in Employees /\ m \in Pending
      BY <2>4 DEF TypeInv, TypeOK, WorkerOK, Cancelling
    <3> QED
      BY <3>1 DEF Pairs, Pending
  <2>5. ASSUME NEW w \in Workers, pc[w] \in {"delete", "mark_cancelled"}
        PROVE  CurRow(w) \in Pairs
    BY <2>5 DEF TypeInv, TypeOK, WorkerOK, Pairs, Pending, CurRow
  <2>6. QED
    BY <2>1, <2>2, <2>3, <2>4, <2>5 DEF CancelInv, Cancelling, engine, CurRow, Live
<1>2. CASE \E w \in Workers : Work(w) \/ Abort(w) \/ Crash(w)
  <2> PICK w \in Workers : Work(w) \/ Abort(w) \/ Crash(w)
    BY <1>2
  <2> DEFINE
        Named == \A m \in todo[w] :
                   /\ m.dest \in EventIds
                   /\ Active(<<emp[w], m.src>>) => mapping[<<emp[w], m.src>>].dest = m.dest
        InHand == /\ cur[w].dest \in EventIds
                  /\ Active(CurRow(w)) => mapping[CurRow(w)].dest = cur[w].dest
        NotLast == ~Live(cur[w].dest) \/ Refs(cur[w].dest) # {CurRow(w)}
  <2> SUFFICES ASSUME pc'[w] \in Cancelling
               PROVE  /\ Named'
                      /\ pc'[w] # "cancel" => InHand'
                      /\ pc'[w] = "mark_cancelled" => NotLast'
    BY DEF OneWorker, CancelInv, Cancelling
  <2> USE DEF TypeInv, TypeOK
  <2>1. CASE UpdateDone(w)
    <3>1. /\ todo'[w] = ToCancel(emp[w], w) /\ UNCHANGED <<mapping, emp>>
          /\ pc'[w] = "cancel" /\ emp[w] \in Employees
      BY <2>1 DEF UpdateDone, Goto, WorkerOK
    <3>2. QED
      BY <3>1, ToCancelRows DEF Active
  <2>2. CASE CheckShared(w)
    <3>1. PICK m \in todo[w] :
            /\ todo'[w] = todo[w] \ {m}
            /\ \/ /\ cur'[w] = m
                  /\ pc'[w] = IF DestinationShared(m.dest, <<emp[w], m.src>>)
                              THEN "mark_cancelled" ELSE "delete"
               \/ UNCHANGED <<cur, pc>>
      BY <2>2 DEF CheckShared, Take, Goto
    <3>2. pc[w] = "cancel" /\ Named /\ UNCHANGED <<mapping, event, emp>>
      BY <2>2 DEF CheckShared, CancelInv
    <3>3. Named'
      BY <3>1, <3>2 DEF Active
    <3>4. CASE UNCHANGED <<cur, pc>>
      BY <3>2, <3>3, <3>4
    <3>5. CASE /\ cur'[w] = m
               /\ pc'[w] = IF DestinationShared(m.dest, <<emp[w], m.src>>)
                           THEN "mark_cancelled" ELSE "delete"
      <4>1. CurRow(w)' = <<emp[w], m.src>>
        BY <3>2, <3>5 DEF CurRow
      <4>2. InHand'
        BY <3>2, <3>5, <4>1 DEF Active
      <4>3. pc'[w] = "mark_cancelled" => NotLast'
        <5>1. \A d : Refs(d)' = Refs(d)
          BY <3>2 DEF Refs, Active
        <5>2. pc'[w] = "mark_cancelled" => Refs(m.dest) \ {<<emp[w], m.src>>} # {}
          BY <3>5 DEF DestinationShared
        <5> QED
          BY <3>5, <4>1, <5>1, <5>2
      <4> QED
        BY <3>3, <4>2, <4>3
    <3> QED
      BY <3>1, <3>4, <3>5
  <2>3. CASE DeleteEvent(w)
    <3>1. /\ pc[w] = "delete" /\ Named /\ InHand
          /\ UNCHANGED <<mapping, emp, todo>>
          /\ pc'[w] # "cancel" => UNCHANGED cur
      BY <2>3 DEF DeleteEvent, CancelInv, Goto
    <3>2. pc'[w] = "mark_cancelled" => NotLast'
      BY <2>3, <3>1, DeleteKills DEF Live
    <3> QED
      BY <3>1, <3>2 DEF Active, CurRow
  <2>4. CASE DeleteFails(w)
    BY <2>4 DEF DeleteFails, CancelInv, Goto, Active
  <2>5. CASE MarkCancelled(w)
    <3>1. /\ pc[w] = "mark_cancelled" /\ Named /\ pc'[w] = "cancel"
          /\ UNCHANGED <<emp, todo>> /\ CurRow(w) \in Pairs
      BY <2>5 DEF MarkCancelled, CancelInv, Goto, WorkerOK, CurRow, Pairs, Pending
    <3>2. \A p \in Pairs : /\ Active(p)' => Active(p)
                           /\ mapping'[p].dest = mapping[p].dest
      BY <2>5, <3>1 DEF MarkCancelled, UpdateRow, Active, Row
    <3>3. ASSUME NEW m \in todo[w] PROVE <<emp[w], m.src>> \in Pairs
      <4>1. emp[w] \in Employees /\ m \in Pending
        BY <3>1 DEF WorkerOK
      <4> QED
        BY <4>1 DEF Pairs, Pending
    <3> QED
      BY <3>1, <3>2, <3>3
  <2> QED
    BY <2>1, <2>2, <2>3, <2>4, <2>5, LoopSteps
<1> QED
  BY <1>1, <1>2 DEF Next

-----------------------------------------------------------------------------
(* Every step is one of the abstract specification, or none.               *)

\* A step that writes one row changes, of what is held, that row at most.
LEMMA RefsOfRow ==
  ASSUME NEW p \in Pairs, \A q \in Pairs : q # p => mapping'[q] = mapping[q], NEW d
  PROVE  Refs(d)' = (Refs(d) \ {p}) \cup
                      {q \in {p} : mapping'[p].state = "active" /\ mapping'[p].dest = d}
BY DEF Refs, Active

\* What is held changes only when a row is seen again, created or cancelled.
LEMMA RefsSteps ==
  ASSUME TypeInv, [Next]_vars
  PROVE  \/ \A d \in EventIds : Refs(d)' = Refs(d)
         \/ \E w \in Workers : UpsertMapping(w) \/ MarkCreated(w) \/ MarkCancelled(w)
<1>1. ASSUME \A p \in Pairs : /\ mapping'[p].state = mapping[p].state
                              /\ mapping'[p].dest = mapping[p].dest
      PROVE  \A d \in EventIds : Refs(d)' = Refs(d)
  BY <1>1 DEF Refs, Active
<1>2. CASE World \/ Purge \/ Prune \/ UNCHANGED vars
  <2>1. \A p \in Pairs : /\ Active(p)' = Active(p)
                         /\ Active(p) => mapping'[p].dest = mapping[p].dest
    BY <1>2, OthersKeepRows
  <2>2. ASSUME NEW d \in EventIds PROVE Refs(d)' = Refs(d)
    BY <2>1 DEF Refs
  <2>3. QED
    BY <2>2
<1>3. ASSUME NEW w \in Workers, Work(w) \/ Abort(w) \/ Crash(w)
      PROVE  \/ UNCHANGED mapping \/ NextEmployee(w) \/ MarkUpdated(w)
             \/ UpsertMapping(w) \/ MarkCreated(w) \/ MarkCancelled(w)
  BY <1>3 DEF Work, StartRun, EndRun, Discover, ScanFails, BeginScan, ListCalendar,
     ResolveDestination, SkipUntimed, LookupShared, InsertEvent, InsertFails, CreateDone,
     UpdateEvent, UpdateDone, CheckShared, DeleteEvent, DeleteFails, CancelDone, Abort, Crash
<1>4. ASSUME NEW w \in Workers, NextEmployee(w)
      PROVE  \A p \in Pairs : /\ mapping'[p].state = mapping[p].state
                              /\ mapping'[p].dest = mapping[p].dest
  BY <1>4 DEF NextEmployee, TypeInv, TypeOK, Row
<1>5. ASSUME NEW w \in Workers, MarkUpdated(w)
      PROVE  \A p \in Pairs : /\ mapping'[p].state = mapping[p].state
                              /\ mapping'[p].dest = mapping[p].dest
  BY <1>5 DEF MarkUpdated, UpdateRow, TypeInv, TypeOK, Row
<1>6. CASE UNCHANGED mapping
  BY <1>6 DEF Refs, Active
<1> QED
  BY <1>1, <1>2, <1>3, <1>4, <1>5, <1>6 DEF Next

HoldStep(p, d) ==
  /\ d \notin Unused
  /\ \A c \in EventIds : p \notin Refs(c)
  /\ \A c \in EventIds : Refs(c)' = IF c = d THEN Refs(c) \cup {p} ELSE Refs(c)

LetGoStep(p, d) ==
  /\ p \in Refs(d)
  /\ Live(d) => Refs(d) # {p}
  /\ \A c \in EventIds : Refs(c)' = IF c = d THEN Refs(c) \ {p} ELSE Refs(c)

\* A meeting that is seen again holds the event its row still names.
LEMMA UpsertHolds ==
  ASSUME TypeInv, RecordedInv, NEW w \in Workers, UpsertMapping(w)
  PROVE  \/ \A d \in EventIds : Refs(d)' = Refs(d)
         \/ \E p \in Pairs, d \in EventIds : HoldStep(p, d)
<1> USE DEF TypeInv, TypeOK
<1>1. PICK m \in todo[w] : mapping' = [mapping EXCEPT ![<<emp[w], m.src>>] =
            [@ EXCEPT !.state = "active", !.key = m.key, !.updated = m.updated,
                      !.seen = Workers]]
  BY DEF UpsertMapping
<1> DEFINE p == <<emp[w], m.src>>
<1>2. p \in Pairs
  <2>1. emp[w] \in Employees /\ m \in Pending
    BY <1>1 DEF UpsertMapping, WorkerOK
  <2> QED
    BY <2>1 DEF Pairs, Pending
<1>3. mapping'[p].state = "active" /\ mapping'[p].dest = mapping[p].dest
  BY <1>1, <1>2 DEF Row
<1>4. \A q \in Pairs : q # p => mapping'[q] = mapping[q]
  BY <1>1, <1>2
<1> HIDE DEF p
<1>5. \A d : Refs(d)' = (Refs(d) \ {p}) \cup {q \in {p} : mapping[p].dest = d}
  BY <1>2, <1>3, <1>4, RefsOfRow
<1>6. CASE Active(p) \/ mapping[p].dest = None
  <2>1. ASSUME NEW d \in EventIds PROVE p \in Refs(d) <=> mapping[p].dest = d
    BY <1>2, <1>6, ConstantsAssumption DEF Refs
  <2> QED
    BY <1>5, <2>1
<1>7. CASE ~Active(p) /\ mapping[p].dest # None
  <2>1. mapping[p].dest \in EventIds /\ mapping[p].dest \notin Unused
    BY <1>2, <1>7 DEF RecordedInv, Row, OptEvent
  <2>2. \A c \in EventIds : p \notin Refs(c)
    BY <1>7 DEF Refs
  <2>3. \A c \in EventIds : Refs(c)' = IF c = mapping[p].dest THEN Refs(c) \cup {p} ELSE Refs(c)
    BY <1>5, <2>2
  <2>4. HoldStep(p, mapping[p].dest)
    BY <2>1, <2>2, <2>3 DEF HoldStep
  <2> QED
    BY <1>2, <2>1, <2>4
<1> QED
  BY <1>6, <1>7

\* A created row holds the event that was inserted or found for it.
LEMMA CreatedHolds ==
  ASSUME TypeInv, RecordedInv, CreateInv, NEW w \in Workers, MarkCreated(w)
  PROVE  \/ \A d \in EventIds : Refs(d)' = Refs(d)
         \/ \E p \in Pairs, d \in EventIds : HoldStep(p, d)
<1> USE DEF TypeInv, TypeOK
<1> DEFINE p == CurRow(w)
           d == cur[w].dest
<1>1. pc[w] = "mark_created" /\ cur[w] \in Pending
  BY DEF MarkCreated, WorkerOK
<1>2. p \in Pairs
  BY <1>1 DEF WorkerOK, CurRow, Pairs, Pending
<1>3. mapping[p].dest = None /\ d \notin Unused
  BY <1>1 DEF CreateInv, RecordedInv
<1>4. CASE mapping[p].state = "none"
  BY <1>4 DEF MarkCreated, UpdateRow, Refs, Active
<1>5. CASE mapping[p].state # "none"
  <2>1. mapping' = [mapping EXCEPT ![p] =
            [mapping[p] EXCEPT !.dest = d, !.synced = cur[w].updated]]
    BY <1>5 DEF MarkCreated, UpdateRow
  <2>2. mapping'[p].state = mapping[p].state /\ mapping'[p].dest = d
    BY <1>2, <2>1 DEF Row
  <2>3. \A q \in Pairs : q # p => mapping'[q] = mapping[q]
    BY <2>1
  <2> HIDE DEF p, d
  <2>4. \A c : Refs(c)' = (Refs(c) \ {p}) \cup {q \in {p} : Active(p) /\ c = d}
    BY <1>2, <2>2, <2>3, RefsOfRow DEF Active
  <2>5. \A c \in EventIds : p \notin Refs(c)
    BY <1>3, ConstantsAssumption DEF Refs
  <2>6. CASE Active(p) /\ d \in EventIds
    <3>1. HoldStep(p, d)
      BY <1>3, <2>4, <2>5, <2>6 DEF HoldStep
    <3> QED
      BY <1>2, <2>6, <3>1
  <2>7. CASE ~(Active(p) /\ d \in EventIds)
    BY <2>4, <2>5, <2>7
  <2> QED
    BY <2>6, <2>7
<1> QED
  BY <1>4, <1>5

\* A cancelled row lets its event go, which is gone or held by another.
LEMMA CancelledLetsGo ==
  ASSUME TypeInv, CancelInv, NEW w \in Workers, MarkCancelled(w)
  PROVE  \/ \A d \in EventIds : Refs(d)' = Refs(d)
         \/ \E p \in Pairs, d \in EventIds : LetGoStep(p, d)
<1> USE DEF TypeInv, TypeOK
<1> DEFINE p == CurRow(w)
           d == cur[w].dest
<1>1. pc[w] = "mark_cancelled" /\ cur[w] \in Pending
  BY DEF MarkCancelled, WorkerOK
<1>2. p \in Pairs
  BY <1>1 DEF WorkerOK, CurRow, Pairs, Pending
<1>3. /\ d \in EventIds /\ (Active(p) => mapping[p].dest = d)
      /\ Live(d) => Refs(d) # {p}
  BY <1>1 DEF CancelInv
<1>4. CASE mapping[p].state = "none"
  BY <1>4 DEF MarkCancelled, UpdateRow, Refs, Active
<1>5. CASE mapping[p].state # "none"
  <2>1. mapping' = [mapping EXCEPT ![p] = [mapping[p] EXCEPT !.state = "cancelled"]]
    BY <1>5 DEF MarkCancelled, UpdateRow
  <2>2. mapping'[p].state = "cancelled"
    BY <1>2, <2>1 DEF Row
  <2>3. \A q \in Pairs : q # p => mapping'[q] = mapping[q]
    BY <2>1
  <2> HIDE DEF p, d
  <2>4. \A c : Refs(c)' = Refs(c) \ {p}
    BY <1>2, <2>2, <2>3, RefsOfRow
  <2>5. CASE Active(p)
    <3>1. \A c \in EventIds : p \in Refs(c) <=> c = d
      BY <1>2, <1>3, <2>5 DEF Refs
    <3>2. LetGoStep(p, d)
      BY <1>3, <2>4, <3>1 DEF LetGoStep
    <3> QED
      BY <1>2, <1>3, <3>2
  <2>6. CASE ~Active(p)
    <3>1. \A c : p \notin Refs(c)
      BY <2>6 DEF Refs
    <3> QED
      BY <2>4, <3>1
  <2> QED
    BY <2>5, <2>6
<1> QED
  BY <1>4, <1>5

\* What a step does to the phases of the events.
LEMMA PhaseSteps ==
  ASSUME TypeInv, DeleteInv, [Next]_vars, pruning = "idle"
  PROVE  \/ \A d \in EventIds : event'[d].state = event[d].state
         \/ /\ UNCHANGED mapping
            /\ \E d \in EventIds :
                 /\ \A c \in EventIds : c # d => event'[c].state = event[c].state
                 /\ \/ event[d].state = "unused" /\ event'[d].state = "live"
                    \/ /\ event[d].state = "live" /\ event'[d].state = "deleted"
                       /\ \A a, b \in Refs(d) : a = b
<1> USE DEF TypeInv, TypeOK
<1>1. CASE UNCHANGED event
  BY <1>1
<1>2. ASSUME NEW w \in Workers, UpdateEvent(w)
      PROVE  \A d \in EventIds : event'[d].state = event[d].state
  BY <1>2, UpdateKeepsState
<1>3. ASSUME NEW w \in Workers, InsertEvent(w)
      PROVE  /\ UNCHANGED mapping
             /\ \E d \in EventIds :
                  /\ \A c \in EventIds : c # d => event'[c].state = event[c].state
                  /\ event[d].state = "unused" /\ event'[d].state = "live"
  <2>1. PICK d \in Unused : event' = [event EXCEPT ![d] = Written(w)]
    BY <1>3 DEF InsertEvent
  <2>2. d \in EventIds /\ event[d].state = "unused"
    BY DEF Unused
  <2>3. /\ event'[d].state = "live"
        /\ \A c \in EventIds : c # d => event'[c].state = event[c].state
    BY <2>1, <2>2 DEF Written
  <2> QED
    BY <1>3, <2>2, <2>3 DEF InsertEvent
<1>4. ASSUME NEW w \in Workers, DeleteEvent(w), ~UNCHANGED event
      PROVE  /\ UNCHANGED mapping
             /\ \E d \in EventIds :
                  /\ \A c \in EventIds : c # d => event'[c].state = event[c].state
                  /\ event[d].state = "live" /\ event'[d].state = "deleted"
                  /\ \A a, b \in Refs(d) : a = b
  <2> DEFINE d == cur[w].dest
  <2>1. /\ Live(d) /\ event' = [event EXCEPT ![d].state = "deleted"]
        /\ Refs(d) \subseteq {CurRow(w)} /\ UNCHANGED mapping
    BY <1>4 DEF DeleteEvent, Reachable, DeleteInv
  <2>2. d \in EventIds
    BY <1>4, <2>1
  <2>3. /\ event'[d].state = "deleted"
        /\ \A c \in EventIds : c # d => event'[c].state = event[c].state
    BY <2>1, <2>2 DEF Event
  <2> QED
    BY <2>1, <2>2, <2>3 DEF Live
<1> QED
  BY <1>1, <1>2, <1>3, <1>4, EngineEvents

\* A step of the engine that changes what is held leaves the events alone.
LEMMA HoldersOrPhases ==
  ASSUME NEW w \in Workers, UpsertMapping(w) \/ MarkCreated(w) \/ MarkCancelled(w)
  PROVE  UNCHANGED event
BY DEF UpsertMapping, MarkCreated, MarkCancelled

\* Every step of the engine is a step of SharedEvents, or none of its business.
LEMMA Simulation ==
  ASSUME TypeInv, RecordedInv, DeleteInv, RefInv, [Next]_vars
  PROVE  [Shared!SharedNext]_(Shared!sharedVars)
<1> USE DEF RefInv
<1>1. CASE \E p \in Pairs, d \in EventIds : HoldStep(p, d) /\ UNCHANGED event
  <2>1. PICK p \in Pairs, d \in EventIds : HoldStep(p, d) /\ UNCHANGED event
    BY <1>1
  <2>2. Shared!Hold(p, d)
    BY <2>1 DEF HoldStep, Unused, Shared!Hold
  <2> QED
    BY <2>2 DEF Shared!SharedNext
<1>2. CASE \E p \in Pairs, d \in EventIds : LetGoStep(p, d) /\ UNCHANGED event
  <2>1. PICK p \in Pairs, d \in EventIds : LetGoStep(p, d) /\ UNCHANGED event
    BY <1>2
  <2>2. Shared!LetGo(p, d)
    BY <2>1 DEF LetGoStep, Live, Shared!LetGo
  <2> QED
    BY <2>2 DEF Shared!SharedNext
<1>3. CASE \A d \in EventIds : Refs(d)' = Refs(d) /\ event'[d].state = event[d].state
  BY <1>3 DEF Shared!sharedVars
<1>4. CASE /\ UNCHANGED mapping
           /\ \E d \in EventIds :
                /\ \A c \in EventIds : c # d => event'[c].state = event[c].state
                /\ \/ event[d].state = "unused" /\ event'[d].state = "live"
                   \/ /\ event[d].state = "live" /\ event'[d].state = "deleted"
                      /\ \A a, b \in Refs(d) : a = b
  <2>1. PICK d \in EventIds :
          /\ \A c \in EventIds : c # d => event'[c].state = event[c].state
          /\ \/ event[d].state = "unused" /\ event'[d].state = "live"
             \/ /\ event[d].state = "live" /\ event'[d].state = "deleted"
                /\ \A a, b \in Refs(d) : a = b
    BY <1>4
  <2>2. \A c \in EventIds : Refs(c)' = Refs(c)
    BY <1>4 DEF Refs, Active
  <2>3. Shared!Create(d) \/ Shared!Remove(d)
    BY <2>1, <2>2 DEF Shared!Create, Shared!Remove
  <2> QED
    BY <2>3 DEF Shared!SharedNext
<1> QED
  BY <1>1, <1>2, <1>3, <1>4, PhaseSteps, RefsSteps, HoldersOrPhases, UpsertHolds,
     CreatedHolds, CancelledLetsGo

AllInv == TypeInv /\ RecordedInv /\ DeleteInv /\ RefInv

\* The invariants hold together where one worker serves one organization.
LEMMA InductiveRefs ==
  ASSUME OneWorker, OneOrganization, Pruning = FALSE
  PROVE  Spec => []AllInv
<1>1. Init => RecordedInv /\ DeleteInv /\ RefInv
  <2> SUFFICES ASSUME Init PROVE RecordedInv /\ DeleteInv /\ RefInv
    OBVIOUS
  <2>1. RecordedInv
    BY ConstantsAssumption DEF Init, RecordedInv, NoRow, Unused
  <2>2. DeleteInv
    BY DEF Init, DeleteInv
  <2>3. RefInv
    BY DEF Init, RefInv, CreateInv, CancelInv, OrgInv, Live, NoCalendarEvent
  <2> QED
    BY <2>1, <2>2, <2>3
<1>2. TypeInv /\ RecordedInv /\ DeleteInv /\ RefInv /\ [Next]_vars
        => RecordedInv' /\ DeleteInv' /\ RefInv'
  <2> SUFFICES ASSUME TypeInv, RecordedInv, DeleteInv, RefInv, [Next]_vars
               PROVE  RecordedInv' /\ DeleteInv' /\ RefInv'
    OBVIOUS
  <2>1. ASSUME World \/ Purge \/ UNCHANGED vars PROVE (pruning = "idle")'
    <3>1. UNCHANGED prune
      BY <2>1 DEF World, Outside, Quieten, Appear, Disappear, Edit, Deauthorize, Authorize,
         SetCalendarEnabled, Purge, vars
    <3> QED
      BY <3>1 DEF RefInv, prune
  <2>2. ASSUME Prune PROVE (pruning = "idle")'
    BY <2>2 DEF RefInv, Prune, PruneReadActive, PruneList, PruneDelete, PruneEnd
  <2>3. ASSUME NEW w \in Workers, Work(w) \/ Abort(w) \/ Crash(w)
        PROVE  UNCHANGED pruning
    BY <2>3 DEF prune, Work, StartRun, NextEmployee, EndRun, Discover, ScanFails, BeginScan,
       ListCalendar, UpsertMapping, ResolveDestination, SkipUntimed, LookupShared,
       InsertEvent, InsertFails, MarkCreated, CreateDone, UpdateEvent, MarkUpdated,
       UpdateDone, CheckShared, DeleteEvent, DeleteFails, MarkCancelled, CancelDone,
       Abort, Crash
  <2>4. (pruning = "idle")'
    BY <2>1, <2>2, <2>3 DEF Next, RefInv
  <2> QED
    BY <2>4, NextRecordedInv, NextDeleteInv, NextCreateInv, NextCancelInv, NextOrgInv DEF RefInv
<1> QED
  BY <1>1, <1>2, InductiveType, PTL DEF Spec, AllInv

\* Rows, queries and calls that may fail add up to events that are shared: inserted
\* once, kept while anybody holds them, removed by the last one and never brought
\* back (SyncEmployee), with one worker, one organization, and no prune-orphans.
THEOREM Implements ==
  ASSUME OneWorker, OneOrganization, Pruning = FALSE
  PROVE  Spec => ImplementsSharedEvents
<1>1. Init => Shared!SharedInit
  <2>1. ASSUME Init PROVE \A d \in EventIds : event[d].state = "unused" /\ Refs(d) = {}
    BY <2>1 DEF Init, NoCalendarEvent, NoRow, Refs, Active
  <2> QED
    BY <2>1 DEF Shared!SharedInit
<1>2. AllInv /\ [Next]_vars => [Shared!SharedNext]_(Shared!sharedVars)
  BY Simulation DEF AllInv
<1> QED
  BY <1>1, <1>2, InductiveRefs, PTL DEF Spec, ImplementsSharedEvents, Shared!SharedSpec

-----------------------------------------------------------------------------
(* No event is forgotten.                                                  *)

\* A worker that has an event to record does so, unless it is stopped.
LEMMA RecordsNext ==
  ASSUME Faults \cap {"lost", "db", "crash"} = {}, TypeInv,
         NEW w \in Workers, pc[w] = "mark_created", Work(w) \/ Abort(w) \/ Crash(w)
  PROVE  MarkCreated(w)
BY DEF Work, StartRun, NextEmployee, EndRun, Discover, ScanFails, BeginScan,
   ListCalendar, UpsertMapping, ResolveDestination, SkipUntimed, LookupShared,
   InsertEvent, InsertFails, CreateDone, UpdateEvent, MarkUpdated, UpdateDone,
   CheckShared, DeleteEvent, DeleteFails, MarkCancelled, CancelDone, Abort, Crash, May

\* The row it records the event in then holds it.
LEMMA RecordedHolds ==
  ASSUME TypeInv, CreateInv, NEW w \in Workers, MarkCreated(w),
         NEW d \in EventIds, cur[w].dest = d
  PROVE  CurRow(w) \in Refs(d)'
<1> USE DEF TypeInv, TypeOK
<1> DEFINE p == CurRow(w)
<1>1. pc[w] = "mark_created" /\ cur[w] \in Pending
  BY DEF MarkCreated, WorkerOK
<1>2. p \in Pairs /\ mapping[p].state = "active"
  BY <1>1 DEF WorkerOK, CurRow, Pairs, Pending, CreateInv, Active
<1>3. mapping' = [mapping EXCEPT ![p] =
          [mapping[p] EXCEPT !.dest = d, !.synced = cur[w].updated]]
  BY <1>2 DEF MarkCreated, UpdateRow
<1>4. mapping'[p].state = "active" /\ mapping'[p].dest = d
  BY <1>2, <1>3 DEF Row
<1> QED
  BY <1>2, <1>4 DEF Refs, Active

\* What a live event is held by never becomes nothing.
LEMMA HeldStaysHeld ==
  ASSUME AllInv, [Next]_vars, NEW d \in EventIds, Live(d), Live(d)', Refs(d) # {}
  PROVE  Refs(d)' # {}
<1> USE DEF AllInv, RefInv
<1>1. ASSUME NEW p \in Pairs, NEW c \in EventIds, LetGoStep(p, c) PROVE Refs(d)' # {}
  BY <1>1 DEF LetGoStep
<1>2. ASSUME NEW p \in Pairs, NEW c \in EventIds, HoldStep(p, c) PROVE Refs(d)' # {}
  BY <1>2 DEF HoldStep
<1>3. CASE \A c \in EventIds : Refs(c)' = Refs(c)
  BY <1>3
<1> QED
  BY <1>1, <1>2, <1>3, RefsSteps, UpsertHolds, CreatedHolds, CancelledLetsGo

\* An event that comes to life is in the hand of the worker that inserted it.
LEMMA BornInHand ==
  ASSUME AllInv, "lost" \notin Faults, [Next]_vars, NEW d \in EventIds, ~Live(d), Live(d)'
  PROVE  \E w \in Workers : (pc[w] = "mark_created" /\ cur[w].dest = d)'
<1> USE DEF AllInv, TypeInv, TypeOK
<1>1. event'[d].state = "live" /\ event[d].state # "live"
  BY DEF Live
<1>2. PICK w \in Workers : InsertEvent(w) \/ UpdateEvent(w) \/ DeleteEvent(w)
  BY <1>1, EngineEvents DEF RefInv
<1>3. ~UpdateEvent(w)
  BY <1>1, UpdateKeepsState
<1>4. ~DeleteEvent(w)
  BY <1>1 DEF DeleteEvent, Event
<1>5. PICK c \in Unused :
        event' = [event EXCEPT ![c] = Written(w)] /\ cur' = [cur EXCEPT ![w].dest = c]
        /\ Goto(w, "mark_created")
  BY <1>2, <1>3, <1>4 DEF InsertEvent, May
<1>6. c = d
  BY <1>1, <1>5
<1>7. cur[w] \in Pending
  BY <1>2, <1>3, <1>4 DEF InsertEvent, WorkerOK
<1>8. cur'[w].dest = d
  BY <1>5, <1>6, <1>7 DEF Pending
<1> QED
  BY <1>5, <1>8 DEF Goto

\* A live event belongs to an active mapping or to the worker that has just inserted
\* it, however calls to Google or Zoho fail (CREATE and CANCEL loops of SyncEmployee):
\* nobody has to prune what a worker left, if its insert was answered and recorded.
THEOREM NothingOrphaned ==
  ASSUME OneWorker, OneOrganization, Pruning = FALSE,
         Faults \cap {"lost", "db", "crash"} = {}
  PROVE  Spec => []NoOrphanEvent
<1>1. Init => NoOrphanEvent
  BY DEF Init, NoOrphanEvent, Live, NoCalendarEvent
<1>2. AllInv /\ NoOrphanEvent /\ [Next]_vars => NoOrphanEvent'
  <2> SUFFICES ASSUME AllInv, NoOrphanEvent, [Next]_vars, NEW d \in EventIds, Live(d)',
                      Refs(d)' = {}
               PROVE  \E w \in Workers : (pc[w] = "mark_created" /\ cur[w].dest = d)'
    BY DEF NoOrphanEvent
  <2>1. CASE ~Live(d)
    BY <2>1, BornInHand
  <2>2. CASE Live(d)
    <3>1. PICK w \in Workers : pc[w] = "mark_created" /\ cur[w].dest = d
      BY <2>2, HeldStaysHeld DEF NoOrphanEvent
    <3>2. ASSUME NEW v \in Workers, Work(v) \/ Abort(v) \/ Crash(v) PROVE FALSE
      <4>1. v = w /\ MarkCreated(w)
        BY <3>1, <3>2, RecordsNext DEF OneWorker, AllInv
      <4> QED
        BY <3>1, <4>1, RecordedHolds DEF AllInv, RefInv
    <3>3. UNCHANGED <<pc, cur>>
      BY <3>2, OthersSpareEngine DEF Next, vars, engine
    <3> QED
      BY <3>1, <3>3
  <2> QED
    BY <2>1, <2>2
<1> QED
  BY <1>1, <1>2, InductiveRefs, PTL DEF Spec

=============================================================================
