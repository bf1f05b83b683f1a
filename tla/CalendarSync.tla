---------------------------- MODULE CalendarSync ----------------------------
(***************************************************************************)
(* The outbound flow of the bridge: every pass of the worker scans the     *)
(* Zoho calendars of each authorized employee into event_mappings and then *)
(* creates, updates and cancels the matching events of the organization's  *)
(* destination calendar (internal/sync, internal/calendar, cmd/worker),    *)
(* beside the retention purge and the prune-orphans command.               *)
(*                                                                         *)
(* Every call the engine makes to Zoho, to Postgres or to Google is a step *)
(* of its own, so that failures, crashes and other processes fall between  *)
(* any two of them.  Times are not modelled: source_updated_at is the      *)
(* version number of the invitation, and last_seen_at, which the code only *)
(* compares with the start of a pass, is the set of workers whose current  *)
(* pass began before the row was last seen.                                *)
(***************************************************************************)
EXTENDS Naturals, FiniteSets

CONSTANTS
  Employees, Orgs, OrgOf,      \* OrgOf[e]: the tenant of an employee
  Workers,                     \* worker processes (the deployment runs one)
  SourceIds,                   \* ids of source events, equal for all attendees
  Calendars, CalendarOf,       \* CalendarOf[s]: the calendar listing event s
  Personal,                    \* <<e, c>>: c is a personal calendar of e, by its name or type
  Keys, NoTime,                \* normalized title + start; NoTime: no start/end
  EventIds,                    \* bound: ids the destination can hand out
  MaxVersion,                  \* bound: edits of one invitation
  MaxChanges,                  \* bound: changes made by the outside world
  ChangeKinds,                 \* the kinds of change it makes
  Faults,                      \* the kinds of failure that may happen
  AdminOrg,                    \* the organization prune-orphans works on
  Pruning,                     \* may an operator run prune-orphans?
  None                         \* SQL NULL

FaultKinds == {"list", "token", "destination", "lookup", "db", "api", "lost", "crash"}
AllChangeKinds == {"appear", "disappear", "edit", "authorization", "calendar"}

ASSUME ConstantsAssumption ==
  /\ Employees # {} /\ Workers # {} /\ SourceIds # {}
  /\ OrgOf \in [Employees -> Orgs]
  /\ CalendarOf \in [SourceIds -> Calendars]
  /\ Personal \subseteq Employees \X Calendars
  /\ NoTime \in Keys /\ AdminOrg \in Orgs
  /\ MaxVersion \in Nat \ {0} /\ MaxChanges \in Nat
  /\ Faults \subseteq FaultKinds /\ ChangeKinds \subseteq AllChangeKinds
  /\ Pruning \in BOOLEAN
  /\ None \notin EventIds /\ None \notin Employees

VARIABLES
  invitation,   \* [SourceIds -> [key, version]]: what the organizer published
  listed,       \* <<e, s>>: e's Zoho calendar returns s, and policy lets it sync
  authorized,   \* employees returned by ListAuthorized
  calendars,    \* table calendars: the enabled flag, or "absent"
  mapping,      \* table event_mappings, unique on (employee, source event)
  event,        \* the destination calendars, by event id
  changes,      \* how often the outside world has changed
  quiet,        \* nothing changes or fails any more
  pc, queue, emp, cals, todo, cur,   \* the engine, per worker
  pruning, pruneActive, doomed       \* the prune-orphans command

world  == <<invitation, listed, authorized, changes, quiet>>
engine == <<pc, queue, emp, cals, todo, cur>>
prune  == <<pruning, pruneActive, doomed>>
vars   == <<world, calendars, mapping, event, engine, prune>>

-----------------------------------------------------------------------------
Versions == 1..MaxVersion
OptEvent == EventIds \cup {None}

\* A row of event_mappings.  state joins "is there a row" and cancelled_at;
\* synced 0 is destination_synced_at NULL.
Row == [state: {"none", "active", "cancelled"}, key: Keys, updated: Versions,
        dest: OptEvent, synced: 0..MaxVersion, seen: SUBSET Workers]

\* PendingEvent: the columns of a row, or of a listed source event, that the
\* engine carries through a loop.
Pending == [src: SourceIds, key: Keys, updated: Versions, dest: OptEvent]

\* An event of a destination calendar, and the source data last written to it.
Event == [state: {"unused", "live", "deleted"}, org: Orgs \cup {None},
          src: SourceIds \cup {None}, version: 0..MaxVersion]

Stages == {"idle", "next", "discover", "scan", "list",
           "create", "insert", "mark_created",
           "update", "mark_updated",
           "cancel", "delete", "mark_cancelled"}

NoRow == [state |-> "none", key |-> NoTime, updated |-> 1, dest |-> None,
          synced |-> 0, seen |-> {}]
NoCalendarEvent == [state |-> "unused", org |-> None, src |-> None, version |-> 0]

Pairs == Employees \X SourceIds

TypeOK ==
  /\ invitation \in [SourceIds -> [key: Keys, version: Versions]]
  /\ listed \subseteq Pairs
  /\ authorized \subseteq Employees
  /\ calendars \in [Employees -> [Calendars -> {"absent", "enabled", "disabled"}]]
  /\ mapping \in [Pairs -> Row]
  /\ event \in [EventIds -> Event]
  /\ changes \in 0..MaxChanges
  /\ quiet \in BOOLEAN
  /\ pc \in [Workers -> Stages]
  /\ queue \in [Workers -> SUBSET Employees]
  /\ emp \in [Workers -> Employees \cup {None}]
  /\ cals \in [Workers -> SUBSET Calendars]
  /\ todo \in [Workers -> SUBSET Pending]
  /\ cur \in [Workers -> Pending \cup {None}]
  /\ pruning \in {"idle", "list", "delete"}
  /\ pruneActive \subseteq EventIds
  /\ doomed \subseteq EventIds

Init ==
  /\ invitation \in [SourceIds -> [key: Keys, version: {1}]]
  /\ listed = {}
  /\ authorized = Employees
  /\ calendars = [e \in Employees |-> [c \in Calendars |-> "absent"]]
  /\ mapping = [p \in Pairs |-> NoRow]
  /\ event = [d \in EventIds |-> NoCalendarEvent]
  /\ changes = 0
  /\ quiet = FALSE
  /\ pc = [w \in Workers |-> "idle"]
  /\ queue = [w \in Workers |-> {}]
  /\ emp = [w \in Workers |-> None]
  /\ cals = [w \in Workers |-> {}]
  /\ todo = [w \in Workers |-> {}]
  /\ cur = [w \in Workers |-> None]
  /\ pruning = "idle"
  /\ pruneActive = {}
  /\ doomed = {}

-----------------------------------------------------------------------------
(* Queries of the mapping repository.                                       *)

Active(p) == mapping[p].state = "active"
Refs(d) == {p \in Pairs : Active(p) /\ mapping[p].dest = d}
Live(d) == event[d].state = "live"
Unused == {d \in EventIds : event[d].state = "unused"}

PendingOf(p) == [src |-> p[2], key |-> mapping[p].key, updated |-> mapping[p].updated,
                 dest |-> mapping[p].dest]
RowsOf(e) == {<<e, s>> : s \in SourceIds}

\* mutant: "source changed since the last sync" is forgotten
MutantToUpdate(e) == {PendingOf(p) : p \in {q \in RowsOf(e) :
                        Active(q) /\ mapping[q].dest # None /\ mapping[q].synced = 0}}

\* ListToCreate, ListToUpdate and ListToCancel.
ToCreate(e) == {PendingOf(p) : p \in {q \in RowsOf(e) : Active(q) /\ mapping[q].dest = None}}
ToUpdate(e) == {PendingOf(p) : p \in {q \in RowsOf(e) :
                  /\ Active(q) /\ mapping[q].dest # None
                  /\ mapping[q].synced = 0 \/ mapping[q].updated > mapping[q].synced}}
ToCancel(e, w) == {PendingOf(p) : p \in {q \in RowsOf(e) :
                  Active(q) /\ mapping[q].dest # None /\ w \notin mapping[q].seen}}

\* SharedDestinationEventID looks at every organization, its fallback only at org.
SharedById(s) == {mapping[p].dest : p \in {q \in Pairs :
                    Active(q) /\ mapping[q].dest # None /\ q[2] = s}}
SharedByKey(org, k) == {mapping[p].dest : p \in {q \in Pairs :
                    /\ Active(q) /\ mapping[q].dest # None
                    /\ OrgOf[q[1]] = org /\ mapping[q].key = k}}
MutantNotShared(org, m) == {}   \* mutant: the lookup is gone
SharedDestinationForMeeting(org, m) ==
  IF SharedById(m.src) # {} THEN SharedById(m.src) ELSE SharedByKey(org, m.key)

\* mutant: only the attendee's own rows count
MutantOwnRows(d, p) == {q \in Refs(d) \ {p} : q[1] = p[1]} # {}
DestinationShared(d, p) == Refs(d) \ {p} # {}

\* The row of the pending event a worker has in hand.
CurRow(w) == <<emp[w], cur[w].src>>
CurOrg(w) == OrgOf[emp[w]]

-----------------------------------------------------------------------------
(* The outside world: organizers, attendees, administrators.               *)

Change(kind) ==
  /\ kind \in ChangeKinds /\ ~quiet
  /\ changes < MaxChanges
  /\ changes' = changes + 1
  /\ UNCHANGED quiet

\* From here on nothing changes and nothing fails: the states the liveness
\* properties speak about.
Quieten ==
  /\ ~quiet
  /\ quiet' = TRUE
  /\ UNCHANGED <<invitation, listed, authorized, changes, calendars, mapping, event, engine, prune>>

\* A source event becomes visible to a scan of e, or stops being so: withdrawn,
\* declined, out of the 30-day window, made private, excluded by policy.
Appear(e, s) ==
  /\ Change("appear")
  /\ <<e, s>> \notin listed
  /\ listed' = listed \cup {<<e, s>>}
  /\ UNCHANGED <<invitation, authorized, calendars, mapping, event, engine, prune>>

Disappear(e, s) ==
  /\ Change("disappear")
  /\ <<e, s>> \in listed
  /\ listed' = listed \ {<<e, s>>}
  /\ UNCHANGED <<invitation, authorized, calendars, mapping, event, engine, prune>>

\* The organizer edits the invitation, perhaps its title or its time.
Edit(s) ==
  /\ Change("edit")
  /\ invitation[s].version < MaxVersion
  /\ \E k \in Keys : invitation' =
       [invitation EXCEPT ![s] = [key |-> k, version |-> @.version + 1]]
  /\ UNCHANGED <<listed, authorized, calendars, mapping, event, engine, prune>>

\* Revocation or offboarding, and a later authorization: ListAuthorized changes.
Deauthorize(e) ==
  /\ Change("authorization")
  /\ e \in authorized
  /\ authorized' = authorized \ {e}
  /\ UNCHANGED <<invitation, listed, calendars, mapping, event, engine, prune>>

Authorize(e) ==
  /\ Change("authorization")
  /\ e \notin authorized
  /\ authorized' = authorized \cup {e}
  /\ UNCHANGED <<invitation, listed, calendars, mapping, event, engine, prune>>

\* An administrator toggles a discovered calendar.
SetCalendarEnabled(e, c) ==
  /\ Change("calendar")
  /\ calendars[e][c] # "absent"
  /\ calendars' = [calendars EXCEPT ![e][c] = IF @ = "enabled" THEN "disabled" ELSE "enabled"]
  /\ UNCHANGED <<invitation, listed, authorized, mapping, event, engine, prune>>

\* The retention purge deletes rows that were cancelled long enough ago.
Purge ==
  /\ \E old \in SUBSET {p \in Pairs : mapping[p].state = "cancelled"} :
       /\ old # {}
       /\ mapping' = [p \in Pairs |-> IF p \in old THEN NoRow ELSE mapping[p]]
  /\ UNCHANGED <<world, calendars, event, engine, prune>>

-----------------------------------------------------------------------------
(* syncAllEmployees and the scan half of SyncEmployee.                     *)

\* A failure of this kind may happen now.
May(kind) == kind \in Faults /\ ~quiet

Goto(w, stage) == pc' = [pc EXCEPT ![w] = stage]
Unhand(w) == cur' = [cur EXCEPT ![w] = None]
Take(w, m) == todo' = [todo EXCEPT ![w] = @ \ {m}]

\* SyncEmployee returns: the loop of syncAllEmployees goes on either way.
EndPass(w) ==
  /\ Goto(w, "next")
  /\ Unhand(w)
  /\ emp' = [emp EXCEPT ![w] = None]
  /\ cals' = [cals EXCEPT ![w] = {}]
  /\ todo' = [todo EXCEPT ![w] = {}]
  /\ UNCHANGED queue

StartRun(w) ==
  /\ pc[w] = "idle"
  /\ queue' = [queue EXCEPT ![w] = authorized]
  /\ Goto(w, "next")
  /\ UNCHANGED <<world, calendars, mapping, event, emp, cals, todo, cur, prune>>

EndRun(w) ==
  /\ pc[w] = "next" /\ queue[w] = {}
  /\ Goto(w, "idle")
  /\ UNCHANGED <<world, calendars, mapping, event, queue, emp, cals, todo, cur, prune>>

\* scanStart := Now(): nothing of this employee has been seen since.
NextEmployee(w) ==
  /\ pc[w] = "next"
  /\ \E e \in queue[w] :
       /\ emp' = [emp EXCEPT ![w] = e]
       /\ queue' = [queue EXCEPT ![w] = @ \ {e}]
       /\ mapping' = [p \in Pairs |-> IF p[1] = e
                        THEN [mapping[p] EXCEPT !.seen = @ \ {w}] ELSE mapping[p]]
  /\ Goto(w, "discover")
  /\ UNCHANGED <<world, calendars, event, cals, todo, cur, prune>>

\* ClassifyPersonal and DefaultEnabled: the flag of a calendar met for the first time.
DefaultEnabled(e, c) == IF <<e, c>> \in Personal THEN "disabled" ELSE "enabled"

\* Discover stores unknown calendars with their default and keeps the flag of known
\* ones; it needs a token, its failure is only logged.
Discover(w) ==
  /\ pc[w] = "discover"
  /\ \E stored \in SUBSET Calendars :
       /\ stored # {} => emp[w] \in authorized
       /\ stored = Calendars \/ emp[w] \notin authorized \/ May("token") \/ May("list") \/ May("db")
       /\ calendars' = [calendars EXCEPT ![emp[w]] = [c \in Calendars |->
                          IF c \in stored /\ @[c] = "absent" THEN DefaultEnabled(emp[w], c) ELSE @[c]]]
  /\ Goto(w, "scan")
  /\ UNCHANGED <<world, mapping, event, queue, emp, cals, todo, cur, prune>>

\* Scan without a usable token is the error that ends the pass.
ScanFails(w) ==
  /\ pc[w] = "scan"
  /\ emp[w] \notin authorized \/ May("token")
  /\ EndPass(w)
  /\ UNCHANGED <<world, calendars, mapping, event, prune>>

BeginScan(w) ==
  /\ pc[w] = "scan"
  /\ emp[w] \in authorized
  /\ cals' = [cals EXCEPT ![w] = {c \in Calendars : calendars[emp[w]][c] = "enabled"}]
  /\ Goto(w, "list")
  /\ UNCHANGED <<world, calendars, mapping, event, queue, emp, todo, cur, prune>>

\* ListEvents of one calendar; one that fails is skipped.
ListCalendar(w) ==
  /\ pc[w] = "list" /\ todo[w] = {}
  /\ \E c \in cals[w] :
       /\ cals' = [cals EXCEPT ![w] = @ \ {c}]
       /\ \/ todo' = [todo EXCEPT ![w] =
               {[src |-> s, key |-> invitation[s].key, updated |-> invitation[s].version,
                 dest |-> None] : s \in {t \in SourceIds : <<emp[w], t>> \in listed
                                                        /\ CalendarOf[t] = c}}]
          \/ May("list") /\ UNCHANGED todo
  /\ UNCHANGED <<world, calendars, mapping, event, pc, queue, emp, cur, prune>>

\* mutant: last_seen_at is not refreshed
MutantUpsert(w) ==
  /\ pc[w] = "list"
  /\ \E m \in todo[w] :
       /\ Take(w, m)
       /\ mapping' = [mapping EXCEPT ![<<emp[w], m.src>>] =
            [@ EXCEPT !.state = "active", !.key = m.key, !.updated = m.updated]]
  /\ UNCHANGED <<world, calendars, event, pc, queue, emp, cals, cur, prune>>

\* The upsert clears cancelled_at and keeps the destination columns of the row.
UpsertMapping(w) ==
  /\ pc[w] = "list"
  /\ \E m \in todo[w] :
       /\ Take(w, m)
       /\ mapping' = [mapping EXCEPT ![<<emp[w], m.src>>] =
            [@ EXCEPT !.state = "active", !.key = m.key, !.updated = m.updated,
                      !.seen = Workers]]
  /\ UNCHANGED <<world, calendars, event, pc, queue, emp, cals, cur, prune>>

ResolveDestination(w) ==
  /\ pc[w] = "list" /\ todo[w] = {} /\ cals[w] = {}
  /\ \/ /\ Goto(w, "create")
        /\ todo' = [todo EXCEPT ![w] = ToCreate(emp[w])]
        /\ UNCHANGED <<queue, emp, cals, cur>>
     \/ May("destination") /\ EndPass(w)
  /\ UNCHANGED <<world, calendars, mapping, event, prune>>

-----------------------------------------------------------------------------
(* CREATE.                                                                 *)

\* A mapping without start or end has no destination event: continue.
SkipUntimed(w) ==
  /\ pc[w] \in {"create", "update"}
  /\ \E m \in todo[w] : m.key = NoTime /\ Take(w, m)
  /\ UNCHANGED <<world, calendars, mapping, event, pc, queue, emp, cals, cur, prune>>

\* A failing lookup counts as "not shared".
LookupShared(w) ==
  /\ pc[w] = "create"
  /\ \E m \in todo[w] :
       /\ m.key # NoTime
       /\ Take(w, m)
       /\ \/ \E d \in SharedDestinationForMeeting(CurOrg(w), m) :
               /\ cur' = [cur EXCEPT ![w] = [m EXCEPT !.dest = d]]
               /\ Goto(w, "mark_created")
          \/ /\ SharedDestinationForMeeting(CurOrg(w), m) = {} \/ May("lookup")
             /\ cur' = [cur EXCEPT ![w] = m]
             /\ Goto(w, "insert")
  /\ UNCHANGED <<world, calendars, mapping, event, queue, emp, cals, prune>>

\* What Google stores for the event in hand.
Written(w) == [state |-> "live", org |-> CurOrg(w), src |-> cur[w].src,
               version |-> cur[w].updated]

InsertEvent(w) ==
  /\ pc[w] = "insert"
  /\ \E d \in Unused :
       /\ event' = [event EXCEPT ![d] = Written(w)]
       /\ \/ /\ cur' = [cur EXCEPT ![w].dest = d]
             /\ Goto(w, "mark_created")
          \/ May("lost") /\ Unhand(w) /\ Goto(w, "create")
  /\ UNCHANGED <<world, calendars, mapping, queue, emp, cals, todo, prune>>

\* mutant: the id is chosen beforehand and recorded although the insert failed
MutantInsertFails(w) ==
  /\ pc[w] = "insert"
  /\ May("api")
  /\ \E d \in Unused : cur' = [cur EXCEPT ![w].dest = d]
  /\ Goto(w, "mark_created")
  /\ UNCHANGED <<world, calendars, mapping, event, queue, emp, cals, todo, prune>>

InsertFails(w) ==
  /\ pc[w] = "insert"
  /\ May("api") \/ Unused = {}
  /\ Unhand(w) /\ Goto(w, "create")
  /\ UNCHANGED <<world, calendars, mapping, event, queue, emp, cals, todo, prune>>

\* An UPDATE ... WHERE id = $1: no row, no effect, no error.
UpdateRow(p, row) ==
  mapping' = IF mapping[p].state = "none" THEN mapping ELSE [mapping EXCEPT ![p] = row]

\* mutant: the source id is stored as the destination id
MutantMarkCreated(w) ==
  /\ pc[w] = "mark_created"
  /\ UpdateRow(CurRow(w),
       [mapping[CurRow(w)] EXCEPT !.dest = cur[w].src, !.synced = cur[w].updated])
  /\ Unhand(w) /\ Goto(w, "create")
  /\ UNCHANGED <<world, calendars, event, queue, emp, cals, todo, prune>>

MarkCreated(w) ==
  /\ pc[w] = "mark_created"
  /\ UpdateRow(CurRow(w),
       [mapping[CurRow(w)] EXCEPT !.dest = cur[w].dest, !.synced = cur[w].updated])
  /\ Unhand(w) /\ Goto(w, "create")
  /\ UNCHANGED <<world, calendars, event, queue, emp, cals, todo, prune>>

CreateDone(w) ==
  /\ pc[w] = "create" /\ todo[w] = {}
  /\ todo' = [todo EXCEPT ![w] = ToUpdate(emp[w])]
  /\ Goto(w, "update")
  /\ UNCHANGED <<world, calendars, mapping, event, queue, emp, cals, cur, prune>>

-----------------------------------------------------------------------------
(* UPDATE.                                                                 *)

\* The client addresses the calendar of its own organization.
Reachable(w, d) == Live(d) /\ event[d].org = CurOrg(w)

UpdateEvent(w) ==
  /\ pc[w] = "update"
  /\ \E m \in todo[w] :
       /\ m.key # NoTime
       /\ Take(w, m)
       /\ \/ /\ Reachable(w, m.dest)
             /\ event' = [event EXCEPT ![m.dest] = [@ EXCEPT !.src = m.src, !.version = m.updated]]
             /\ \/ cur' = [cur EXCEPT ![w] = m] /\ Goto(w, "mark_updated")
                \/ May("lost") /\ UNCHANGED <<cur, pc>>
          \/ /\ ~Reachable(w, m.dest) \/ May("api")
             /\ UNCHANGED <<event, cur, pc>>
  /\ UNCHANGED <<world, calendars, mapping, queue, emp, cals, prune>>

MarkUpdated(w) ==
  /\ pc[w] = "mark_updated"
  /\ UpdateRow(CurRow(w), [mapping[CurRow(w)] EXCEPT !.synced = cur[w].updated])
  /\ Unhand(w) /\ Goto(w, "update")
  /\ UNCHANGED <<world, calendars, event, queue, emp, cals, todo, prune>>

UpdateDone(w) ==
  /\ pc[w] = "update" /\ todo[w] = {}
  /\ todo' = [todo EXCEPT ![w] = ToCancel(emp[w], w)]
  /\ Goto(w, "cancel")
  /\ UNCHANGED <<world, calendars, mapping, event, queue, emp, cals, cur, prune>>

-----------------------------------------------------------------------------
(* CANCEL.                                                                 *)

\* mutant: a shared event is left alone, and so is the row
MutantCheckShared(w) ==
  /\ pc[w] = "cancel"
  /\ \E m \in todo[w] :
       /\ Take(w, m)
       /\ IF DestinationShared(m.dest, <<emp[w], m.src>>)
            THEN UNCHANGED <<cur, pc>>
            ELSE cur' = [cur EXCEPT ![w] = m] /\ Goto(w, "delete")
  /\ UNCHANGED <<world, calendars, mapping, event, queue, emp, cals, prune>>

CheckShared(w) ==
  /\ pc[w] = "cancel"
  /\ \E m \in todo[w] :
       /\ Take(w, m)
       /\ \/ /\ cur' = [cur EXCEPT ![w] = m]
             /\ Goto(w, IF DestinationShared(m.dest, <<emp[w], m.src>>)
                        THEN "mark_cancelled" ELSE "delete")
          \/ May("lookup") /\ UNCHANGED <<cur, pc>>
  /\ UNCHANGED <<world, calendars, mapping, event, queue, emp, cals, prune>>

\* A 404 or 410 counts as success.
DeleteEvent(w) ==
  /\ pc[w] = "delete"
  /\ event' = IF Reachable(w, cur[w].dest)
                THEN [event EXCEPT ![cur[w].dest].state = "deleted"] ELSE event
  /\ \/ Goto(w, "mark_cancelled") /\ UNCHANGED cur
     \/ May("lost") /\ Unhand(w) /\ Goto(w, "cancel")
  /\ UNCHANGED <<world, calendars, mapping, queue, emp, cals, todo, prune>>

\* mutant: a failed delete is taken for a successful one
MutantDeleteFails(w) ==
  /\ pc[w] = "delete"
  /\ May("api")
  /\ Goto(w, "mark_cancelled")
  /\ UNCHANGED <<world, calendars, mapping, event, queue, emp, cals, todo, cur, prune>>

DeleteFails(w) ==
  /\ pc[w] = "delete"
  /\ May("api")
  /\ Unhand(w) /\ Goto(w, "cancel")
  /\ UNCHANGED <<world, calendars, mapping, event, queue, emp, cals, todo, prune>>

\* The destination id stays in the row.
MarkCancelled(w) ==
  /\ pc[w] = "mark_cancelled"
  /\ UpdateRow(CurRow(w), [mapping[CurRow(w)] EXCEPT !.state = "cancelled"])
  /\ Unhand(w) /\ Goto(w, "cancel")
  /\ UNCHANGED <<world, calendars, event, queue, emp, cals, todo, prune>>

CancelDone(w) ==
  /\ pc[w] = "cancel" /\ todo[w] = {}
  /\ EndPass(w)
  /\ UNCHANGED <<world, calendars, mapping, event, prune>>

-----------------------------------------------------------------------------
(* Failures of the worker.                                                 *)

\* A failing statement whose error SyncEmployee returns.
Abort(w) ==
  /\ May("db")
  /\ \/ pc[w] \in {"discover", "scan", "mark_created", "mark_updated", "mark_cancelled"}
     \/ pc[w] = "list" /\ (todo[w] # {} \/ cals[w] = {})
     \/ pc[w] \in {"create", "update"} /\ todo[w] = {}
  /\ EndPass(w)
  /\ UNCHANGED <<world, calendars, mapping, event, prune>>

\* The process dies; its successor starts from the database alone.
Crash(w) ==
  /\ May("crash")
  /\ pc[w] # "idle"
  /\ Goto(w, "idle")
  /\ Unhand(w)
  /\ queue' = [queue EXCEPT ![w] = {}]
  /\ emp' = [emp EXCEPT ![w] = None]
  /\ cals' = [cals EXCEPT ![w] = {}]
  /\ todo' = [todo EXCEPT ![w] = {}]
  /\ UNCHANGED <<world, calendars, mapping, event, prune>>

-----------------------------------------------------------------------------
(* prune-orphans: read the referenced ids, list the calendar, delete the   *)
(* difference.  Nothing keeps the worker out in between.                   *)

PruneReadActive ==
  /\ Pruning /\ pruning = "idle"
  /\ pruneActive' = {d \in EventIds : \E p \in Refs(d) : OrgOf[p[1]] = AdminOrg}
  /\ pruning' = "list"
  /\ UNCHANGED <<world, calendars, mapping, event, engine, doomed>>

PruneList ==
  /\ pruning = "list"
  /\ doomed' = {d \in EventIds : Live(d) /\ event[d].org = AdminOrg} \ pruneActive
  /\ pruneActive' = {}
  /\ pruning' = "delete"
  /\ UNCHANGED <<world, calendars, mapping, event, engine>>

PruneDelete ==
  /\ pruning = "delete"
  /\ \E d \in doomed :
       /\ doomed' = doomed \ {d}
       /\ \/ event' = [event EXCEPT ![d].state = "deleted"]
          \/ May("api") /\ UNCHANGED event
  /\ UNCHANGED <<world, calendars, mapping, engine, pruning, pruneActive>>

PruneEnd ==
  /\ pruning = "delete" /\ doomed = {}
  /\ pruning' = "idle"
  /\ UNCHANGED <<world, calendars, mapping, event, engine, pruneActive, doomed>>

-----------------------------------------------------------------------------
\* What organizers and attendees do.
Outside ==
  \/ Quieten
  \/ \E e \in Employees, s \in SourceIds : Appear(e, s) \/ Disappear(e, s)
  \/ \E s \in SourceIds : Edit(s)
  \/ \E e \in Employees : Deauthorize(e) \/ Authorize(e)

World == Outside \/ \E e \in Employees, c \in Calendars : SetCalendarEnabled(e, c)

\* A step the worker takes as long as nothing goes wrong.
Work(w) ==
  \/ StartRun(w) \/ NextEmployee(w) \/ EndRun(w)
  \/ Discover(w) \/ ScanFails(w) \/ BeginScan(w)
  \/ ListCalendar(w) \/ UpsertMapping(w) \/ ResolveDestination(w)
  \/ SkipUntimed(w) \/ LookupShared(w) \/ InsertEvent(w) \/ InsertFails(w)
  \/ MarkCreated(w) \/ CreateDone(w)
  \/ UpdateEvent(w) \/ MarkUpdated(w) \/ UpdateDone(w)
  \/ CheckShared(w) \/ DeleteEvent(w) \/ DeleteFails(w)
  \/ MarkCancelled(w) \/ CancelDone(w)

Prune == PruneReadActive \/ PruneList \/ PruneDelete \/ PruneEnd

Next ==
  \/ World
  \/ Purge
  \/ \E w \in Workers : Work(w) \/ Abort(w) \/ Crash(w)
  \/ Prune

Spec == Init /\ [][Next]_vars

-----------------------------------------------------------------------------
(* Properties.                                                             *)

\* Cancelling one attendee never takes the event away from another: when the
\* worker (not prune-orphans) removes an event, at most one active mapping still
\* points to it (DestinationShared before DeleteEvent in the CANCEL loop).
CoAttendeeKeepsEvent ==
  [][\A d \in EventIds : Live(d) /\ event'[d].state = "deleted" /\ UNCHANGED doomed =>
       \A p, q \in Refs(d) : p = q]_vars

\* An event is inserted for an invitation only while no active mapping of that
\* invitation, in any organization, has a destination (SharedDestinationEventID
\* in the CREATE loop).
InsertOnlyUntracked ==
  [][\A d \in EventIds : d \in Unused /\ event'[d].state = "live" =>
       SharedById(event'[d].src) = {}]_vars

\* The event a mapping is marked as synced to was really handed out by the
\* destination: ids are never recorded before the insert that returns them.
RecordedEventExists ==
  \A p \in Pairs : mapping[p].dest # None => mapping[p].dest \notin Unused

\* One event per invitation: the destination calendars hold at most one live
\* event written for a source event.
SourceNeverDuplicated ==
  \A c, d \in EventIds : Live(c) /\ Live(d) /\ event[c].src = event[d].src => c = d

\* No live event is forgotten: it belongs to an active mapping or to the worker
\* that has just inserted it.
NoOrphanEvent ==
  \A d \in EventIds : Live(d) =>
    \/ Refs(d) # {}
    \/ \E w \in Workers : pc[w] = "mark_created" /\ cur[w].dest = d

\* No insert has run into the bound EventIds: Google never runs out of ids.
IdsLeft == Unused = {} => \A w \in Workers : pc[w] # "insert"

\* Once nothing changes or fails any more, an event that no attendee's calendar
\* shows is gone, whoever shared it (the CANCEL loop).
EventuallyRemoved ==
  <>[](quiet /\ IdsLeft) =>
    <>[](\A d \in EventIds : Live(d) => \E p \in listed : mapping[p].dest = d)

-----------------------------------------------------------------------------
(* The abstract specification this one implements.                         *)

Shared == INSTANCE SharedEvents WITH
  Attendances <- Pairs,
  Ids <- EventIds,
  phase <- [d \in EventIds |-> event[d].state],
  holders <- [d \in EventIds |-> Refs(d)]

\* Rows, queries and calls add up to events that are shared: inserted once, there
\* while anybody holds them, removed by the last one and never brought back.
\* Any failure may happen (SyncEmployee); it takes one worker, tenants that do not
\* share events (the client of one cannot delete the other's), and no prune-orphans.
ImplementsSharedEvents == Shared!SharedSpec

=============================================================================
