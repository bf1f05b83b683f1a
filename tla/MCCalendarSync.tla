--------------------------- MODULE MCCalendarSync ---------------------------
(* Instances of CalendarSync for TLC.                                       *)
EXTENDS CalendarSync, TLC

CONSTANTS alice, bob, s1, s2, work, home, k1, untimed, d1, d2, d3, acme, globex, w1, w2

\* One organization, or one per employee.
OneOrg == [e \in Employees |-> acme]
TwoOrgs == [e \in Employees |-> IF e = alice THEN acme ELSE globex]
OneCalendar == [s \in SourceIds |-> work]

\* The meetings are in everybody's work calendar; the other one is personal.
Homes == {<<e, home>> : e \in Employees}

AllFaults == {"list", "token", "destination", "lookup", "db", "api", "lost", "crash"}

=============================================================================
