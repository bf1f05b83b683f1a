------------------------------ MODULE Directory ------------------------------
(***************************************************************************)
(* Employees of one organization: the company directory and CSV uploads    *)
(* are reconciled into the table employees (internal/directory), new       *)
(* employees are invited (internal/onboarding), authorize in the browser   *)
(* (httpx/oauth.go) and lose everything when they become inactive          *)
(* (tokens/offboard.go).                                                   *)
(*                                                                         *)
(* Reconcile reads the table once and works on that snapshot, one store    *)
(* call at a time, while other runs, logins and administrators write the   *)
(* same rows.  Of a profile only one bit is kept; the details of a login   *)
(* and of an offboarding are those of TokenRefresh, and one step here.     *)
(***************************************************************************)
EXTENDS Naturals, FiniteSets

CONSTANTS
  People,        \* Zoho accounts of the company
  Emails, EmailsOf,  \* EmailsOf[p]: the addresses p may have
  Ids,           \* rows; as emails are unique, one per email is enough
  Imports,       \* CSV uploads an administrator may be running
  ChangeKinds,   \* the kinds of change the directory sees
  MaxChanges,    \* bound: how often it changes
  Faults,        \* the kinds of failure that may happen
  Hourly, None     \* the periodic run of the worker; SQL NULL

FaultKinds == {"db", "mail", "crash"}
AllChangeKinds == {"hire", "status", "email", "rename", "invite", "login"}

ASSUME ConstantsAssumption ==
  /\ EmailsOf \in [People -> SUBSET Emails]
  /\ MaxChanges \in Nat
  /\ Faults \subseteq FaultKinds /\ ChangeKinds \subseteq AllChangeKinds
  /\ Hourly \notin Imports
  /\ None \notin People /\ None \notin Emails /\ None \notin Ids

VARIABLES
  account,   \* the company directory: one record per Zoho account
  emp,       \* table employees, with the account of the stored credential
  links,     \* rows with an unused onboarding link or a running login
  changes,   \* how often the outside world has acted
  quiet,     \* nothing changes or fails any more
  rpc, users, snap, hand   \* a run of Reconcile: stage, rest of `users`,
                           \* `existing`, and the user and match at hand

world == <<account, changes, quiet>>
run   == <<rpc, users, snap, hand>>
vars  == <<world, emp, links, run>>

Runs == Imports \cup {Hourly}

-----------------------------------------------------------------------------
OptPerson == People \cup {None}
Status == {"active", "inactive"}
OnboardingStatus == {"not_invited", "invited", "authorization_failed", "authorized", "disabled"}

\* A directory record; status "absent" is an account not hired yet.
Account == [email: Emails, name: {0, 1}, status: Status \cup {"absent"}]
User == [zoho: OptPerson, email: Emails, name: {0, 1}, status: Status]
Employee == [zoho: OptPerson, email: Emails \cup {None}, name: {0, 1},
             status: Status \cup {"absent"}, onboarding: OnboardingStatus, cred: OptPerson]

\* What Reconcile keeps of a row; key is the address byEmail knows it under.
Seen == [zoho: OptPerson, email: Emails \cup {None}, name: {0, 1},
         status: Status \cup {"absent"}, key: Emails \cup {None}]

Hand == [user: User \cup {None}, id: Ids \cup {None}]

NoRow == [zoho |-> None, email |-> None, name |-> 0, status |-> "absent",
          onboarding |-> "not_invited", cred |-> None]
NoSnapshot == [i \in Ids |-> [zoho |-> None, email |-> None, name |-> 0,
                              status |-> "absent", key |-> None]]
Nothing == [user |-> None, id |-> None]

TypeOK ==
  /\ account \in [People -> Account]
  /\ emp \in [Ids -> Employee]
  /\ links \subseteq Ids
  /\ changes \in 0..MaxChanges
  /\ quiet \in BOOLEAN
  /\ rpc \in [Runs -> {"idle", "list", "users", "create", "invite", "update", "offboard"}]
  /\ users \in [Runs -> SUBSET User]
  /\ snap \in [Runs -> [Ids -> Seen]]
  /\ hand \in [Runs -> Hand]

Init ==
  /\ account \in [People -> [email: Emails, name: {0}, status: {"absent", "active"}]]
  /\ \A p \in People : account[p].email \in EmailsOf[p]
  /\ \A p, q \in People : account[p].email = account[q].email => p = q
  /\ emp = [i \in Ids |-> NoRow]
  /\ links = {}
  /\ changes = 0
  /\ quiet = FALSE
  /\ rpc = [r \in Runs |-> "idle"]
  /\ users = [r \in Runs |-> {}]
  /\ snap = [r \in Runs |-> NoSnapshot]
  /\ hand = [r \in Runs |-> Nothing]

Exists(i) == emp[i].status # "absent"
Taken(email) == \E i \in Ids : Exists(i) /\ emp[i].email = email

-----------------------------------------------------------------------------
(* The outside world.                                                      *)

May(kind) == kind \in Faults /\ ~quiet
MayStop == May("db") \/ May("crash")

Change(kind) ==
  /\ kind \in ChangeKinds /\ ~quiet
  /\ changes < MaxChanges
  /\ changes' = changes + 1
  /\ UNCHANGED quiet

Quieten ==
  /\ ~quiet
  /\ quiet' = TRUE
  /\ UNCHANGED <<account, changes, emp, links, run>>

\* The personnel department hires, deactivates, reactivates, renames.
Hire(p) ==
  /\ Change("hire")
  /\ account[p].status = "absent"
  /\ account' = [account EXCEPT ![p].status = "active"]
  /\ UNCHANGED <<emp, links, run>>

FlipStatus(p) ==
  /\ Change("status")
  /\ account[p].status # "absent"
  /\ account' = [account EXCEPT ![p].status = IF @ = "active" THEN "inactive" ELSE "active"]
  /\ UNCHANGED <<emp, links, run>>

Rename(p) ==
  /\ Change("rename")
  /\ account' = [account EXCEPT ![p].name = 1 - @]
  /\ UNCHANGED <<emp, links, run>>

NewEmail(p) ==
  /\ Change("email")
  /\ \E a \in EmailsOf[p] \ {account[q].email : q \in People} :
       account' = [account EXCEPT ![p].email = a]
  /\ UNCHANGED <<emp, links, run>>

\* An administrator sends (another) invitation, whatever the employee's status.
Resend(i) ==
  /\ Change("invite")
  /\ Exists(i)
  /\ emp' = [emp EXCEPT ![i].onboarding = "invited"]
  /\ links' = links \cup {i}
  /\ UNCHANGED <<account, run>>

\* VerifyBinding: the account id if the row has one, else the address.
Binds(p, i) == IF emp[i].zoho # None THEN emp[i].zoho = p ELSE emp[i].email = account[p].email

\* start consumes the link, callback stores the credential: neither looks at the
\* employee's status.  A first authorization binds the row to the account.
Login(i, p) ==
  /\ Change("login")
  /\ i \in links /\ Exists(i)
  /\ links' = links \ {i}
  /\ emp' = IF Binds(p, i)
              THEN [emp EXCEPT ![i] = [@ EXCEPT !.zoho = p, !.cred = p, !.onboarding = "authorized"]]
              ELSE [emp EXCEPT ![i].onboarding = "authorization_failed"]
  /\ UNCHANGED <<account, run>>

-----------------------------------------------------------------------------
(* Reconcile.                                                              *)

Goto(r, stage) == rpc' = [rpc EXCEPT ![r] = stage]

\* Reconcile returns; the rest of the users is left for the next run.
Return(r) ==
  /\ Goto(r, "idle")
  /\ users' = [users EXCEPT ![r] = {}]
  /\ snap' = [snap EXCEPT ![r] = NoSnapshot]
  /\ hand' = [hand EXCEPT ![r] = Nothing]

Record(r, p) ==
  [zoho |-> IF r = Hourly THEN p ELSE None, email |-> account[p].email,
   name |-> account[p].name, status |-> account[p].status]

\* mutant: the directory is asked for its active users
MutantListing(r) == {Record(r, p) : p \in {q \in People : account[q].status = "active"}}

\* ListUsers of the directory, or an upload made from it: without account ids.
Listing(r) == {Record(r, p) : p \in {q \in People : account[q].status # "absent"}}

Fetch(r) ==
  /\ rpc[r] = "idle"
  /\ r = Hourly \/ ~quiet
  /\ users' = [users EXCEPT ![r] = Listing(r)]
  /\ Goto(r, "list")
  /\ UNCHANGED <<world, emp, links, snap, hand>>

ListByOrg(r) ==
  /\ rpc[r] = "list"
  /\ snap' = [snap EXCEPT ![r] = [i \in Ids |->
       [zoho |-> emp[i].zoho, email |-> emp[i].email, name |-> emp[i].name,
        status |-> emp[i].status, key |-> emp[i].email]]]
  /\ Goto(r, "users")
  /\ UNCHANGED <<world, emp, links, users, hand>>

Known(r) == {i \in Ids : snap[r][i].status # "absent"}
ByZoho(r, u) == {i \in Known(r) : u.zoho # None /\ snap[r][i].zoho = u.zoho}
ByEmail(r, u) == {i \in Known(r) : snap[r][i].key = u.email}

\* mutant: employees are matched by their address alone
MutantMatches(r, u) == ByEmail(r, u)

\* The authoritative account id first, then the address.
Matches(r, u) == IF ByZoho(r, u) # {} THEN ByZoho(r, u) ELSE ByEmail(r, u)

\* A changed address that belongs to another row, or that no account id vouches for.
Conflict(r, u, i) ==
  /\ u.email # snap[r][i].email
  /\ \/ ByEmail(r, u) \ {i} # {}
     \/ u.zoho = None \/ u.zoho # snap[r][i].zoho

\* The next user of the snapshot.
NextUser(r) ==
  /\ rpc[r] = "users"
  /\ \E u \in users[r] :
       /\ users' = [users EXCEPT ![r] = @ \ {u}]
       /\ \/ /\ Matches(r, u) = {}
             /\ hand' = [hand EXCEPT ![r] = [user |-> u, id |-> None]]
             /\ Goto(r, "create")
          \/ \E i \in Matches(r, u) :
               IF Conflict(r, u, i)
                 THEN UNCHANGED <<hand, rpc>>
                 ELSE /\ hand' = [hand EXCEPT ![r] = [user |-> u, id |-> i]]
                      /\ Goto(r, "update")
  /\ UNCHANGED <<world, emp, links, snap>>

EndOfUsers(r) ==
  /\ rpc[r] = "users" /\ users[r] = {}
  /\ Return(r)
  /\ UNCHANGED <<world, emp, links>>

\* UNIQUE (organization_id, email) refuses a second row; only an active new
\* employee is invited.
Create(r) ==
  /\ rpc[r] = "create"
  /\ LET u == hand[r].user IN
       \/ /\ ~Taken(u.email)
          /\ \E i \in {j \in Ids : ~Exists(j)} :
               /\ emp' = [emp EXCEPT ![i] = [NoRow EXCEPT !.zoho = u.zoho, !.email = u.email,
                                               !.name = u.name, !.status = u.status]]
               /\ IF u.status = "active"
                    THEN hand' = [hand EXCEPT ![r].id = i] /\ Goto(r, "invite")
                    ELSE hand' = [hand EXCEPT ![r] = Nothing] /\ Goto(r, "users")
          /\ UNCHANGED <<users, snap>>
       \/ Taken(u.email) /\ Return(r) /\ UNCHANGED emp
  /\ UNCHANGED <<world, links>>

\* Token, mail, status; an error ends the run, and nobody invites again.
Invite(r) ==
  /\ rpc[r] = "invite"
  /\ LET i == hand[r].id IN
       \/ /\ links' = links \cup {i}
          /\ emp' = [emp EXCEPT ![i].onboarding = "invited"]
          /\ hand' = [hand EXCEPT ![r] = Nothing]
          /\ Goto(r, "users")
          /\ UNCHANGED <<users, snap>>
       \/ (May("mail") \/ MayStop) /\ Return(r) /\ UNCHANGED <<emp, links>>
       \/ MayStop /\ Return(r) /\ links' = links \cup {i} /\ UNCHANGED emp
  /\ UNCHANGED world

\* The user, and the snapshot of the row, of an update under way.
TheUser(r) == hand[r].user
TheRow(r) == snap[r][hand[r].id]
Settled(r, columns) == \A f \in columns : TheUser(r)[f] = TheRow(r)[f]

UpdateEmail(r) ==
  /\ rpc[r] = "update" /\ ~Settled(r, {"email"})
  /\ IF \E j \in Ids \ {hand[r].id} : Exists(j) /\ emp[j].email = TheUser(r).email
       THEN Return(r) /\ UNCHANGED emp
       ELSE /\ emp' = [emp EXCEPT ![hand[r].id].email = TheUser(r).email]
            /\ snap' = [snap EXCEPT ![r][hand[r].id].email = TheUser(r).email]
            /\ UNCHANGED <<rpc, users, hand>>
  /\ UNCHANGED <<world, links>>

\* mutant: nobody comes back
MutantSetStatus(r) ==
  /\ rpc[r] = "update" /\ Settled(r, {"email"}) /\ ~Settled(r, {"status"})
  /\ emp' = IF TheUser(r).status = "active" THEN emp
            ELSE [emp EXCEPT ![hand[r].id].status = TheUser(r).status]
  /\ snap' = [snap EXCEPT ![r][hand[r].id].status = TheUser(r).status]
  /\ Goto(r, IF TheUser(r).status = "inactive" THEN "offboard" ELSE "update")
  /\ UNCHANGED <<world, links, users, hand>>

SetStatus(r) ==
  /\ rpc[r] = "update" /\ Settled(r, {"email"}) /\ ~Settled(r, {"status"})
  /\ emp' = [emp EXCEPT ![hand[r].id].status = TheUser(r).status]
  /\ snap' = [snap EXCEPT ![r][hand[r].id].status = TheUser(r).status]
  /\ Goto(r, IF TheUser(r).status = "inactive" THEN "offboard" ELSE "update")
  /\ UNCHANGED <<world, links, users, hand>>

\* mutant: the onboarding state is written to the column status
MutantOffboard(r) ==
  /\ rpc[r] = "offboard"
  /\ emp' = [emp EXCEPT ![hand[r].id] = [@ EXCEPT !.cred = None, !.status = "disabled"]]
  /\ Goto(r, "update")
  /\ UNCHANGED <<world, links, users, snap, hand>>

\* Delete the credential, then mark the employee disabled; either may fail.
Offboard(r) ==
  /\ rpc[r] = "offboard"
  /\ LET i == hand[r].id IN
       \/ /\ emp' = [emp EXCEPT ![i] = [@ EXCEPT !.cred = None, !.onboarding = "disabled"]]
          /\ Goto(r, "update")
          /\ UNCHANGED <<users, snap, hand>>
       \/ /\ MayStop /\ Return(r)
          /\ emp' \in {emp, [emp EXCEPT ![i].cred = None]}
  /\ UNCHANGED <<world, links>>

\* The profile is written together with the status of the snapshot.
UpdateProfile(r) ==
  /\ rpc[r] = "update" /\ Settled(r, {"email", "status"}) /\ ~Settled(r, {"name"})
  /\ emp' = [emp EXCEPT ![hand[r].id] =
               [@ EXCEPT !.name = TheUser(r).name, !.status = TheRow(r).status]]
  /\ hand' = [hand EXCEPT ![r] = Nothing]
  /\ Goto(r, "users")
  /\ UNCHANGED <<world, links, users, snap>>

UserDone(r) ==
  /\ rpc[r] = "update" /\ Settled(r, {"email", "status", "name"})
  /\ hand' = [hand EXCEPT ![r] = Nothing]
  /\ Goto(r, "users")
  /\ UNCHANGED <<world, emp, links, users, snap>>

\* A failing statement, or the end of the process.
Abort(r) ==
  /\ rpc[r] # "idle"
  /\ May("crash") \/ (May("db") /\ rpc[r] \in {"list", "create", "update"})
  /\ Return(r)
  /\ UNCHANGED <<world, emp, links>>

-----------------------------------------------------------------------------
World ==
  \/ Quieten
  \/ \E p \in People : Hire(p) \/ FlipStatus(p) \/ Rename(p) \/ NewEmail(p)
  \/ \E i \in Ids : Resend(i) \/ \E p \in People : Login(i, p)

Reconcile(r) ==
  \/ Fetch(r) \/ ListByOrg(r) \/ NextUser(r) \/ EndOfUsers(r)
  \/ Create(r) \/ Invite(r)
  \/ UpdateEmail(r) \/ SetStatus(r) \/ Offboard(r) \/ UpdateProfile(r) \/ UserDone(r)

Next == World \/ \E r \in Runs : Reconcile(r) \/ Abort(r)

Spec == Init /\ [][Next]_vars

\* RunPeriodic never stops, and an upload that was started is finished.
FairSpec == Spec /\ \A r \in Runs : WF_vars(Reconcile(r))

-----------------------------------------------------------------------------
(* Properties.                                                             *)

\* No two rows of one account: who changes address keeps row and credential, also
\* when the old address is given to somebody else (the matching in Reconcile).
NoAccountTwice ==
  \A i, j \in Ids : emp[i].zoho # None /\ emp[i].zoho = emp[j].zoho => i = j

\* The worker's sync loop reads the calendar of the account behind the row.
Synced(i) == emp[i].status = "active" /\ emp[i].cred # None /\ emp[i].onboarding = "authorized"

\* Once the directory is quiet, the calendar of an account that is inactive in it is
\* no longer read, whatever failed before ("deactivation triggers offboarding").
EventuallyStopped ==
  <>[]quiet => <>[](\A i \in Ids : Synced(i) => account[emp[i].cred].status = "active")

\* Once the directory is quiet, every active account has an active employee with its
\* present address, although a run stops at the first error (Reconcile).
EventuallyEnrolled ==
  <>[]quiet => <>[](\A p \in People : account[p].status = "active" =>
    \E i \in Ids : emp[i].status = "active" /\ emp[i].email = account[p].email)

\* Offboarding leaves no credential behind (docs/security/offboarding.md).
InactiveHasNoCredential ==
  <>[]quiet => <>[](\A i \in Ids : emp[i].status = "inactive" => emp[i].cred = None)

=============================================================================
