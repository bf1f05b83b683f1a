--------------------------- MODULE DirectoryProofs ---------------------------
(***************************************************************************)
(* Theorems about Directory, for any accounts, addresses, rows, uploads,   *)
(* changes and failures.                                                   *)
(***************************************************************************)
EXTENDS Directory, TLAPS

\* What the writes of the outside world leave of an account.
LEMMA AccountStatus == \A a \in Account, s \in Status : [a EXCEPT !.status = s] \in Account
BY DEF Account, Status

\* What the statements on the table employees leave of a row: its state, ...
LEMMA RowOnboarding ==
  \A e \in Employee, o \in OnboardingStatus : [e EXCEPT !.onboarding = o] \in Employee
BY DEF Employee

\* ... its credential (a login, an offboarding), ...
LEMMA RowCredential ==
  \A e \in Employee, p \in OptPerson, o \in OnboardingStatus :
    /\ [e EXCEPT !.zoho = p, !.cred = p, !.onboarding = o] \in Employee
    /\ [e EXCEPT !.cred = p, !.onboarding = o] \in Employee
BY DEF Employee

\* ... its credential alone, ...
LEMMA RowDelete == \A e \in Employee, p \in OptPerson : [e EXCEPT !.cred = p] \in Employee
BY DEF Employee

\* ... its address, ...
LEMMA RowEmail == \A e \in Employee, a \in Emails : [e EXCEPT !.email = a] \in Employee
BY DEF Employee

\* ... its status, ...
LEMMA RowStatus ==
  \A e \in Employee, s \in Status \cup {"absent"} : [e EXCEPT !.status = s] \in Employee
BY DEF Employee

\* ... its profile.
LEMMA RowProfile ==
  \A e \in Employee, n \in {0, 1}, s \in Status \cup {"absent"} :
    [e EXCEPT !.name = n, !.status = s] \in Employee
BY DEF Employee

\* The row INSERT adds for a user.
LEMMA RowInsert ==
  \A u \in User :
    [NoRow EXCEPT !.zoho = u.zoho, !.email = u.email, !.name = u.name, !.status = u.status]
      \in Employee
BY DEF Employee, NoRow, OptPerson, OnboardingStatus, User, Status

\* What Reconcile writes into its snapshot.
LEMMA SeenEmail == \A e \in Seen, a \in Emails : [e EXCEPT !.email = a] \in Seen
BY DEF Seen

\* What SetStatus writes into the snapshot.
LEMMA SeenStatus == \A e \in Seen, s \in Status : [e EXCEPT !.status = s] \in Seen
BY DEF Seen

\* The fields of a user.
LEMMA UserFields ==
  ASSUME NEW u \in User
  PROVE  u.zoho \in OptPerson /\ u.email \in Emails /\ u.name \in {0, 1} /\ u.status \in Status
BY DEF User

\* What a run may have at hand: a user with or without a row, ...
LEMMA HandNew ==
  \A u \in User \cup {None}, i \in Ids \cup {None} : [user |-> u, id |-> i] \in Hand
BY DEF Hand

\* ... a user whose row is known now, ...
LEMMA HandRow ==
  \A h \in Hand, i \in Ids : [h EXCEPT !.id = i] \in Hand /\ [h EXCEPT !.id = i].id = i
BY DEF Hand

\* ... or neither.
LEMMA HandEmpty == Nothing \in Hand
BY DEF Hand, Nothing

\* The user and the row at hand, at the stages that use them.
HandInv ==
  \A r \in Runs :
    /\ rpc[r] \in {"create", "update", "offboard"} => hand[r].user \in User
    /\ rpc[r] \in {"invite", "update", "offboard"} => hand[r].id \in Ids

TypeInv == TypeOK /\ HandInv

\* The initial state is well typed.
LEMMA InitType == Init => TypeInv
<1> SUFFICES ASSUME Init PROVE TypeInv
  OBVIOUS
<1>1. account \in [People -> Account]
  BY DEF Init, Account, Status
<1>2. emp \in [Ids -> Employee]
  BY DEF Init, Employee, NoRow, OnboardingStatus, OptPerson
<1>3. snap \in [Runs -> [Ids -> Seen]]
  BY DEF Init, NoSnapshot, Seen, OptPerson
<1>4. hand \in [Runs -> Hand]
  BY DEF Init, Nothing, Hand
<1>5. links \subseteq Ids /\ changes \in 0..MaxChanges
  BY ConstantsAssumption DEF Init
<1>6. quiet \in BOOLEAN
  <2>1. quiet = FALSE
    BY DEF Init
  <2> QED  BY <2>1
<1>7. rpc \in [Runs -> {"idle", "list", "users", "create", "invite", "update", "offboard"}]
      /\ users \in [Runs -> SUBSET User] /\ HandInv
  BY DEF Init, HandInv
<1> QED  BY <1>1, <1>2, <1>3, <1>4, <1>5, <1>6, <1>7 DEF TypeInv, TypeOK

\* Giving a run up keeps its variables well typed.
LEMMA ReturnType ==
  ASSUME TypeInv, NEW r \in Runs, Return(r)
  PROVE  /\ rpc' \in [Runs -> {"idle", "list", "users", "create", "invite", "update", "offboard"}]
         /\ users' \in [Runs -> SUBSET User]
         /\ snap' \in [Runs -> [Ids -> Seen]]
         /\ hand' \in [Runs -> Hand]
         /\ HandInv'
<1>1. NoSnapshot \in [Ids -> Seen]
  BY DEF NoSnapshot, Seen, OptPerson, Status
<1>2. Nothing \in Hand
  BY DEF Nothing, Hand
<1> QED  BY <1>1, <1>2 DEF TypeInv, TypeOK, HandInv, Return, Goto

\* A change of the world is counted.
LEMMA ChangeType ==
  ASSUME TypeOK, NEW kind, Change(kind)
  PROVE  changes' \in 0..MaxChanges /\ quiet' \in BOOLEAN
BY ConstantsAssumption DEF TypeOK, Change

\* The world keeps the types.
LEMMA WorldType ==
  ASSUME TypeInv, World
  PROVE  TypeInv'
<1> USE ChangeType DEF TypeInv, TypeOK, HandInv, world, run
<1>1. CASE Quieten
  BY <1>1 DEF Quieten
<1>2. ASSUME NEW p \in People, Hire(p)
      PROVE  TypeInv'
  <2>1. [account[p] EXCEPT !.status = "active"] \in Account
    BY AccountStatus DEF Status
  <2> QED  BY <1>2, <2>1 DEF Hire
<1>3. ASSUME NEW p \in People, FlipStatus(p)
      PROVE  TypeInv'
  <2>1. \A s \in Status : [account[p] EXCEPT !.status = s] \in Account
    BY AccountStatus
  <2> QED  BY <1>3, <2>1 DEF FlipStatus, Status
<1>4. ASSUME NEW p \in People, Rename(p)
      PROVE  TypeInv'
  <2>1. 1 - account[p].name \in {0, 1}
    BY DEF Account
  <2>2. [account[p] EXCEPT !.name = 1 - @] \in Account
    BY <2>1 DEF Account
  <2> QED  BY <1>4, <2>2 DEF Rename
<1>5. ASSUME NEW p \in People, NewEmail(p)
      PROVE  TypeInv'
  <2>1. PICK a \in Emails : account' = [account EXCEPT ![p].email = a]
    BY <1>5, ConstantsAssumption DEF NewEmail
  <2>2. [account[p] EXCEPT !.email = a] \in Account
    BY DEF Account
  <2> QED  BY <1>5, <2>1, <2>2 DEF NewEmail
<1>6. ASSUME NEW i \in Ids, Resend(i)
      PROVE  TypeInv'
  <2>1. [emp[i] EXCEPT !.onboarding = "invited"] \in Employee
    BY RowOnboarding DEF OnboardingStatus
  <2> QED  BY <1>6, <2>1 DEF Resend
<1>7. ASSUME NEW i \in Ids, NEW p \in People, Login(i, p)
      PROVE  TypeInv'
  <2>1. /\ [emp[i] EXCEPT !.zoho = p, !.cred = p, !.onboarding = "authorized"] \in Employee
        /\ [emp[i] EXCEPT !.onboarding = "authorization_failed"] \in Employee
    BY RowCredential, RowOnboarding DEF OnboardingStatus, OptPerson
  <2> QED  BY <1>7, <2>1 DEF Login
<1> QED  BY <1>1, <1>2, <1>3, <1>4, <1>5, <1>6, <1>7 DEF World

\* A run of Reconcile keeps the types.
LEMMA ReconcileType ==
  ASSUME TypeInv, NEW r \in Runs, Reconcile(r) \/ Abort(r)
  PROVE  TypeInv'
<1> USE DEF TypeInv, TypeOK, HandInv, world, Goto
<1>1. CASE Fetch(r)
  <2>1. Listing(r) \in SUBSET User
    BY DEF Listing, Record, User, Account, OptPerson, Status
  <2> QED  BY <1>1, <2>1 DEF Fetch
<1>2. CASE ListByOrg(r)
  <2>1. [i \in Ids |-> [zoho |-> emp[i].zoho, email |-> emp[i].email, name |-> emp[i].name,
                        status |-> emp[i].status, key |-> emp[i].email]] \in [Ids -> Seen]
    BY DEF Seen, Employee
  <2> QED  BY <1>2, <2>1 DEF ListByOrg
<1>3. CASE NextUser(r)
  <2>1. PICK u \in users[r] :
          /\ users' = [users EXCEPT ![r] = @ \ {u}]
          /\ \/ /\ hand' = [hand EXCEPT ![r] = [user |-> u, id |-> None]]
                /\ Goto(r, "create")
             \/ \E i \in Matches(r, u) :
                  \/ UNCHANGED <<hand, rpc>>
                  \/ /\ hand' = [hand EXCEPT ![r] = [user |-> u, id |-> i]]
                     /\ Goto(r, "update")
    BY <1>3 DEF NextUser
  <2>2. Matches(r, u) \subseteq Ids
    BY DEF Matches, ByZoho, ByEmail, Known
  <2>3. u \in User /\ users' \in [Runs -> SUBSET User]
    BY <2>1
  <2>4. CASE hand' = [hand EXCEPT ![r] = [user |-> u, id |-> None]] /\ Goto(r, "create")
    BY <1>3, <2>3, <2>4, HandNew DEF NextUser
  <2>5. CASE UNCHANGED <<hand, rpc>>
    BY <1>3, <2>3, <2>5 DEF NextUser
  <2>6. ASSUME NEW i \in Ids, hand' = [hand EXCEPT ![r] = [user |-> u, id |-> i]],
               Goto(r, "update")
        PROVE  TypeInv'
    BY <1>3, <2>3, <2>6, HandNew DEF NextUser
  <2> QED  BY <2>1, <2>2, <2>4, <2>5, <2>6
<1>4. CASE EndOfUsers(r)
  BY <1>4, ReturnType DEF EndOfUsers
<1>5. CASE Create(r)
  <2>1. ASSUME NEW i \in Ids,
               emp' = [emp EXCEPT ![i] = [NoRow EXCEPT !.zoho = hand[r].user.zoho,
                         !.email = hand[r].user.email, !.name = hand[r].user.name,
                         !.status = hand[r].user.status]],
               \/ hand' = [hand EXCEPT ![r].id = i] /\ Goto(r, "invite")
               \/ hand' = [hand EXCEPT ![r] = Nothing] /\ Goto(r, "users"),
               UNCHANGED <<users, snap, world, links>>
        PROVE  TypeInv'
    <3>1. hand[r].user \in User
      BY <1>5 DEF Create
    <3>2. emp' \in [Ids -> Employee]
      BY <2>1, <3>1, RowInsert
    <3>3. [hand[r] EXCEPT !.id = i] \in Hand /\ [hand[r] EXCEPT !.id = i].id = i
      BY HandRow
    <3>4. Nothing \in Hand
      BY DEF Nothing, Hand
    <3> QED  BY <2>1, <3>2, <3>3, <3>4
  <2>2. CASE Return(r) /\ UNCHANGED emp
    BY <1>5, <2>2, ReturnType DEF Create
  <2>3. \/ Return(r) /\ UNCHANGED emp
        \/ \E i \in Ids :
             /\ emp' = [emp EXCEPT ![i] = [NoRow EXCEPT !.zoho = hand[r].user.zoho,
                         !.email = hand[r].user.email, !.name = hand[r].user.name,
                         !.status = hand[r].user.status]]
             /\ \/ hand' = [hand EXCEPT ![r].id = i] /\ Goto(r, "invite")
                \/ hand' = [hand EXCEPT ![r] = Nothing] /\ Goto(r, "users")
             /\ UNCHANGED <<users, snap>>
    BY <1>5 DEF Create
  <2>4. UNCHANGED <<world, links>>
    BY <1>5 DEF Create
  <2> QED  BY <2>1, <2>2, <2>3, <2>4
<1>6. CASE Invite(r)
  <2>1. [emp EXCEPT ![hand[r].id].onboarding = "invited"] \in [Ids -> Employee]
    BY <1>6, RowOnboarding DEF Invite, OnboardingStatus
  <2>2. links \cup {hand[r].id} \subseteq Ids
    BY <1>6 DEF Invite
  <2>3. CASE Return(r)
    BY <1>6, <2>1, <2>2, <2>3, ReturnType DEF Invite
  <2>4. CASE /\ hand' = [hand EXCEPT ![r] = Nothing]
             /\ Goto(r, "users")
             /\ UNCHANGED <<users, snap>>
    BY <1>6, <2>1, <2>2, <2>4, HandEmpty DEF Invite
  <2> QED  BY <1>6, <2>3, <2>4 DEF Invite
<1>7. CASE UpdateEmail(r)
  <2>1. CASE Return(r) /\ UNCHANGED emp
    BY <1>7, <2>1, ReturnType DEF UpdateEmail
  <2>2. CASE /\ emp' = [emp EXCEPT ![hand[r].id].email = TheUser(r).email]
             /\ snap' = [snap EXCEPT ![r][hand[r].id].email = TheUser(r).email]
             /\ UNCHANGED <<rpc, users, hand>>
    <3>1. hand[r].user.email \in Emails /\ hand[r].id \in Ids
      BY <1>7, UserFields DEF UpdateEmail
    <3>2. [emp[hand[r].id] EXCEPT !.email = hand[r].user.email] \in Employee
      BY <3>1, RowEmail
    <3>3. [snap[r][hand[r].id] EXCEPT !.email = hand[r].user.email] \in Seen
      BY <3>1, SeenEmail
    <3>4. emp' \in [Ids -> Employee]
      BY <2>2, <3>1, <3>2 DEF TheUser
    <3>5. snap' \in [Runs -> [Ids -> Seen]]
      BY <2>2, <3>1, <3>3 DEF TheUser
    <3> QED  BY <1>7, <2>2, <3>4, <3>5 DEF UpdateEmail
  <2> QED  BY <1>7, <2>1, <2>2 DEF UpdateEmail
<1>8. CASE SetStatus(r)
  <2>1. hand[r].user.status \in Status /\ hand[r].id \in Ids
    BY <1>8, UserFields DEF SetStatus
  <2>2. [emp[hand[r].id] EXCEPT !.status = hand[r].user.status] \in Employee
    BY <2>1, RowStatus
  <2>3. [snap[r][hand[r].id] EXCEPT !.status = hand[r].user.status] \in Seen
    BY <2>1, SeenStatus
  <2>4. emp' \in [Ids -> Employee]
    BY <1>8, <2>1, <2>2 DEF SetStatus, TheUser
  <2>5. snap' \in [Runs -> [Ids -> Seen]]
    BY <1>8, <2>1, <2>3 DEF SetStatus, TheUser
  <2> QED  BY <1>8, <2>4, <2>5 DEF SetStatus
<1>9. CASE Offboard(r)
  <2>1. emp' \in [Ids -> Employee]
    <3>1. hand[r].id \in Ids
      BY <1>9 DEF Offboard
    <3>2. /\ [emp[hand[r].id] EXCEPT !.cred = None, !.onboarding = "disabled"] \in Employee
          /\ [emp[hand[r].id] EXCEPT !.cred = None] \in Employee
      BY <3>1, RowCredential, RowDelete DEF OptPerson, OnboardingStatus
    <3> QED  BY <1>9, <3>1, <3>2 DEF Offboard
  <2>2. CASE Return(r)
    BY <1>9, <2>1, <2>2, ReturnType DEF Offboard
  <2>3. CASE Goto(r, "update") /\ UNCHANGED <<users, snap, hand>>
    BY <1>9, <2>1, <2>3 DEF Offboard
  <2> QED  BY <1>9, <2>2, <2>3 DEF Offboard
<1>10. CASE UpdateProfile(r)
  <2>1. hand[r].user.name \in {0, 1} /\ hand[r].id \in Ids
    BY <1>10, UserFields DEF UpdateProfile
  <2>2. snap[r][hand[r].id].status \in Status \cup {"absent"}
    <3>1. snap[r][hand[r].id] \in Seen
      BY <2>1
    <3> QED  BY <3>1 DEF Seen
  <2>3. [emp[hand[r].id] EXCEPT !.name = hand[r].user.name, !.status = snap[r][hand[r].id].status]
          \in Employee
    BY <2>1, <2>2, RowProfile
  <2>4. emp' \in [Ids -> Employee]
    BY <1>10, <2>1, <2>3 DEF UpdateProfile, TheUser, TheRow
  <2> QED  BY <1>10, <2>4, HandEmpty DEF UpdateProfile
<1>11. CASE UserDone(r)
  BY <1>11, HandEmpty DEF UserDone
<1>12. CASE Abort(r)
  BY <1>12, ReturnType DEF Abort
<1> QED
  BY <1>1, <1>2, <1>3, <1>4, <1>5, <1>6, <1>7, <1>8, <1>9, <1>10, <1>11, <1>12 DEF Reconcile

\* TypeInv is inductive.
LEMMA NextType == TypeInv /\ [Next]_vars => TypeInv'
<1>1. ASSUME TypeInv, UNCHANGED vars
      PROVE  TypeInv'
  BY <1>1 DEF TypeInv, TypeOK, HandInv, vars, world, run
<1> QED  BY <1>1, WorldType, ReconcileType DEF Next

\* The table, the snapshots and the users at hand keep their types (the columns
\* Reconcile reads and writes).
THEOREM TypeCorrect == Spec => []TypeOK
<1>1. TypeInv => TypeOK
  BY DEF TypeInv
<1> QED  BY InitType, NextType, <1>1, PTL DEF Spec

-----------------------------------------------------------------------------
(* One row per account, when only the periodic run writes the table.  The  *)
(* rows it creates are bound from the start; what has to be shown is that  *)
(* the snapshot still knows every row of the users it has yet to handle.   *)

\* A row is there exactly when it is bound to an account.
BoundInv == \A i \in Ids : Exists(i) <=> emp[i].zoho # None

\* The listing names every account once.
UsersInv == \A u, v \in users[Hourly] : u.zoho # None /\ (u.zoho = v.zoho => u = v)

\* The rows of the users still to come are in the snapshot.
SeenInv ==
  /\ \A i \in Ids : snap[Hourly][i].status # "absent" => Exists(i)
  /\ rpc[Hourly] \notin {"idle", "list"} =>
       \A u \in users[Hourly], i \in Ids : emp[i].zoho = u.zoho =>
         snap[Hourly][i].zoho = u.zoho /\ snap[Hourly][i].status # "absent"
  /\ rpc[Hourly] \in {"update", "offboard"} => snap[Hourly][hand[Hourly].id].status # "absent"

\* Nobody has a row of the user about to be created, and the listing will not name it again.
CreateInv ==
  rpc[Hourly] = "create" =>
    LET z == hand[Hourly].user.zoho IN
      /\ z # None
      /\ \A u \in users[Hourly] : u.zoho # z
      /\ \A i \in Ids : emp[i].zoho # z

RowInv == BoundInv /\ UsersInv /\ SeenInv /\ CreateInv /\ NoAccountTwice

\* The worker's run is always one of them.
LEMMA PeriodicRuns == Hourly \in Runs
BY DEF Runs

\* The empty table satisfies it.
LEMMA InitRow == Init => RowInv
<1> SUFFICES ASSUME Init PROVE RowInv
  OBVIOUS
<1>1. /\ rpc[Hourly] = "idle" /\ users[Hourly] = {} /\ snap[Hourly] = NoSnapshot
      /\ \A i \in Ids : emp[i] = NoRow
  BY PeriodicRuns DEF Init
<1>2. NoRow.status = "absent" /\ NoRow.zoho = None
  BY DEF NoRow
<1>3. \A i \in Ids : snap[Hourly][i].status = "absent"
  BY <1>1 DEF NoSnapshot
<1> QED
  BY <1>1, <1>2, <1>3 DEF RowInv, BoundInv, UsersInv, SeenInv, CreateInv, NoAccountTwice, Exists

\* A step that binds no row and creates none keeps the invariant.
LEMMA Undisturbed ==
  ASSUME RowInv,
         \A i \in Ids : emp'[i].zoho = emp[i].zoho /\ (emp'[i].status = "absent" <=> emp[i].status = "absent"),
         users'[Hourly] \subseteq users[Hourly],
         \A i \in Ids : /\ snap'[Hourly][i].zoho = snap[Hourly][i].zoho
                        /\ (snap'[Hourly][i].status = "absent" <=> snap[Hourly][i].status = "absent"),
         rpc'[Hourly] \in {"idle", "list"} \/ rpc[Hourly] \notin {"idle", "list"},
         rpc'[Hourly] = "create" => rpc[Hourly] = "create" /\ hand'[Hourly] = hand[Hourly],
         rpc'[Hourly] \in {"update", "offboard"} => snap[Hourly][hand'[Hourly].id].status # "absent"
                                                /\ hand'[Hourly].id \in Ids
  PROVE  RowInv'
<1> USE DEF RowInv
<1>1. BoundInv'
  BY DEF BoundInv, Exists
<1>2. UsersInv'
  BY DEF UsersInv
<1>3. NoAccountTwice'
  BY DEF NoAccountTwice
<1>4. SeenInv'
  BY DEF SeenInv, Exists
<1>5. CreateInv'
  BY DEF CreateInv
<1> QED  BY <1>1, <1>2, <1>3, <1>4, <1>5

\* Nor does giving the run up, if no row is bound or created.
LEMMA GivenUp ==
  ASSUME TypeInv, RowInv, Return(Hourly),
         \A i \in Ids : emp'[i].zoho = emp[i].zoho /\ (emp'[i].status = "absent" <=> emp[i].status = "absent")
  PROVE  RowInv'
<1>1. Hourly \in Runs
  BY PeriodicRuns
<1>2. /\ rpc'[Hourly] = "idle" /\ users'[Hourly] = {}
      /\ \A i \in Ids : snap'[Hourly][i].status = "absent"
  BY <1>1 DEF Return, Goto, TypeInv, TypeOK, NoSnapshot
<1>3. BoundInv' /\ NoAccountTwice'
  BY DEF RowInv, BoundInv, NoAccountTwice, Exists
<1> QED  BY <1>2, <1>3 DEF RowInv, UsersInv, SeenInv, CreateInv

\* The world binds no row: a login only to the account it is bound to already.
LEMMA WorldRow ==
  ASSUME TypeInv, RowInv, World
  PROVE  RowInv'
<1>1. UNCHANGED run
  BY DEF World, Quieten, Hire, FlipStatus, Rename, NewEmail, Resend, Login
<1>2. \A i \in Ids : emp'[i].zoho = emp[i].zoho /\ emp'[i].status = emp[i].status
  <2>1. ASSUME NEW k \in Ids, Resend(k)
        PROVE  \A i \in Ids : emp'[i].zoho = emp[i].zoho /\ emp'[i].status = emp[i].status
    BY <2>1 DEF Resend, TypeInv, TypeOK, Employee
  <2>2. ASSUME NEW k \in Ids, NEW p \in People, Login(k, p)
        PROVE  \A i \in Ids : emp'[i].zoho = emp[i].zoho /\ emp'[i].status = emp[i].status
    <3>1. Binds(p, k) => emp[k].zoho = p
      BY <2>2 DEF Login, Binds, RowInv, BoundInv
    <3>2. emp[k] \in Employee
      BY DEF TypeInv, TypeOK
    <3>3. /\ [emp[k] EXCEPT !.zoho = p, !.cred = p, !.onboarding = "authorized"].zoho = p
          /\ [emp[k] EXCEPT !.zoho = p, !.cred = p, !.onboarding = "authorized"].status = emp[k].status
          /\ [emp[k] EXCEPT !.onboarding = "authorization_failed"].zoho = emp[k].zoho
          /\ [emp[k] EXCEPT !.onboarding = "authorization_failed"].status = emp[k].status
      BY <3>2 DEF Employee
    <3> QED  BY <2>2, <3>1, <3>3 DEF Login, TypeInv, TypeOK
  <2>3. ASSUME Quieten \/ \E p \in People : Hire(p) \/ FlipStatus(p) \/ Rename(p) \/ NewEmail(p)
        PROVE  emp' = emp
    BY <2>3 DEF Quieten, Hire, FlipStatus, Rename, NewEmail
  <2> QED  BY <2>1, <2>2, <2>3 DEF World
<1>3. Hourly \in Runs
  BY PeriodicRuns
<1>4. rpc[Hourly] \in {"update", "offboard"} => hand[Hourly].id \in Ids
  BY <1>3 DEF TypeInv, HandInv
<1>5. rpc[Hourly] \in {"update", "offboard"} => snap[Hourly][hand[Hourly].id].status # "absent"
  BY DEF RowInv, SeenInv
<1>6. /\ rpc' = rpc /\ users' = users /\ snap' = snap /\ hand' = hand
  BY <1>1 DEF run
<1> QED  BY <1>2, <1>4, <1>5, <1>6, Undisturbed

\* The periodic run keeps it.
LEMMA ReconcileRow ==
  ASSUME TypeInv, RowInv, Reconcile(Hourly) \/ Abort(Hourly)
  PROVE  RowInv'
<1>1. Hourly \in Runs
  BY PeriodicRuns
<1> DEFINE z(i) == emp'[i].zoho = emp[i].zoho
           s(i) == emp'[i].status = "absent" <=> emp[i].status = "absent"
           row == hand[Hourly].id
<1>2. CASE Fetch(Hourly)
  <2>1. rpc'[Hourly] = "list" /\ users'[Hourly] = Listing(Hourly) /\ UNCHANGED <<emp, snap>>
    BY <1>1, <1>2 DEF Fetch, Goto, TypeInv, TypeOK
  <2>2. \A u, v \in Listing(Hourly) : u.zoho # None /\ (u.zoho = v.zoho => u = v)
    BY ConstantsAssumption DEF Listing, Record
  <2> QED
    BY <2>1, <2>2 DEF RowInv, BoundInv, UsersInv, SeenInv, CreateInv, NoAccountTwice, Exists
<1>3. CASE ListByOrg(Hourly)
  <2>1. /\ rpc'[Hourly] = "users" /\ UNCHANGED <<emp, users>>
        /\ \A i \in Ids : /\ snap'[Hourly][i].zoho = emp[i].zoho
                          /\ snap'[Hourly][i].status = emp[i].status
    BY <1>1, <1>3 DEF ListByOrg, Goto, TypeInv, TypeOK
  <2> QED
    BY <2>1 DEF RowInv, BoundInv, UsersInv, SeenInv, CreateInv, NoAccountTwice, Exists
<1>4. CASE NextUser(Hourly)
  <2>1. PICK u \in users[Hourly] :
          /\ users' = [users EXCEPT ![Hourly] = @ \ {u}]
          /\ \/ /\ Matches(Hourly, u) = {}
                /\ hand' = [hand EXCEPT ![Hourly] = [user |-> u, id |-> None]]
                /\ Goto(Hourly, "create")
             \/ \E i \in Matches(Hourly, u) :
                  IF Conflict(Hourly, u, i)
                    THEN UNCHANGED <<hand, rpc>>
                    ELSE /\ hand' = [hand EXCEPT ![Hourly] = [user |-> u, id |-> i]]
                         /\ Goto(Hourly, "update")
    BY <1>4 DEF NextUser
  <2>2. UNCHANGED <<emp, snap>> /\ rpc[Hourly] = "users" /\ users'[Hourly] = users[Hourly] \ {u}
    BY <1>1, <1>4, <2>1 DEF NextUser, TypeInv, TypeOK
  <2>3. CASE UNCHANGED <<hand, rpc>>
    BY <2>2, <2>3, Undisturbed
  <2>4. ASSUME NEW i \in Matches(Hourly, u),
               hand' = [hand EXCEPT ![Hourly] = [user |-> u, id |-> i]],
               Goto(Hourly, "update")
        PROVE  RowInv'
    <3>1. i \in Ids /\ snap[Hourly][i].status # "absent"
      BY <2>4 DEF Matches, ByZoho, ByEmail, Known
    <3>2. rpc'[Hourly] = "update" /\ hand'[Hourly].id = i
      BY <1>1, <2>4 DEF Goto, TypeInv, TypeOK
    <3> QED  BY <2>2, <3>1, <3>2, Undisturbed
  <2>5. CASE /\ Matches(Hourly, u) = {}
             /\ hand' = [hand EXCEPT ![Hourly] = [user |-> u, id |-> None]]
             /\ Goto(Hourly, "create")
    <3>1. rpc'[Hourly] = "create" /\ hand'[Hourly].user = u
      BY <1>1, <2>5 DEF Goto, TypeInv, TypeOK
    <3>2. \A i \in Ids : emp[i].zoho # u.zoho
      <4>1. ByZoho(Hourly, u) = {}
        BY <2>5 DEF Matches
      <4>2. u.zoho # None
        BY DEF RowInv, UsersInv
      <4> QED  BY <2>2, <4>1, <4>2 DEF ByZoho, Known, RowInv, SeenInv
    <3>3. u.zoho # None /\ \A v \in users'[Hourly] : v.zoho # u.zoho
      BY <2>2 DEF RowInv, UsersInv
    <3>4. CreateInv'
      BY <2>2, <3>1, <3>2, <3>3 DEF CreateInv
    <3>5. BoundInv' /\ NoAccountTwice' /\ UsersInv'
      BY <2>2 DEF RowInv, BoundInv, NoAccountTwice, UsersInv, Exists
    <3>6. SeenInv'
      BY <2>2, <3>1 DEF RowInv, SeenInv, Exists
    <3> QED  BY <3>4, <3>5, <3>6 DEF RowInv
  <2> QED  BY <2>1, <2>3, <2>4, <2>5
<1>5. CASE EndOfUsers(Hourly) \/ Abort(Hourly)
  BY <1>5, GivenUp DEF EndOfUsers, Abort
<1>6. CASE Create(Hourly)
  <2>1. CASE Return(Hourly) /\ UNCHANGED emp
    BY <2>1, GivenUp
  <2>2. ASSUME NEW k \in Ids, ~Exists(k),
               emp' = [emp EXCEPT ![k] = [NoRow EXCEPT !.zoho = hand[Hourly].user.zoho,
                         !.email = hand[Hourly].user.email, !.name = hand[Hourly].user.name,
                         !.status = hand[Hourly].user.status]],
               rpc'[Hourly] \in {"invite", "users"}, UNCHANGED <<users, snap>>
        PROVE  RowInv'
    <3>1. rpc[Hourly] = "create" /\ hand[Hourly].user \in User
      BY <1>1, <1>6 DEF Create, TypeInv, HandInv
    <3>2. /\ emp'[k].zoho = hand[Hourly].user.zoho /\ emp'[k].status # "absent"
          /\ \A i \in Ids \ {k} : emp'[i] = emp[i]
      BY <2>2, <3>1, UserFields DEF TypeInv, TypeOK, NoRow, Status
    <3>3. /\ hand[Hourly].user.zoho # None
          /\ \A i \in Ids : emp[i].zoho # hand[Hourly].user.zoho
          /\ \A v \in users[Hourly] : v.zoho # hand[Hourly].user.zoho
      BY <3>1 DEF RowInv, CreateInv
    <3>4. BoundInv' /\ NoAccountTwice' /\ UsersInv'
      BY <2>2, <3>2, <3>3 DEF RowInv, BoundInv, NoAccountTwice, UsersInv, Exists
    <3>5. SeenInv'
      BY <2>2, <3>1, <3>2, <3>3 DEF RowInv, SeenInv, Exists
    <3>6. CreateInv'
      BY <2>2 DEF CreateInv
    <3> QED  BY <3>4, <3>5, <3>6 DEF RowInv
  <2>3. CASE ~Taken(hand[Hourly].user.email)
    <3>1. PICK k \in Ids :
            /\ ~Exists(k)
            /\ emp' = [emp EXCEPT ![k] = [NoRow EXCEPT !.zoho = hand[Hourly].user.zoho,
                         !.email = hand[Hourly].user.email, !.name = hand[Hourly].user.name,
                         !.status = hand[Hourly].user.status]]
            /\ Goto(Hourly, "invite") \/ Goto(Hourly, "users")
            /\ UNCHANGED <<users, snap>>
      BY <1>6, <2>3 DEF Create
    <3>2. rpc'[Hourly] \in {"invite", "users"}
      BY <1>1, <3>1 DEF Goto, TypeInv, TypeOK
    <3> QED  BY <2>2, <3>1, <3>2
  <2> QED  BY <1>6, <2>1, <2>3 DEF Create
<1>7. CASE Invite(Hourly)
  <2>1. \A i \in Ids : z(i) /\ s(i)
    <3>1. emp' = emp \/ emp' = [emp EXCEPT ![row].onboarding = "invited"]
      BY <1>7 DEF Invite
    <3>2. row \in Ids /\ emp[row] \in Employee
      BY <1>1, <1>7 DEF Invite, TypeInv, TypeOK, HandInv
    <3>3. /\ [emp[row] EXCEPT !.onboarding = "invited"].zoho = emp[row].zoho
          /\ [emp[row] EXCEPT !.onboarding = "invited"].status = emp[row].status
      BY <3>2 DEF Employee
    <3> QED  BY <3>1, <3>2, <3>3 DEF TypeInv, TypeOK
  <2>2. CASE Return(Hourly)
    BY <2>1, <2>2, GivenUp
  <2>3. CASE Goto(Hourly, "users") /\ UNCHANGED <<users, snap>>
    <3>1. rpc'[Hourly] = "users" /\ rpc[Hourly] = "invite"
      BY <1>1, <1>7, <2>3 DEF Invite, Goto, TypeInv, TypeOK
    <3> QED  BY <2>1, <2>3, <3>1, Undisturbed
  <2> QED  BY <1>7, <2>2, <2>3 DEF Invite
<1>8. rpc[Hourly] \in {"update", "offboard"} =>
        row \in Ids /\ snap[Hourly][row].status # "absent" /\ emp[row].status # "absent"
  BY <1>1 DEF TypeInv, HandInv, RowInv, SeenInv, Exists
<1>9. CASE UpdateEmail(Hourly)
  <2>1. CASE Return(Hourly) /\ UNCHANGED emp
    BY <2>1, GivenUp
  <2>2. CASE /\ emp' = [emp EXCEPT ![row].email = TheUser(Hourly).email]
             /\ snap' = [snap EXCEPT ![Hourly][row].email = TheUser(Hourly).email]
             /\ UNCHANGED <<rpc, users, hand>>
    <3>1. \A i \in Ids : z(i) /\ s(i)
      BY <2>2 DEF TypeInv, TypeOK, Employee
    <3>2. \A i \in Ids : /\ snap'[Hourly][i].zoho = snap[Hourly][i].zoho
                         /\ snap'[Hourly][i].status = snap[Hourly][i].status
      BY <1>1, <2>2 DEF TypeInv, TypeOK, Seen
    <3> QED  BY <1>8, <2>2, <3>1, <3>2, Undisturbed
  <2> QED  BY <1>9, <2>1, <2>2 DEF UpdateEmail
<1>10. CASE SetStatus(Hourly)
  <2>1. rpc[Hourly] = "update" /\ hand[Hourly].user.status # "absent"
    BY <1>1, <1>10, UserFields DEF SetStatus, TypeInv, HandInv, Status
  <2>2. \A i \in Ids : z(i) /\ s(i)
    BY <1>8, <1>10, <2>1 DEF SetStatus, TheUser, TypeInv, TypeOK, Employee
  <2>3. \A i \in Ids : /\ snap'[Hourly][i].zoho = snap[Hourly][i].zoho
                       /\ (snap'[Hourly][i].status = "absent" <=> snap[Hourly][i].status = "absent")
    BY <1>1, <1>8, <1>10, <2>1 DEF SetStatus, TheUser, TypeInv, TypeOK, Seen
  <2>4. rpc'[Hourly] \in {"update", "offboard"} /\ UNCHANGED <<users, hand>>
    BY <1>1, <1>10 DEF SetStatus, Goto, TypeInv, TypeOK
  <2> QED  BY <1>8, <2>1, <2>2, <2>3, <2>4, Undisturbed
<1>11. CASE Offboard(Hourly)
  <2>1. \A i \in Ids : z(i) /\ s(i)
    <3>1. \/ emp' = emp
          \/ emp' = [emp EXCEPT ![row] = [@ EXCEPT !.cred = None, !.onboarding = "disabled"]]
          \/ emp' = [emp EXCEPT ![row].cred = None]
      BY <1>11 DEF Offboard
    <3>2. emp[row] \in Employee
      BY <1>8, <1>11 DEF Offboard, TypeInv, TypeOK
    <3>3. /\ [emp[row] EXCEPT !.cred = None, !.onboarding = "disabled"].zoho = emp[row].zoho
          /\ [emp[row] EXCEPT !.cred = None, !.onboarding = "disabled"].status = emp[row].status
          /\ [emp[row] EXCEPT !.cred = None].zoho = emp[row].zoho
          /\ [emp[row] EXCEPT !.cred = None].status = emp[row].status
      BY <3>2 DEF Employee
    <3> QED  BY <3>1, <3>3 DEF TypeInv, TypeOK
  <2>2. CASE Return(Hourly)
    BY <2>1, <2>2, GivenUp
  <2>3. CASE Goto(Hourly, "update") /\ UNCHANGED <<users, snap, hand>>
    <3>1. rpc'[Hourly] = "update" /\ rpc[Hourly] = "offboard"
      BY <1>1, <1>11, <2>3 DEF Offboard, Goto, TypeInv, TypeOK
    <3> QED  BY <1>8, <2>1, <2>3, <3>1, Undisturbed
  <2> QED  BY <1>11, <2>2, <2>3 DEF Offboard
<1>12. CASE UpdateProfile(Hourly)
  <2>1. \A i \in Ids : z(i) /\ s(i)
    BY <1>8, <1>12 DEF UpdateProfile, TheRow, TypeInv, TypeOK, Employee
  <2>2. rpc'[Hourly] = "users" /\ rpc[Hourly] = "update" /\ UNCHANGED <<users, snap>>
    BY <1>1, <1>12 DEF UpdateProfile, Goto, TypeInv, TypeOK
  <2> QED  BY <2>1, <2>2, Undisturbed
<1>13. CASE UserDone(Hourly)
  <2>1. rpc'[Hourly] = "users" /\ rpc[Hourly] = "update" /\ UNCHANGED <<emp, users, snap>>
    BY <1>1, <1>13 DEF UserDone, Goto, TypeInv, TypeOK
  <2> QED  BY <2>1, Undisturbed
<1> QED
  BY <1>2, <1>3, <1>4, <1>5, <1>6, <1>7, <1>9, <1>10, <1>11, <1>12, <1>13 DEF Reconcile

\* An account never has two rows, however its address changes and whoever gets the old
\* one, as long as nobody uploads a list beside the periodic run (Reconcile).
THEOREM OneRowPerAccount ==
  ASSUME Imports = {}
  PROVE  Spec => []NoAccountTwice
<1>1. Runs = {Hourly}
  BY DEF Runs
<1>2. ASSUME TypeInv, RowInv, UNCHANGED vars
      PROVE  RowInv'
  BY <1>2 DEF vars, world, run, RowInv, BoundInv, UsersInv, SeenInv, CreateInv,
    NoAccountTwice, Exists
<1>3. TypeInv /\ RowInv /\ [Next]_vars => RowInv'
  BY <1>1, <1>2, WorldRow, ReconcileRow DEF Next
<1>4. RowInv => NoAccountTwice
  BY DEF RowInv
<1> QED  BY <1>3, <1>4, InitType, InitRow, NextType, PTL DEF Spec

=============================================================================
