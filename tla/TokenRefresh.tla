---------------------------- MODULE TokenRefresh ----------------------------
(***************************************************************************)
(* The Zoho credential of one employee: the workers that use and refresh   *)
(* it under a lock in Redis (internal/tokens/manager.go, redisx/lock.go),  *)
(* the OAuth callback that stores it (httpx/oauth.go), and the revocation  *)
(* and offboarding that end it (tokens/revoke.go, offboard.go).            *)
(*                                                                         *)
(* Credentials, locks and onboarding states of different employees share   *)
(* nothing.  Each call to Postgres, Redis or Zoho is one step.  A grant is *)
(* a refresh token; of the access token only its age matters: "due" covers *)
(* every expiry closer than refreshSkew, the past included.                *)
(***************************************************************************)
EXTENDS Naturals, FiniteSets

CONSTANTS
  Callers,       \* worker processes calling AccessToken
  Logins,        \* browsers going through the OAuth flow
  Admins,        \* handlers running Revoke or Offboard
  Grants,        \* bound: refresh tokens Zoho can issue
  SlowRefresh,   \* may a refresh outlive the TTL of its lock?
  Faults,        \* the kinds of failure that may happen
  None,          \* no grant, no holder
  Orphan         \* the lock value of a holder that is gone

FaultKinds == {"db", "redis", "zoho", "client", "crash"}

ASSUME ConstantsAssumption ==
  /\ SlowRefresh \in BOOLEAN
  /\ Faults \subseteq FaultKinds
  /\ None \notin Grants
  /\ None \notin Callers /\ Orphan \notin Callers /\ None # Orphan

VARIABLES
  grant,        \* Zoho: what each refresh token is worth
  row,          \* table oauth_credentials: the employee's credential
  onboarding,   \* employees.onboarding_status
  lock,         \* Redis: the holder of zoho-token-refresh:{id}
  pc, calls, mine,     \* per worker: stage, calls left in the pass, `latest`
  lpc, lgrant,         \* per login: stage, the exchanged refresh token
  apc, operation, agrant,  \* per admin: stage, what it does, token it read
  quiet         \* nothing fails and nobody interferes any more

worker  == <<lock, pc, calls, mine>>
login   == <<lpc, lgrant>>
admin   == <<apc, operation, agrant>>
vars    == <<grant, row, onboarding, worker, login, admin, quiet>>

-----------------------------------------------------------------------------
OptGrant == Grants \cup {None}

\* The credential row: absent (deleted or never stored), or with its status.
Credential == [state: {"absent", "active", "revoked"}, grant: OptGrant,
               age: {"fresh", "due"}]
NoCredential == [state |-> "absent", grant |-> None, age |-> "due"]

OnboardingStates == {"invited", "authorization_started", "authorization_failed",
                     "authorized", "revoked", "disabled"}

Stages == {"idle", "lock", "busy", "reread", "refresh", "store", "mark", "release"}

TypeOK ==
  /\ grant \in [Grants -> {"unused", "valid", "dead"}]
  /\ row \in Credential
  /\ onboarding \in OnboardingStates
  /\ lock \in Callers \cup {None, Orphan}
  /\ pc \in [Callers -> Stages]
  /\ calls \in [Callers -> 0..2]
  /\ mine \in [Callers -> OptGrant]
  /\ lpc \in [Logins -> {"idle", "started", "store", "authorize"}]
  /\ lgrant \in [Logins -> OptGrant]
  /\ apc \in [Admins -> {"idle", "zoho", "row", "status"}]
  /\ operation \in [Admins -> {"revoke", "offboard"}]
  /\ agrant \in [Admins -> OptGrant]
  /\ quiet \in BOOLEAN

\* An employee who was never connected, or has been for a while.
Init ==
  /\ \/ /\ grant = [g \in Grants |-> "unused"]
        /\ row = NoCredential
        /\ onboarding = "invited"
     \/ \E g \in Grants, age \in {"fresh", "due"} :
          /\ grant = [h \in Grants |-> IF h = g THEN "valid" ELSE "unused"]
          /\ row = [state |-> "active", grant |-> g, age |-> age]
          /\ onboarding = "authorized"
  /\ lock = None
  /\ pc = [c \in Callers |-> "idle"]
  /\ calls = [c \in Callers |-> 0]
  /\ mine = [c \in Callers |-> None]
  /\ lpc = [l \in Logins |-> "idle"]
  /\ lgrant = [l \in Logins |-> None]
  /\ apc = [a \in Admins |-> "idle"]
  /\ operation = [a \in Admins |-> "revoke"]
  /\ agrant = [a \in Admins |-> None]
  /\ quiet = FALSE

Active == row.state = "active"
Worth(g) == IF g \in Grants THEN grant[g] ELSE "dead"

\* ListAuthorized returns the employee.
Listed == Active /\ onboarding = "authorized"

\* A failure of this kind may happen now.
May(kind) == kind \in Faults /\ ~quiet

-----------------------------------------------------------------------------
(* Time, and the employee's own Zoho account settings.                      *)

Quieten ==
  /\ ~quiet
  /\ quiet' = TRUE
  /\ UNCHANGED <<grant, row, onboarding, worker, login, admin>>

\* The access token comes within refreshSkew of its expiry.
Age ==
  /\ row.state # "absent" /\ row.age = "fresh"
  /\ row' = [row EXCEPT !.age = "due"]
  /\ UNCHANGED <<grant, onboarding, worker, login, admin, quiet>>

\* The employee, or Zoho, withdraws the authorization.
Withdraw(g) ==
  /\ ~quiet
  /\ grant[g] = "valid"
  /\ grant' = [grant EXCEPT ![g] = "dead"]
  /\ UNCHANGED <<row, onboarding, worker, login, admin, quiet>>

\* mutant: SET NX without PX, the key never expires
MutantLockExpires == FALSE /\ UNCHANGED vars

\* The TTL of the lock; a live holder is normally done before it.
LockExpires ==
  /\ lock # None
  /\ lock = Orphan \/ SlowRefresh
  /\ lock' = None
  /\ UNCHANGED <<grant, row, onboarding, pc, calls, mine, login, admin, quiet>>

-----------------------------------------------------------------------------
(* Manager.AccessToken, called by Discover and by Scan of one pass.        *)

Goto(c, stage) == pc' = [pc EXCEPT ![c] = stage]

\* syncAllEmployees finds the employee in ListAuthorized; the pass then makes
\* its two calls whatever becomes of the authorization.
StartPass(c) ==
  /\ pc[c] = "idle" /\ calls[c] = 0
  /\ Listed
  /\ calls' = [calls EXCEPT ![c] = 2]
  /\ UNCHANGED <<grant, row, onboarding, lock, pc, mine, login, admin, quiet>>

\* mutant: the calls of a pass are not counted
MutantGet(c) ==
  /\ pc[c] = "idle"
  /\ calls' = [calls EXCEPT ![c] = @ + 1]
  /\ Active /\ row.age = "due" /\ Goto(c, "lock")
  /\ UNCHANGED <<grant, row, onboarding, lock, mine, login, admin, quiet>>

\* A credential that is fresh is returned, one that is not active refused.
Get(c) ==
  /\ pc[c] = "idle" /\ calls[c] > 0
  /\ calls' = [calls EXCEPT ![c] = @ - 1]
  /\ \/ Active /\ row.age = "due" /\ Goto(c, "lock")
     \/ /\ ~Active \/ row.age = "fresh" \/ May("db")
        /\ UNCHANGED pc
  /\ UNCHANGED <<grant, row, onboarding, lock, mine, login, admin, quiet>>

\* SET NX PX; when the answer is lost the key stays behind.
Acquire(c) ==
  /\ pc[c] = "lock"
  /\ \/ lock = None /\ lock' = c /\ Goto(c, "reread")
     \/ lock # None /\ Goto(c, "busy") /\ UNCHANGED lock
     \/ May("redis") /\ Goto(c, "idle") /\ lock' \in {lock, IF lock = None THEN Orphan ELSE lock}
  /\ UNCHANGED <<grant, row, onboarding, calls, mine, login, admin, quiet>>

\* The lock is held: after 300 ms whatever the row holds is returned, refreshed
\* or not, unless its status has changed.
ReadResult(c) ==
  /\ pc[c] = "busy"
  /\ Goto(c, "idle")
  /\ UNCHANGED <<grant, row, onboarding, lock, calls, mine, login, admin, quiet>>

\* mutant: the token is not looked at again under the lock
MutantReread(c) ==
  /\ pc[c] = "reread"
  /\ \/ /\ Active
        /\ mine' = [mine EXCEPT ![c] = row.grant]
        /\ Goto(c, "refresh")
     \/ /\ ~Active \/ May("db")
        /\ Goto(c, "release")
        /\ UNCHANGED mine
  /\ UNCHANGED <<grant, row, onboarding, lock, calls, login, admin, quiet>>

Reread(c) ==
  /\ pc[c] = "reread"
  /\ \/ /\ Active /\ row.age = "due"
        /\ mine' = [mine EXCEPT ![c] = row.grant]
        /\ Goto(c, "refresh")
     \/ /\ ~Active \/ row.age = "fresh" \/ May("db")
        /\ Goto(c, "release")
        /\ UNCHANGED mine
  /\ UNCHANGED <<grant, row, onboarding, lock, calls, login, admin, quiet>>

\* mutant: any error of the token endpoint counts as a dead token
MutantRefresh(c) ==
  /\ pc[c] = "refresh"
  /\ \/ Worth(mine[c]) = "valid" /\ Goto(c, "store")
     \/ Worth(mine[c]) = "dead" /\ Goto(c, "mark")
     \/ May("zoho") /\ Goto(c, "mark")
  /\ UNCHANGED <<grant, row, onboarding, lock, calls, mine, login, admin, quiet>>

\* Zoho answers; a dead grant, but also a rejected client secret, makes
\* IsInvalidGrant true, everything else is transient.
Refresh(c) ==
  /\ pc[c] = "refresh"
  /\ \/ Worth(mine[c]) = "valid" /\ Goto(c, "store")
     \/ Worth(mine[c]) = "dead" /\ Goto(c, "mark")
     \/ May("client") /\ Goto(c, "mark")
     \/ May("zoho") /\ Goto(c, "release")
  /\ UNCHANGED <<grant, row, onboarding, lock, calls, mine, login, admin, quiet>>

\* The whole credential read under the lock is written back, its status active,
\* whether or not the row still exists.
Store(c) ==
  /\ pc[c] = "store"
  /\ \/ row' = [state |-> "active", grant |-> mine[c], age |-> "fresh"]
     \/ May("db") /\ UNCHANGED row
  /\ Goto(c, "release")
  /\ UNCHANGED <<grant, onboarding, lock, calls, mine, login, admin, quiet>>

SetRevoked == row' = IF row.state = "absent" THEN row ELSE [row EXCEPT !.state = "revoked"]

\* mutant: the dead token is only logged
MutantMarkRevoked(c) ==
  /\ pc[c] = "mark"
  /\ Goto(c, "release")
  /\ UNCHANGED <<grant, row, onboarding, lock, calls, mine, login, admin, quiet>>

\* An error of SetStatus is ignored.
MarkRevoked(c) ==
  /\ pc[c] = "mark"
  /\ \/ SetRevoked
     \/ May("db") /\ UNCHANGED row
  /\ Goto(c, "release")
  /\ UNCHANGED <<grant, onboarding, lock, calls, mine, login, admin, quiet>>

\* mutant: DEL without comparing the value
MutantRelease(c) ==
  /\ pc[c] = "release"
  /\ lock' = None
  /\ Goto(c, "idle")
  /\ mine' = [mine EXCEPT ![c] = None]
  /\ UNCHANGED <<grant, row, onboarding, calls, login, admin, quiet>>

\* The script deletes the key if it still holds this call's random value, which
\* no later call uses again.
Release(c) ==
  /\ pc[c] = "release"
  /\ \/ lock' = IF lock = c THEN None ELSE lock
     \/ May("redis") /\ lock' = IF lock = c THEN Orphan ELSE lock
  /\ Goto(c, "idle")
  /\ mine' = [mine EXCEPT ![c] = None]
  /\ UNCHANGED <<grant, row, onboarding, calls, login, admin, quiet>>

\* The worker dies and is started again.
Crash(c) ==
  /\ May("crash")
  /\ pc[c] # "idle" \/ calls[c] # 0
  /\ lock' = IF lock = c THEN Orphan ELSE lock
  /\ Goto(c, "idle")
  /\ calls' = [calls EXCEPT ![c] = 0]
  /\ mine' = [mine EXCEPT ![c] = None]
  /\ UNCHANGED <<grant, row, onboarding, login, admin, quiet>>

-----------------------------------------------------------------------------
(* The OAuth flow in the browser.                                          *)

LGoto(l, stage) == lpc' = [lpc EXCEPT ![l] = stage]

\* The start handler: the single-use token of an invitation is good.
Start(l) ==
  /\ lpc[l] = "idle" /\ ~quiet
  /\ \/ onboarding' = "authorization_started"
     \/ May("db") /\ UNCHANGED onboarding
  /\ LGoto(l, "started")
  /\ UNCHANGED <<grant, row, worker, lgrant, admin, quiet>>

\* The flow ends without a trace: declined, state expired, server restarted.
Abandon(l) ==
  /\ \/ lpc[l] = "started"
     \/ lpc[l] # "idle" /\ May("crash")
  /\ LGoto(l, "idle")
  /\ lgrant' = [lgrant EXCEPT ![l] = None]
  /\ UNCHANGED <<grant, row, onboarding, worker, admin, quiet>>

\* The callback: ExchangeCode and VerifyBinding succeed.
Exchange(l) ==
  /\ lpc[l] = "started"
  /\ \E g \in Grants :
       /\ grant[g] = "unused"
       /\ grant' = [grant EXCEPT ![g] = "valid"]
       /\ lgrant' = [lgrant EXCEPT ![l] = g]
  /\ LGoto(l, "store")
  /\ UNCHANGED <<row, onboarding, worker, admin, quiet>>

\* fail: the exchange, the identity check or the upsert went wrong.
Fail(l) ==
  /\ \/ lpc[l] = "started" /\ May("zoho")
     \/ lpc[l] = "store" /\ (May("zoho") \/ May("db"))
  /\ onboarding' = "authorization_failed"
  /\ LGoto(l, "idle")
  /\ lgrant' = [lgrant EXCEPT ![l] = None]
  /\ UNCHANGED <<grant, row, worker, admin, quiet>>

StoreCredential(l) ==
  /\ lpc[l] = "store"
  /\ row' = [state |-> "active", grant |-> lgrant[l], age |-> "fresh"]
  /\ LGoto(l, "authorize")
  /\ UNCHANGED <<grant, onboarding, worker, lgrant, admin, quiet>>

\* An error is only logged.
SetAuthorized(l) ==
  /\ lpc[l] = "authorize"
  /\ \/ onboarding' = "authorized"
     \/ May("db") /\ UNCHANGED onboarding
  /\ LGoto(l, "idle")
  /\ lgrant' = [lgrant EXCEPT ![l] = None]
  /\ UNCHANGED <<grant, row, worker, admin, quiet>>

-----------------------------------------------------------------------------
(* Revoker.Revoke and Offboarder.Offboard.                                 *)

AGoto(a, stage) == apc' = [apc EXCEPT ![a] = stage]

\* Get; a missing credential is not an error.
Begin(a, op) ==
  /\ apc[a] = "idle" /\ ~quiet
  /\ operation' = [operation EXCEPT ![a] = op]
  /\ agrant' = [agrant EXCEPT ![a] = row.grant]
  /\ AGoto(a, IF row.state = "absent" THEN "row" ELSE "zoho")
  /\ UNCHANGED <<grant, row, onboarding, worker, login, quiet>>

\* Best effort.
RevokeAtZoho(a) ==
  /\ apc[a] = "zoho"
  /\ \/ grant' = [grant EXCEPT ![agrant[a]] = "dead"]
     \/ May("zoho") /\ UNCHANGED grant
  /\ AGoto(a, "row")
  /\ UNCHANGED <<row, onboarding, worker, login, operation, agrant, quiet>>

EndCredential(a) ==
  /\ apc[a] = "row"
  /\ IF operation[a] = "revoke" THEN SetRevoked ELSE row' = NoCredential
  /\ AGoto(a, "status")
  /\ UNCHANGED <<grant, onboarding, worker, login, operation, agrant, quiet>>

EndOnboarding(a) ==
  /\ apc[a] = "status"
  /\ onboarding' = IF operation[a] = "revoke" THEN "revoked" ELSE "disabled"
  /\ AGoto(a, "idle")
  /\ UNCHANGED <<grant, row, worker, login, operation, agrant, quiet>>

\* A failing statement ends the operation where it is; so does a restart.
GiveUp(a) ==
  /\ \/ apc[a] \in {"row", "status"} /\ May("db")
     \/ apc[a] # "idle" /\ May("crash")
  /\ AGoto(a, "idle")
  /\ UNCHANGED <<grant, row, onboarding, worker, login, operation, agrant, quiet>>

-----------------------------------------------------------------------------
\* A step a worker takes as long as nothing goes wrong.
Work(c) ==
  \/ StartPass(c) \/ Get(c) \/ Acquire(c) \/ ReadResult(c) \/ Reread(c)
  \/ Refresh(c) \/ Store(c) \/ MarkRevoked(c) \/ Release(c)

Browse(l) ==
  Start(l) \/ Abandon(l) \/ Exchange(l) \/ Fail(l) \/ StoreCredential(l) \/ SetAuthorized(l)

Administer(a) ==
  \/ Begin(a, "revoke") \/ Begin(a, "offboard")
  \/ RevokeAtZoho(a) \/ EndCredential(a) \/ EndOnboarding(a) \/ GiveUp(a)

Next ==
  \/ Quieten \/ Age \/ LockExpires
  \/ \E g \in Grants : Withdraw(g)
  \/ \E c \in Callers : Work(c) \/ Crash(c)
  \/ \E l \in Logins : Browse(l)
  \/ \E a \in Admins : Administer(a)

Spec == Init /\ [][Next]_vars

\* The sync loop never ends, time passes, and Redis expires its keys.
FairSpec ==
  /\ Spec
  /\ WF_vars(Age) /\ WF_vars(LockExpires)
  /\ \A c \in Callers : WF_vars(Work(c))

-----------------------------------------------------------------------------
(* Properties.                                                             *)

\* No duplicate refresh: when Zoho issues a new access token, the row holds no fresh
\* token of that grant and no other worker is about to store one (the lock, and the
\* second look under it: "concurrent workers do not duplicate refreshes").
NoRedundantRefresh ==
  [][\A c \in Callers : pc[c] = "refresh" /\ pc'[c] = "store" =>
       /\ Active /\ row.grant = mine[c] => row.age = "due"
       /\ \A d \in Callers \ {c} : ~(pc[d] = "store" /\ mine[d] = mine[c])]_vars

\* An outage never disconnects anybody: without an administrator a credential
\* stops being active only when Zoho no longer honours it (IsInvalidGrant).
RevokedForCause ==
  [][Active /\ row'.state # "active" /\ UNCHANGED admin => Worth(row.grant) = "dead"]_vars

\* A lock is taken from its holder only by the clock (the release script compares
\* the random value).
LockKeptFromOthers ==
  [][\A c \in Callers : lock = c /\ lock' # c => pc'[c] # pc[c] \/ UNCHANGED pc]_vars

\* A listed employee's token that is due gets refreshed, whoever died holding the
\* lock, unless the authorization ends first.
EventuallyFresh ==
  quiet /\ Listed /\ row.age = "due" ~> row.age = "fresh" \/ ~Listed

\* A dead authorization does not go unnoticed: the employee leaves the sync list
\* or is authorized anew.
EventuallyDetected ==
  quiet /\ Listed /\ Worth(row.grant) = "dead" ~> ~Listed \/ Worth(row.grant) # "dead"

\* Offboarding leaves no credential behind.
OffboardedHasNoCredential ==
  onboarding = "disabled" /\ (\A l \in Logins : lpc[l] = "idle") => ~Active

=============================================================================
