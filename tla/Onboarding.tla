----------------------------- MODULE Onboarding -----------------------------
(***************************************************************************)
(* From an invitation to a stored credential: Invite                       *)
(* (onboarding/service.go), the single-use links and OAuth states          *)
(* (onboarding/repo.go, oauth/staterepo.go) and the two halves of the      *)
(* browser flow, start and callback (httpx/oauth.go), for any number of    *)
(* mails, browser tabs and repeated requests at a time.                    *)
(*                                                                         *)
(* A call to Postgres, Zoho or the mail server is one step.  What happens  *)
(* to a stored credential later is TokenRefresh; how rows come to be and   *)
(* are matched is Directory.  Here the addresses of rows do not change,    *)
(* and Zoho names an id for every account, as it does.                     *)
(***************************************************************************)
EXTENDS Naturals

CONSTANTS
  Employees, Accounts,
  EmailOwner,     \* EmailOwner[e]: the Zoho account with the address of row e
  Links, LinkOf,  \* onboarding_tokens, and the employee each is made for
  Tabs,           \* bound: requests of start, each with the state it may create
  Callbacks,      \* bound: requests of callback
  Hitches,        \* the kinds of failure that may happen
  NoAccount, NoLink, NoTab

ASSUME OnboardingAssumption ==
  /\ EmailOwner \in [Employees -> Accounts \cup {NoAccount}]
  /\ LinkOf \in [Links -> Employees]
  /\ NoAccount \notin Accounts /\ NoLink \notin Links /\ NoTab \notin Tabs

VARIABLES
  bound,      \* employees.zoho_user_id
  status,     \* employees.onboarding_status
  stored,     \* oauth_credentials.provider_account_id
  linkRow, stateRow,         \* the two tables of single-use secrets
  ipc,        \* where the invitation with a link has got to
  mailed,     \* links that have reached their employee
  tpc, tlink,                \* start
  cpc, ctab, cseen, cacct,   \* callback: its state, the row it read, who signed in
  exchanged,  \* history: how many codes have been exchanged thanks to a link
  smooth      \* no failures or expiries any more

loginVars == <<bound, status, stored, linkRow, stateRow, ipc, mailed, tpc, tlink,
               cpc, ctab, cseen, cacct, exchanged, smooth>>

-----------------------------------------------------------------------------
Status == {"not_invited", "invited", "authorization_started", "authorized",
           "authorization_failed"}

\* "open" is unused and not expired; a row that is gone (purged) acts like one
\* that is used.
Secret == {"none", "open", "closed"}

CallbackStages == {"idle", "lookup", "exchange", "identity", "bind", "store", "confirm", "fail"}
Bound == Accounts \cup {NoAccount}

OnboardingTypeOK ==
  /\ bound \in [Employees -> Bound] /\ stored \in [Employees -> Bound]
  /\ status \in [Employees -> Status]
  /\ linkRow \in [Links -> Secret] /\ stateRow \in [Tabs -> Secret]
  /\ ipc \in [Links -> {"idle", "send", "status"}]
  /\ mailed \subseteq Links
  /\ tpc \in [Tabs -> {"idle", "status", "state", "over"}]
  /\ tlink \in [Tabs -> Links \cup {NoLink}]
  /\ \A t \in Tabs : tpc[t] # "idle" => tlink[t] # NoLink
  /\ cpc \in [Callbacks -> CallbackStages]
  /\ ctab \in [Callbacks -> Tabs \cup {NoTab}]
  /\ \A c \in Callbacks : cpc[c] # "idle" => ctab[c] # NoTab /\ tlink[ctab[c]] # NoLink
  /\ cseen \in [Callbacks -> Bound] /\ cacct \in [Callbacks -> Bound]
  /\ exchanged \in [Links -> Nat]
  /\ smooth \in BOOLEAN

\* Rows come from the directory with an account id, or from a CSV without one.
OnboardingInit ==
  /\ bound \in [Employees -> Bound]
  /\ stored = [e \in Employees |-> NoAccount]
  /\ status = [e \in Employees |-> "not_invited"]
  /\ linkRow = [l \in Links |-> "none"]
  /\ stateRow = [t \in Tabs |-> "none"]
  /\ ipc = [l \in Links |-> "idle"]
  /\ mailed = {}
  /\ tpc = [t \in Tabs |-> "idle"]
  /\ tlink = [t \in Tabs |-> NoLink]
  /\ cpc = [c \in Callbacks |-> "idle"]
  /\ ctab = [c \in Callbacks |-> NoTab]
  /\ cseen = [c \in Callbacks |-> NoAccount]
  /\ cacct = [c \in Callbacks |-> NoAccount]
  /\ exchanged = [l \in Links |-> 0]
  /\ smooth = FALSE

Hitch(kind) == kind \in Hitches /\ ~smooth

\* SetOnboardingStatus writes over whatever is there: no caller looks at the
\* present status.  Its errors are logged at most.
SetOnboardingStatus(e, s) ==
  \/ status' = [status EXCEPT ![e] = s]
  \/ Hitch("db") /\ UNCHANGED status

-----------------------------------------------------------------------------
(* Invite, for a new employee, by an administrator or as Reconnect.         *)

startVars == <<stateRow, tpc, tlink>>
callbackVars == <<cpc, ctab, cseen, cacct, exchanged>>

CreateLink(l) ==
  /\ ipc[l] = "idle" /\ linkRow[l] = "none"
  /\ linkRow' = [linkRow EXCEPT ![l] = "open"]
  /\ ipc' = [ipc EXCEPT ![l] = "send"]
  /\ UNCHANGED <<bound, status, stored, mailed, smooth, startVars, callbackVars>>

\* A mail that fails, or whose answer is lost, ends the invitation; its link
\* stays valid.
SendInvitation(l) ==
  /\ ipc[l] = "send"
  /\ \/ /\ mailed' = mailed \cup {l}
        /\ ipc' = [ipc EXCEPT ![l] = "status"]
     \/ /\ Hitch("mail")
        /\ mailed' \in {mailed, mailed \cup {l}}
        /\ ipc' = [ipc EXCEPT ![l] = "idle"]
  /\ UNCHANGED <<bound, status, stored, linkRow, smooth, startVars, callbackVars>>

SetInvited(l) ==
  /\ ipc[l] = "status"
  /\ ipc' = [ipc EXCEPT ![l] = "idle"]
  /\ SetOnboardingStatus(LinkOf[l], "invited")
  /\ UNCHANGED <<bound, stored, linkRow, mailed, smooth, startVars, callbackVars>>

-----------------------------------------------------------------------------
(* start.  The consent page before it (connect) only reads.                *)

\* mutant: the link is looked at here and marked in a second step, too late
MutantConsumeLink(t, l) ==
  /\ tpc[t] = "idle" /\ l \in mailed
  /\ linkRow[l] # "none"
  /\ linkRow' = [linkRow EXCEPT ![l] = "closed"]
  /\ tlink' = [tlink EXCEPT ![t] = l]
  /\ tpc' = [tpc EXCEPT ![t] = "status"]
  /\ UNCHANGED <<bound, status, stored, ipc, mailed, smooth, stateRow, callbackVars>>

\* Repo.Consume: one statement checks and marks the link; a second one looks for
\* the organization.  A link that is not open leads to an error page.
ConsumeLink(t, l) ==
  /\ tpc[t] = "idle" /\ l \in mailed
  /\ linkRow[l] = "open"
  /\ linkRow' = [linkRow EXCEPT ![l] = "closed"]
  /\ tlink' = [tlink EXCEPT ![t] = l]
  /\ \/ tpc' = [tpc EXCEPT ![t] = "status"]
     \/ Hitch("db") /\ tpc' = [tpc EXCEPT ![t] = "over"]
  /\ UNCHANGED <<bound, status, stored, ipc, mailed, smooth, stateRow, callbackVars>>

SetStarted(t) ==
  /\ tpc[t] = "status"
  /\ tpc' = [tpc EXCEPT ![t] = "state"]
  /\ SetOnboardingStatus(LinkOf[tlink[t]], "authorization_started")
  /\ UNCHANGED <<bound, stored, linkRow, ipc, mailed, smooth, stateRow, tlink, callbackVars>>

\* The browser goes on to Zoho.  Without a configuration of Zoho, or when the
\* state cannot be stored, it is an error page, and the link is gone.
CreateState(t) ==
  /\ tpc[t] = "state"
  /\ tpc' = [tpc EXCEPT ![t] = "over"]
  /\ \/ stateRow' = [stateRow EXCEPT ![t] = "open"]
     \/ (Hitch("config") \/ Hitch("db")) /\ UNCHANGED stateRow
  /\ UNCHANGED <<bound, status, stored, linkRow, ipc, mailed, smooth, tlink, callbackVars>>

-----------------------------------------------------------------------------
(* callback.  A refusal at Zoho ends in an error page and changes nothing.  *)

CallbackAt(c, stage) == cpc' = [cpc EXCEPT ![c] = stage]
LinkUsed(c) == tlink[ctab[c]]
EmployeeOf(c) == LinkOf[LinkUsed(c)]
rowVars == <<linkRow, ipc, mailed, smooth, startVars>>

\* mutant: what the state stands for is not returned
MutantConsumeState(c, t, a) ==
  /\ cpc[c] = "idle"
  /\ stateRow[t] = "open"
  /\ stateRow' = [stateRow EXCEPT ![t] = "closed"]
  /\ CallbackAt(c, "lookup")
  /\ cacct' = [cacct EXCEPT ![c] = a]
  /\ UNCHANGED <<bound, status, stored, linkRow, ipc, mailed, smooth, tpc, tlink,
                 ctab, cseen, exchanged>>

\* Somebody has signed in with account a, and Zoho sends the browser back with
\* the state of tab t.
ConsumeState(c, t, a) ==
  /\ cpc[c] = "idle"
  /\ stateRow[t] = "open"
  /\ stateRow' = [stateRow EXCEPT ![t] = "closed"]
  /\ \/ /\ CallbackAt(c, "lookup")
        /\ ctab' = [ctab EXCEPT ![c] = t]
        /\ cacct' = [cacct EXCEPT ![c] = a]
     \/ Hitch("db") /\ UNCHANGED <<cpc, ctab, cacct>>
  /\ UNCHANGED <<bound, status, stored, linkRow, ipc, mailed, smooth, tpc, tlink,
                 cseen, exchanged>>

\* Employees.GetByID, and the configuration of Zoho.
LookUpEmployee(c) ==
  /\ cpc[c] = "lookup"
  /\ cseen' = [cseen EXCEPT ![c] = bound[EmployeeOf(c)]]
  /\ \/ CallbackAt(c, "exchange")
     \/ (Hitch("db") \/ Hitch("config")) /\ CallbackAt(c, "fail")
  /\ UNCHANGED <<bound, status, stored, ctab, cacct, exchanged, rowVars>>

ExchangeCode(c) ==
  /\ cpc[c] = "exchange"
  /\ \/ /\ CallbackAt(c, "identity")
        /\ exchanged' = [exchanged EXCEPT ![LinkUsed(c)] = @ + 1]
     \/ Hitch("zoho") /\ CallbackAt(c, "fail") /\ UNCHANGED exchanged
  /\ UNCHANGED <<bound, status, stored, ctab, cseen, cacct, rowVars>>

\* mutant: an address that matches is enough
MutantRecognised(e, seen, a) == a = seen \/ a = EmailOwner[e]

\* VerifyBinding: the account id decides; the address only for a row without one.
Recognised(e, seen, a) == a = IF seen # NoAccount THEN seen ELSE EmailOwner[e]

VerifyIdentity(c) ==
  /\ cpc[c] = "identity"
  /\ \/ Recognised(EmployeeOf(c), cseen[c], cacct[c]) /\ CallbackAt(c, "bind")
     \/ /\ ~Recognised(EmployeeOf(c), cseen[c], cacct[c]) \/ Hitch("zoho")
        /\ CallbackAt(c, "fail")
  /\ UNCHANGED <<bound, status, stored, ctab, cseen, cacct, exchanged, rowVars>>

\* SetZohoUserID; its failure is logged.
BindAccount(c) ==
  /\ cpc[c] = "bind"
  /\ CallbackAt(c, "store")
  /\ \/ /\ cseen[c] = NoAccount
        /\ bound' = [bound EXCEPT ![EmployeeOf(c)] = cacct[c]]
     \/ (cseen[c] # NoAccount \/ Hitch("db")) /\ UNCHANGED bound
  /\ UNCHANGED <<status, stored, ctab, cseen, cacct, exchanged, rowVars>>

\* mutant: the confirmation page is shown without the last statement
MutantStoreCredential(c) ==
  /\ cpc[c] = "store"
  /\ stored' = [stored EXCEPT ![EmployeeOf(c)] = cacct[c]]
  /\ CallbackAt(c, "idle")
  /\ UNCHANGED <<bound, status, ctab, cseen, cacct, exchanged, rowVars>>

StoreCredential(c) ==
  /\ cpc[c] = "store"
  /\ \/ /\ stored' = [stored EXCEPT ![EmployeeOf(c)] = cacct[c]]
        /\ CallbackAt(c, "confirm")
     \/ Hitch("db") /\ CallbackAt(c, "fail") /\ UNCHANGED stored
  /\ UNCHANGED <<bound, status, ctab, cseen, cacct, exchanged, rowVars>>

\* The last write of either outcome, after which the page is shown.
FinishCallback(c) ==
  /\ \/ cpc[c] = "confirm" /\ SetOnboardingStatus(EmployeeOf(c), "authorized")
     \/ cpc[c] = "fail" /\ SetOnboardingStatus(EmployeeOf(c), "authorization_failed")
  /\ CallbackAt(c, "idle")
  /\ ctab' = [ctab EXCEPT ![c] = NoTab]
  /\ cseen' = [cseen EXCEPT ![c] = NoAccount]
  /\ cacct' = [cacct EXCEPT ![c] = NoAccount]
  /\ UNCHANGED <<bound, stored, exchanged, rowVars>>

-----------------------------------------------------------------------------
(* The rest of the world.                                                  *)

\* Links end after a week, states after ten minutes.
Expire ==
  /\ ~smooth
  /\ \/ /\ \E l \in Links : linkRow[l] = "open" /\ linkRow' = [linkRow EXCEPT ![l] = "closed"]
        /\ UNCHANGED stateRow
     \/ /\ \E t \in Tabs : stateRow[t] = "open" /\ stateRow' = [stateRow EXCEPT ![t] = "closed"]
        /\ UNCHANGED linkRow
  /\ UNCHANGED <<bound, status, stored, ipc, mailed, smooth, tpc, tlink, callbackVars>>

Smooth ==
  /\ ~smooth /\ smooth' = TRUE
  /\ UNCHANGED <<bound, status, stored, linkRow, ipc, mailed, startVars, callbackVars>>

Callback(c) ==
  \/ LookUpEmployee(c) \/ ExchangeCode(c) \/ VerifyIdentity(c)
  \/ BindAccount(c) \/ StoreCredential(c) \/ FinishCallback(c)

OnboardingNext ==
  \/ \E l \in Links : CreateLink(l) \/ SendInvitation(l) \/ SetInvited(l)
  \/ \E t \in Tabs : SetStarted(t) \/ CreateState(t) \/ \E l \in Links : ConsumeLink(t, l)
  \/ \E c \in Callbacks : Callback(c) \/ \E t \in Tabs, a \in Accounts : ConsumeState(c, t, a)
  \/ Expire \/ Smooth

\* A request that has arrived is worked off; people need not do anything.
OnboardingFairness == \A c \in Callbacks : WF_loginVars(Callback(c))

OnboardingSpec == OnboardingInit /\ [][OnboardingNext]_loginVars /\ OnboardingFairness

-----------------------------------------------------------------------------
(* Properties.                                                             *)

\* An invitation authorizes once: however often its link is clicked, in however
\* many tabs, and however often the browser repeats the callback, at most one
\* code is exchanged thanks to it (Repo.Consume, StateRepo.Consume).
LinkAuthorizesOnce == \A l \in Links : exchanged[l] <= 1

\* A stored credential is of the account its row is bound to, or, where binding
\* failed, of the account with the row's address: whoever signs in, and whatever
\* other logins of the same row do in between (VerifyBinding, SetZohoUserID; the
\* directory never binds a row that exists).
CredentialBound ==
  \A e \in Employees : stored[e] # NoAccount =>
    \/ stored[e] = bound[e]
    \/ bound[e] = NoAccount /\ stored[e] = EmailOwner[e]

\* A callback of the right person that meets no failure ends with that employee
\* authorized and the credential stored (callback).
LoginSucceeds ==
  \A e \in Employees :
    (smooth /\ \E c \in Callbacks : /\ cpc[c] = "lookup" /\ EmployeeOf(c) = e
                                    /\ Recognised(e, bound[e], cacct[c]))
      ~> (status[e] = "authorized" /\ stored[e] # NoAccount)

\* An authorized employee leaves that state by revocation or offboarding only,
\* neither of which is in this module (onboarding/state.go, "the legal onboarding
\* state graph").
AuthorizedUntilRevoked ==
  [][\A e \in Employees : status[e] = "authorized" => status'[e] = "authorized"]_loginVars

=============================================================================
