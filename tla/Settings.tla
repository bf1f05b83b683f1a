------------------------------ MODULE Settings ------------------------------
(***************************************************************************)
(* What administrators configure in the app, and what the worker makes of  *)
(* it: the two settings forms (httpx/settings.go, tokens/appsettings.go,   *)
(* tokens/zohosettings.go), the connection of the destination calendar     *)
(* (httpx/googleconnect.go, tokens/googledest.go) and its resolution at    *)
(* the start of every run (cmd/worker, destFor), which prefers what is     *)
(* stored and falls back to the environment.                               *)
(*                                                                         *)
(* Of the settings only those with a secret are kept: the two OAuth        *)
(* clients.  A meeting has one row here and is created once; co-attendees, *)
(* updates and cancellations are CalendarSync.                             *)
(***************************************************************************)
EXTENDS Naturals

CONSTANTS
  GoogleClients,       \* bound: OAuth clients, each with its id and its secret
  ZohoSecrets,         \* bound: secrets typed into the Zoho form
  GoogleAccounts, EnvAccount,   \* EnvAccount: the service account, or NoOne
  CalendarOf,          \* CalendarOf[a]: what GOOGLE_CALENDAR_ID, or "primary", names for a
  Calendars, Meetings,
  Saves, Consents,     \* bound: PUTs of the Zoho form, connections begun
  Snags,               \* the kinds of failure that may happen
  Blank, NoOne, Nowhere

ASSUME SettingsAssumption ==
  /\ EnvAccount \in GoogleAccounts \cup {NoOne}
  /\ CalendarOf \in [GoogleAccounts -> Calendars]
  /\ Blank \notin GoogleClients \cup ZohoSecrets
  /\ NoOne \notin GoogleAccounts \cup Consents
  /\ Nowhere \notin Calendars

VARIABLES
  appRow,                  \* org_app_settings
  zohoSecret,              \* org_zoho_settings
  zpc, zwrite, ztyped,     \* PUTs of the Zoho form: what each will write, what was typed
  zohoGiven, crossed,      \* history: the last secret typed in; see Crossing
  consentCookie, gpc, gfor, gaccount, gclient,   \* connections
  grant,                   \* google_destination
  wpc, wgrant, wtarget, wtoken, wtodo,           \* the run of the worker
  wanted, writtenTo,       \* meetings to create; where each has been created
  undisturbed              \* no failures, saves or connections any more

settingsVars ==
  <<appRow, zohoSecret, zpc, zwrite, ztyped, zohoGiven, crossed, consentCookie, gpc, gfor,
    gaccount, gclient, grant, wpc, wgrant, wtarget, wtoken, wtodo, wanted, writtenTo,
    undisturbed>>

zohoVars == <<zohoSecret, zpc, zwrite, ztyped, zohoGiven, crossed>>
connectVars == <<consentCookie, gpc, gfor, gaccount, gclient, grant>>
runVars == <<wpc, wgrant, wtarget, wtoken, wtodo, writtenTo>>

-----------------------------------------------------------------------------
Client == [id: GoogleClients \cup {Blank}, secret: GoogleClients \cup {Blank}]
NoClient == [id |-> Blank, secret |-> Blank]

ById(id) == [id |-> id, secret |-> id]

\* A grant is of an account, given to the client with that id.
Grant == [acct: GoogleAccounts \cup {NoOne}, to: GoogleClients \cup {Blank}]
NoGrant == [acct |-> NoOne, to |-> Blank]

\* What a run writes with; the service account needs no client.
Target == [acct: GoogleAccounts \cup {NoOne}, to: GoogleClients \cup {Blank}, by: Client]
NoTarget == [acct |-> NoOne, to |-> Blank, by |-> NoClient]

SettingsTypeOK ==
  /\ appRow \in Client /\ crossed \in BOOLEAN
  /\ {zohoSecret, zohoGiven} \subseteq ZohoSecrets \cup {Blank}
  /\ zpc \in [Saves -> {"idle", "save", "over"}]
  /\ zwrite \in [Saves -> ZohoSecrets \cup {Blank}]
  /\ ztyped \in [Saves -> ZohoSecrets \cup {Blank}]
  /\ consentCookie \in Consents \cup {NoOne}
  /\ gpc \in [Consents -> {"new", "consent", "exchange", "save", "over"}]
  /\ gfor \in [Consents -> GoogleClients \cup {Blank}]
  /\ gaccount \in [Consents -> GoogleAccounts \cup {NoOne}]
  /\ gclient \in [Consents -> Client]
  /\ grant \in Grant /\ wgrant \in Grant
  /\ wpc \in {"idle", "client", "write"} /\ wtarget \in Target
  /\ wpc = "client" => wgrant # NoGrant
  /\ wpc = "write" => wtarget.acct # NoOne
  /\ wtoken \in BOOLEAN /\ wtodo \subseteq Meetings /\ wanted \subseteq Meetings
  /\ writtenTo \in [Meetings -> Calendars \cup {Nowhere}]
  /\ undisturbed \in BOOLEAN

\* Accounts somebody can sign in with.
Administered == GoogleAccounts \ {EnvAccount}

\* A calendar may have been connected before.
SettingsInit ==
  /\ \/ grant = NoGrant /\ appRow = NoClient
     \/ \E a \in Administered, c \in GoogleClients :
          grant = [acct |-> a, to |-> c] /\ appRow = ById(c)
  /\ zohoSecret = Blank /\ zohoGiven = Blank /\ crossed = FALSE
  /\ zpc = [s \in Saves |-> "idle"]
  /\ zwrite = [s \in Saves |-> Blank] /\ ztyped = [s \in Saves |-> Blank]
  /\ consentCookie = NoOne
  /\ gpc = [g \in Consents |-> "new"]
  /\ gfor = [g \in Consents |-> Blank]
  /\ gaccount = [g \in Consents |-> NoOne]
  /\ gclient = [g \in Consents |-> NoClient]
  /\ wgrant = NoGrant
  /\ wpc = "idle" /\ wtarget = NoTarget /\ wtoken = FALSE /\ wtodo = {}
  /\ wanted = {} /\ writtenTo = [m \in Meetings |-> Nowhere]
  /\ undisturbed = FALSE

Snag(kind) == kind \in Snags /\ ~undisturbed

-----------------------------------------------------------------------------
(* The forms.                                                              *)

\* mutant: the stored secret is preferred to the one typed in
MutantKept(typed, before) == IF before = Blank THEN typed ELSE before

\* COALESCE(EXCLUDED.secret, secret)
Kept(typed, before) == IF typed = Blank THEN before ELSE typed

\* putApp: one statement.  The form shows no secret and sends a blank one unless
\* it was typed in; the id is written as it is, also one shown when the form was
\* opened long ago, so the two may stop to match.
PutApp(id, typed) ==
  /\ ~undisturbed
  /\ appRow' = [id |-> id, secret |-> Kept(typed, appRow.secret)]
  /\ UNCHANGED <<zohoVars, connectVars, runVars, wanted, undisturbed>>

\* put of the Zoho form: with a blank secret the stored one is read first, and
\* without any the request is refused.
PutZoho(s, typed) ==
  /\ ~undisturbed
  /\ zpc[s] = "idle"
  /\ Kept(typed, zohoSecret) # Blank
  /\ zpc' = [zpc EXCEPT ![s] = "save"]
  /\ zwrite' = [zwrite EXCEPT ![s] = Kept(typed, zohoSecret)]
  /\ ztyped' = [ztyped EXCEPT ![s] = typed]
  /\ UNCHANGED <<zohoSecret, zohoGiven, crossed, appRow, connectVars, runVars, wanted, undisturbed>>

\* A secret typed in is saved while a PUT without one has read the secret stored
\* before and not written it back yet.
Crossing(s) ==
  ztyped[s] # Blank /\ \E q \in Saves : zpc[q] = "save" /\ ztyped[q] = Blank

SaveZoho(s) ==
  /\ zpc[s] = "save"
  /\ zpc' = [zpc EXCEPT ![s] = "over"]
  /\ \/ /\ zohoSecret' = zwrite[s]
        /\ zohoGiven' = IF ztyped[s] # Blank THEN ztyped[s] ELSE zohoGiven
        /\ crossed' = (crossed \/ Crossing(s))
     \/ Snag("db") /\ UNCHANGED <<zohoSecret, zohoGiven, crossed>>
  /\ UNCHANGED <<zwrite, ztyped, appRow, connectVars, runVars, wanted, undisturbed>>

-----------------------------------------------------------------------------
(* The Google client: the stored one if it is complete, else that of the   *)
(* environment, of which this model has none.  A database that fails is    *)
(* taken for a row that is not there.                                      *)

Configured(c) == c.id # Blank /\ c.secret # Blank

GoogleOAuthFor ==
  {IF Configured(appRow) THEN appRow ELSE NoClient} \cup (IF Snag("db") THEN {NoClient} ELSE {})

-----------------------------------------------------------------------------
(* The connection, in one browser, whose tabs share the cookie.            *)

Connect(g) ==
  /\ ~undisturbed
  /\ gpc[g] = "new"
  /\ \E c \in GoogleOAuthFor \ {NoClient} : gfor' = [gfor EXCEPT ![g] = c.id]
  /\ consentCookie' = g
  /\ gpc' = [gpc EXCEPT ![g] = "consent"]
  /\ UNCHANGED <<gaccount, gclient, grant, appRow, zohoVars, runVars, wanted, undisturbed>>

ForgetConnection(g) ==
  /\ gpc' = [gpc EXCEPT ![g] = "over"]
  /\ gfor' = [gfor EXCEPT ![g] = Blank]
  /\ gaccount' = [gaccount EXCEPT ![g] = NoOne]
  /\ gclient' = [gclient EXCEPT ![g] = NoClient]

\* The cookie is kept for ten minutes.
ConsentExpires ==
  /\ ~undisturbed
  /\ consentCookie # NoOne /\ consentCookie' = NoOne
  /\ UNCHANGED <<gpc, gfor, gaccount, gclient, grant, appRow, zohoVars, runVars, wanted,
                 undisturbed>>

\* The administrator has consented with account a.  callback wants a session, which
\* may have ended, then resolves the client again, which may be another one by now,
\* and compares the cookie.
ConnectCallback(g, a) ==
  /\ gpc[g] = "consent"
  /\ \/ Snag("session") /\ ForgetConnection(g)
     \/ \E c \in GoogleOAuthFor :
          IF c # NoClient /\ consentCookie = g
            THEN /\ gpc' = [gpc EXCEPT ![g] = "exchange"]
                 /\ gclient' = [gclient EXCEPT ![g] = c]
                 /\ gaccount' = [gaccount EXCEPT ![g] = a]
                 /\ UNCHANGED gfor
            ELSE ForgetConnection(g)
  /\ UNCHANGED <<consentCookie, grant, appRow, zohoVars, runVars, wanted, undisturbed>>

\* Google wants the client the code was made for, and its secret.
ExchangeGoogle(g) ==
  /\ gpc[g] = "exchange"
  /\ \/ /\ gclient[g] = ById(gfor[g])
        /\ gpc' = [gpc EXCEPT ![g] = "save"]
        /\ UNCHANGED <<gfor, gaccount, gclient>>
     \/ (gclient[g] # ById(gfor[g]) \/ Snag("google")) /\ ForgetConnection(g)
  /\ UNCHANGED <<consentCookie, grant, appRow, zohoVars, runVars, wanted, undisturbed>>

SaveGrant(g) ==
  /\ gpc[g] = "save"
  /\ ForgetConnection(g)
  /\ \/ /\ grant' = [acct |-> gaccount[g], to |-> gfor[g]]
        /\ consentCookie' = NoOne
     \/ Snag("db") /\ UNCHANGED <<grant, consentCookie>>
  /\ UNCHANGED <<appRow, zohoVars, runVars, wanted, undisturbed>>

-----------------------------------------------------------------------------
(* The worker.                                                             *)

MeetingAppears(m) ==
  /\ m \notin wanted /\ wanted' = wanted \cup {m}
  /\ UNCHANGED <<appRow, zohoVars, connectVars, runVars, undisturbed>>

ToCreate == {m \in wanted : writtenTo[m] = Nowhere}

\* Without a stored grant or a client the run writes where the environment says,
\* or is skipped.
FallBack ==
  /\ UNCHANGED wgrant
  /\ IF EnvAccount # NoOne
       THEN /\ wpc' = "write" /\ wtodo' = ToCreate
            /\ wtarget' = [NoTarget EXCEPT !.acct = EnvAccount]
       ELSE wpc' = "idle" /\ UNCHANGED <<wtarget, wtodo>>

\* mutant: it is not noticed that there is no grant
MutantReadGrant ==
  /\ wpc = "idle"
  /\ \/ wpc' = "client" /\ wgrant' = grant /\ UNCHANGED <<wtarget, wtodo>>
     \/ Snag("db") /\ FallBack
  /\ wtoken' = FALSE
  /\ UNCHANGED <<writtenTo, appRow, zohoVars, connectVars, wanted, undisturbed>>

\* destFor: the grant first
ReadGrant ==
  /\ wpc = "idle"
  /\ \/ grant # NoGrant /\ wpc' = "client" /\ wgrant' = grant /\ UNCHANGED <<wtarget, wtodo>>
     \/ (grant = NoGrant \/ Snag("db")) /\ FallBack
  /\ wtoken' = FALSE
  /\ UNCHANGED <<writtenTo, appRow, zohoVars, connectVars, wanted, undisturbed>>

\* then the client, then the list of meetings without an event.
ResolveClient ==
  /\ wpc = "client"
  /\ \E c \in GoogleOAuthFor :
       IF c = NoClient
         THEN FallBack
         ELSE /\ wtarget' = [acct |-> wgrant.acct, to |-> wgrant.to, by |-> c]
              /\ wpc' = "write" /\ wtodo' = ToCreate
              /\ UNCHANGED wgrant
  /\ UNCHANGED <<wtoken, writtenTo, appRow, zohoVars, connectVars, wanted, undisturbed>>

Works(t) == t.to = Blank \/ t.by = ById(t.to)

\* The first request of a run fetches an access token, the others have it.
CreateMeeting(m) ==
  /\ wpc = "write" /\ m \in wtodo
  /\ wtodo' = wtodo \ {m}
  /\ \/ /\ wtoken \/ Works(wtarget)
        /\ wtoken' = TRUE
        /\ writtenTo' = [writtenTo EXCEPT ![m] = CalendarOf[wtarget.acct]]
     \/ /\ (~wtoken /\ ~Works(wtarget)) \/ Snag("google")
        /\ UNCHANGED <<wtoken, writtenTo>>
  /\ UNCHANGED <<wpc, wgrant, wtarget, appRow, zohoVars, connectVars, wanted, undisturbed>>

\* mutant: the destination is resolved once, when the worker starts
MutantEndRun ==
  /\ wpc = "write" /\ wtodo = {}
  /\ wtodo' = ToCreate
  /\ UNCHANGED <<wpc, wgrant, wtarget, wtoken, writtenTo, appRow, zohoVars, connectVars,
                 wanted, undisturbed>>

EndRun ==
  /\ wpc = "write" /\ wtodo = {}
  /\ wpc' = "idle" /\ wgrant' = NoGrant /\ wtarget' = NoTarget /\ wtoken' = FALSE
  /\ UNCHANGED <<wtodo, writtenTo, appRow, zohoVars, connectVars, wanted, undisturbed>>

Undisturb ==
  /\ ~undisturbed /\ undisturbed' = TRUE
  /\ UNCHANGED <<appRow, zohoVars, connectVars, runVars, wanted>>

WorkerRun == ReadGrant \/ ResolveClient \/ EndRun \/ \E m \in Meetings : CreateMeeting(m)
ConnectStep(g) == ExchangeGoogle(g) \/ SaveGrant(g)

ZohoForm ==
  \E s \in Saves : SaveZoho(s) \/ \E typed \in ZohoSecrets \cup {Blank} : PutZoho(s, typed)

Destination ==
  \/ \E id, typed \in GoogleClients \cup {Blank} : PutApp(id, typed)
  \/ \E g \in Consents : \/ Connect(g) \/ ConnectStep(g)
                         \/ \E a \in Administered : ConnectCallback(g, a)
  \/ ConsentExpires
  \/ \E m \in Meetings : MeetingAppears(m)
  \/ WorkerRun

SettingsNext == ZohoForm \/ Destination \/ Undisturb

\* The worker's loop goes on for ever.
SettingsFairness == WF_settingsVars(WorkerRun)

SettingsSpec == SettingsInit /\ [][SettingsNext]_settingsVars /\ SettingsFairness

-----------------------------------------------------------------------------
(* Properties.                                                             *)

\* The secret stored for Zoho is the one typed in last, however often the form has
\* been sent without one since, by however many administrators at once, whichever
\* saves have failed (put, "If the secret is left blank on update, keep the existing
\* one") - unless a secret typed in was saved between the read and the write of a
\* PUT without one, which then writes the older one back (Crossing).
ZohoSecretNewest == ~crossed => zohoSecret = zohoGiven

\* Once an administrator has connected a calendar, with the client that is now
\* configured, every meeting that has no event yet gets it there, whatever was
\* configured before (destFor, Engine: "the worker writes to whatever each org
\* connected in the UI").  Left out are the meetings on the list of a run under way,
\* and the run that has read the grant and not the client yet (wpc = "client"): it
\* may write with the grant before, or fall back to the environment.
NewMeetingsFollow ==
  \A m \in Meetings, a \in Administered :
    (/\ undisturbed /\ m \in ToCreate
     /\ wpc = "idle" \/ (wpc = "write" /\ m \notin wtodo)
     /\ grant.acct = a /\ appRow = ById(grant.to)
     /\ \A g \in Consents : gpc[g] \notin {"consent", "exchange", "save"})
      ~> (writtenTo[m] = CalendarOf[a])

=============================================================================
