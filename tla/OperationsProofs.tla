-------------------------- MODULE OperationsProofs --------------------------
(* Theorems about how the service is operated, for every value of the       *)
(* constants: Migrations, Settings, RecordingLink, RateLimit, and the four  *)
(* side by side (MCOperations).                                             *)
EXTENDS MCOperations, TLAPS

(***************************************************************************)
(* Migrations.                                                             *)
(***************************************************************************)
-----------------------------------------------------------------------------
(* Type correctness.                                                        *)

LEMMA MigrationsInitType == MigrationsInit => MigrationsTypeOK
<1> SUFFICES ASSUME MigrationsInit PROVE MigrationsTypeOK
  OBVIOUS
<1>1. overlapped \in BOOLEAN /\ undowned \in BOOLEAN
  <2>1. overlapped = FALSE /\ undowned = FALSE
    BY DEF MigrationsInit
  <2>2. QED
    BY <2>1
<1>2. QED
  BY <1>1, MigrationsAssumption DEF MigrationsInit, MigrationsTypeOK

LEMMA MigrationsTypeStep == MigrationsTypeOK /\ [MigrationsNext]_migrationVars => MigrationsTypeOK'
<1> SUFFICES ASSUME MigrationsTypeOK, [MigrationsNext]_migrationVars PROVE MigrationsTypeOK'
  OBVIOUS
<1> USE MigrationsAssumption DEF MigrationsTypeOK
<1>1. ASSUME NEW r \in Runners, MigrateUp(r) PROVE MigrationsTypeOK'
  <2>1. overlapped' \in BOOLEAN
    BY <1>1, Zenon DEF MigrateUp
  <2>2. QED
    BY <1>1, <2>1 DEF MigrateUp, Busy
<1>2. ASSUME NEW r \in Runners, MigrateDown(r) PROVE MigrationsTypeOK'
  <2>1. overlapped' \in BOOLEAN
    BY <1>2, Zenon DEF MigrateDown
  <2>2. PICK v \in applied : rpending' = [rpending EXCEPT ![r] = {v}]
    BY <1>2 DEF MigrateDown
  <2>3. downs' \in 0..MaxDowns
    BY <1>2 DEF MigrateDown
  <2>4. QED
    BY <1>2, <2>1, <2>2, <2>3 DEF MigrateDown, Busy
<1>3. ASSUME NEW r \in Runners, RunSQL(r) PROVE MigrationsTypeOK'
  BY <1>3 DEF RunSQL, Quit
<1>4. ASSUME NEW r \in Runners, RecordVersion(r) PROVE MigrationsTypeOK'
  BY <1>4 DEF RecordVersion, Quit
<1>5. ASSUME NEW r \in Runners, Commit(r) PROVE MigrationsTypeOK'
  <2>1. PICK v \in rpending[r] :
          /\ schema' = IF rdown[r] THEN Undone(v) ELSE schema \cup {v}
          /\ applied' = IF rdown[r] THEN applied \ {v} ELSE applied \cup {v}
          /\ NextVersion(r, v)
    BY <1>5 DEF Commit
  <2>2. schema' \subseteq Versions /\ applied' \subseteq Versions
    BY <2>1 DEF Undone
  <2>3. CASE rpending[r] = {v}
    BY <1>5, <2>1, <2>2, <2>3 DEF Commit, NextVersion, Quit
  <2>4. CASE rpending[r] # {v}
    BY <1>5, <2>1, <2>2, <2>4 DEF Commit, NextVersion
  <2>5. QED
    BY <2>3, <2>4
<1>6. ASSUME NEW r \in Runners, Stop(r) PROVE MigrationsTypeOK'
  BY <1>6 DEF Stop, Quit
<1>7. CASE Undown
  BY <1>7 DEF Undown
<1>8. CASE UNCHANGED migrationVars
  BY <1>8 DEF migrationVars
<1>9. QED
  BY <1>1, <1>2, <1>3, <1>4, <1>5, <1>6, <1>7, <1>8 DEF MigrationsNext, Migrate

-----------------------------------------------------------------------------
(* The inductive invariant.                                                 *)

\* A MigrateDown that has not overlapped is alone, and rolls the last version back.
Alone ==
  \A r \in Runners : rdown[r] =>
    /\ rpc[r] # "idle" /\ \A q \in Runners \ {r} : rpc[q] = "idle"
    /\ \E v \in applied : rpending[r] = {v} /\ \A w \in applied : w <= v

\* What a MigrateUp does not intend to apply has been applied, by whomever.
NothingSkipped ==
  \A r \in Runners : rpc[r] # "idle" /\ ~rdown[r] => Versions \ rpending[r] \subseteq applied

Settled == ~overlapped => SchemaAsRecorded /\ Alone /\ NothingSkipped

MigrationsInv == MigrationsTypeOK /\ Settled

LEMMA InitSettled == MigrationsInit => Settled
BY DEF MigrationsInit, Settled, SchemaAsRecorded, Alone, NothingSkipped

\* The next version of a process that migrates up has all lower ones below it.
LEMMA CommitUp ==
  ASSUME MigrationsInv, ~overlapped, NEW r \in Runners, Commit(r), ~rdown[r]
  PROVE  Settled'
<1> USE MigrationsAssumption DEF MigrationsTypeOK
<1>1. MigrationsTypeOK /\ SchemaAsRecorded /\ Alone /\ NothingSkipped /\ rpc[r] = "commit"
  BY DEF MigrationsInv, Settled, Commit
<1>2. PICK v \in rpending[r] :
        /\ InTurn(v, rpending[r])
        /\ schema' = schema \cup {v} /\ applied' = applied \cup {v}
        /\ NextVersion(r, v)
  BY DEF Commit
<1>3. \A w \in Versions : w <= v => w \in applied'
  <2> SUFFICES ASSUME NEW w \in Versions, w <= v PROVE w = v \/ w \in applied
    BY <1>2
  <2>1. v \in Nat /\ w \in Nat
    BY <1>1
  <2>2. w = v \/ w \notin rpending[r]
    BY <1>2, <2>1 DEF InTurn
  <2>3. QED
    BY <1>1, <2>2 DEF NothingSkipped
<1>4. SchemaAsRecorded'
  <2>1. schema' = applied'
    BY <1>1, <1>2 DEF SchemaAsRecorded
  <2>2. \A x \in applied' : \A w \in Versions : w <= x => w \in applied'
    BY <1>1, <1>2, <1>3 DEF SchemaAsRecorded
  <2>3. QED
    BY <2>1, <2>2 DEF SchemaAsRecorded
<1>5. \A q \in Runners : ~rdown[q]
  BY <1>1 DEF Alone
<1>6. /\ \A q \in Runners : ~rdown'[q]
      /\ \A q \in Runners \ {r} : rpending'[q] = rpending[q] /\ rpc'[q] = rpc[q]
      /\ rpc'[r] # "idle" => rpending'[r] = rpending[r] \ {v}
  <2>1. CASE rpending[r] = {v}
    BY <1>1, <1>2, <1>5, <2>1 DEF NextVersion, Quit
  <2>2. CASE rpending[r] # {v}
    BY <1>1, <1>2, <1>5, <2>2 DEF NextVersion
  <2>3. QED
    BY <2>1, <2>2
<1>7. NothingSkipped'
  BY <1>1, <1>2, <1>5, <1>6 DEF NothingSkipped
<1>8. QED
  BY <1>4, <1>6, <1>7 DEF Settled, Alone

\* The highest of the versions takes no columns of a later one with it.
LEMMA CommitDown ==
  ASSUME MigrationsInv, ~overlapped, NEW r \in Runners, Commit(r), rdown[r]
  PROVE  Settled'
<1> USE MigrationsAssumption DEF MigrationsTypeOK
<1>1. MigrationsTypeOK /\ SchemaAsRecorded /\ Alone /\ NothingSkipped
  BY DEF MigrationsInv, Settled
<1>2. PICK v \in applied : rpending[r] = {v} /\ \A w \in applied : w <= v
  BY <1>1 DEF Alone
<1>3. schema' = Undone(v) /\ applied' = applied \ {v} /\ Quit(r)
  BY <1>2 DEF Commit, NextVersion
<1>4. schema' = applied'
  <2>1. schema = applied
    BY <1>1 DEF SchemaAsRecorded
  <2>2. \A w \in applied : TableOf[w] = v => w = v
    <3> SUFFICES ASSUME NEW w \in applied, TableOf[w] = v PROVE w = v
      OBVIOUS
    <3>1. w \in Nat /\ v \in Nat /\ v <= w /\ w <= v
      BY <1>1, <1>2
    <3>2. QED
      BY <3>1
  <2>3. QED
    BY <1>1, <1>3, <2>1, <2>2 DEF Undone
<1>5. \A x \in applied' : \A w \in Versions : w <= x => w \in applied'
  <2> SUFFICES ASSUME NEW x \in applied', NEW w \in Versions, w <= x PROVE w \in applied'
    OBVIOUS
  <2>1. x \in applied /\ x # v /\ x <= v
    BY <1>2, <1>3
  <2>2. w \in applied
    BY <1>1, <2>1 DEF SchemaAsRecorded
  <2>3. x \in Nat /\ w \in Nat /\ v \in Nat
    BY <1>1, <1>2, <2>1
  <2>4. w # v
    BY <2>1, <2>3
  <2>5. QED
    BY <1>3, <2>2, <2>4
<1>6. \A q \in Runners : rpc'[q] = "idle" /\ ~rdown'[q]
  <2>1. \A q \in Runners \ {r} : rpc[q] = "idle" /\ ~rdown[q]
    BY <1>1 DEF Alone
  <2>2. QED
    BY <1>1, <1>3, <2>1 DEF Quit
<1>7. QED
  BY <1>4, <1>5, <1>6 DEF Settled, SchemaAsRecorded, Alone, NothingSkipped

LEMMA SettledStep == MigrationsInv /\ [MigrationsNext]_migrationVars => Settled'
<1> SUFFICES ASSUME MigrationsInv, [MigrationsNext]_migrationVars, ~overlapped' PROVE Settled'
  BY DEF Settled
<1>0. ~overlapped /\ MigrationsTypeOK
  <2>1. ASSUME NEW r \in Runners, MigrateUp(r) \/ MigrateDown(r) PROVE ~overlapped
    BY <2>1, Zenon DEF MigrateUp, MigrateDown
  <2>2. CASE overlapped' = overlapped
    BY <2>2 DEF MigrationsInv
  <2>3. overlapped' = overlapped \/ \E r \in Runners : MigrateUp(r) \/ MigrateDown(r)
    BY DEF MigrationsNext, Migrate, RunSQL, RecordVersion, Commit, Stop, Undown, migrationVars
  <2>4. QED
    BY <2>1, <2>2, <2>3 DEF MigrationsInv
<1>1. MigrationsTypeOK /\ SchemaAsRecorded /\ Alone /\ NothingSkipped
  BY <1>0 DEF MigrationsInv, Settled
<1> USE <1>0, <1>1, MigrationsAssumption DEF MigrationsTypeOK
<1>2. ASSUME NEW r \in Runners, MigrateUp(r) PROVE Settled'
  <2>1. \A q \in Runners : ~rdown[q]
    BY <1>2 DEF MigrateUp
  <2>2. QED
    BY <1>2, <2>1 DEF MigrateUp, Busy, Settled, SchemaAsRecorded, Alone, NothingSkipped
<1>3. ASSUME NEW r \in Runners, MigrateDown(r) PROVE Settled'
  <2>1. \A q \in Runners : ~Busy(q)
    BY <1>3 DEF MigrateDown
  <2>2. PICK v \in applied :
          (\A w \in applied : w <= v) /\ rpending' = [rpending EXCEPT ![r] = {v}]
    BY <1>3 DEF MigrateDown
  <2>3. /\ \A q \in Runners \ {r} : rpc'[q] = "idle" /\ rdown'[q] = rdown[q]
        /\ rpc'[r] = "sql" /\ rdown'[r] /\ rpending'[r] = {v}
        /\ applied' = applied /\ schema' = schema
    BY <1>3, <2>1, <2>2 DEF MigrateDown, Busy
  <2>4. \A q \in Runners \ {r} : ~rdown[q]
    BY <2>1, <2>2 DEF Alone, Busy
  <2>5. QED
    BY <2>2, <2>3, <2>4 DEF Settled, SchemaAsRecorded, Alone, NothingSkipped
<1>4. ASSUME NEW r \in Runners, rpc[r] # "idle",
             UNCHANGED <<schema, applied>>,
             \/ Quit(r)
             \/ UNCHANGED <<rdown, rpending>> /\ \E s \in {"record", "commit"} : rpc' = [rpc EXCEPT ![r] = s]
      PROVE  Settled'
  BY <1>4 DEF Quit, Settled, SchemaAsRecorded, Alone, NothingSkipped
<1>5. ASSUME NEW r \in Runners, RunSQL(r) \/ RecordVersion(r) \/ Stop(r) PROVE Settled'
  <2>1. /\ rpc[r] # "idle" /\ UNCHANGED <<schema, applied>>
        /\ \/ Quit(r)
           \/ /\ UNCHANGED <<rdown, rpending>>
              /\ \E s \in {"record", "commit"} : rpc' = [rpc EXCEPT ![r] = s]
    BY <1>5 DEF RunSQL, RecordVersion, Stop, Busy
  <2>2. QED
    BY <1>4, <2>1
<1>6. ASSUME NEW r \in Runners, Commit(r) PROVE Settled'
  BY <1>6, CommitUp, CommitDown
<1>7. CASE Undown \/ UNCHANGED migrationVars
  <2>1. UNCHANGED <<schema, applied, rpc, rdown, rpending>>
    BY <1>7 DEF Undown, migrationVars
  <2>2. SchemaAsRecorded' /\ Alone' /\ NothingSkipped'
    BY <2>1 DEF SchemaAsRecorded, Alone, NothingSkipped
  <2>3. QED
    BY <2>2 DEF Settled
<1>8. QED
  BY <1>2, <1>3, <1>5, <1>6, <1>7 DEF MigrationsNext, Migrate

-----------------------------------------------------------------------------
(* The theorems.                                                            *)

\* The invariant owes nothing to fairness.
LEMMA MigrationsSafe ==
  MigrationsInit /\ [][MigrationsNext]_migrationVars => []MigrationsInv
<1>1. MigrationsInit => MigrationsInv
  BY MigrationsInitType, InitSettled DEF MigrationsInv
<1>2. MigrationsInv /\ [MigrationsNext]_migrationVars => MigrationsInv'
  BY MigrationsTypeStep, SettledStep DEF MigrationsInv
<1>3. QED
  BY <1>1, <1>2, PTL

LEMMA MigrationsInvariant == MigrationsSpec => []MigrationsInv
BY MigrationsSafe, PTL DEF MigrationsSpec

\* In every reachable state the variables have their types.
THEOREM MigrationsTyped == MigrationsSpec => []MigrationsTypeOK
BY MigrationsInvariant, PTL DEF MigrationsInv

\* For any number of processes and versions, and wherever they are stopped:
\* schema_migrations tells what the schema is, and without gaps, unless a
\* MigrateDown ran beside another process (migrate.go, runInTx).
THEOREM SchemaRecorded == MigrationsSpec => []SchemaAsRecorded
<1>1. MigrationsInv => SchemaAsRecorded
  BY DEF MigrationsInv, Settled, SchemaAsRecorded
<1>2. QED
  BY <1>1, MigrationsInvariant, PTL

(***************************************************************************)
(* Settings.                                                               *)
(***************************************************************************)

\* A connection past the consent has an account, and so has every grant.
GrantInv ==
  /\ grant # NoGrant => grant.acct # NoOne
  /\ wgrant # NoGrant => wgrant.acct # NoOne
  /\ \A g \in Consents : gpc[g] \in {"exchange", "save"} => gaccount[g] # NoOne

\* As long as no secret has crossed, the one stored is the last one typed in, a PUT
\* with a secret writes that one, and one without writes the one that is stored.
ZohoInv ==
  /\ \A s \in Saves : zpc[s] = "save" /\ ztyped[s] # Blank => zwrite[s] = ztyped[s]
  /\ ~crossed => /\ zohoSecret = zohoGiven
                 /\ \A s \in Saves : zpc[s] = "save" /\ ztyped[s] = Blank
                                       => zwrite[s] = zohoSecret

SettingsInv == SettingsTypeOK /\ GrantInv /\ ZohoInv

\* A run or a connection comes to a client, or to none.
LEMMA ClientType ==
  ASSUME SettingsTypeOK, NEW c \in GoogleOAuthFor
  PROVE  c \in Client
<1>1. NoClient \in Client
  BY DEF NoClient, Client
<1> QED
  BY <1>1 DEF GoogleOAuthFor, SettingsTypeOK

LEMMA SettingsInitType == SettingsInit => SettingsTypeOK
<1> SUFFICES ASSUME SettingsInit PROVE SettingsTypeOK
  OBVIOUS
<1> USE SettingsAssumption
<1>1. {undisturbed, wtoken, crossed} \subseteq BOOLEAN
  <2>1. undisturbed = FALSE /\ wtoken = FALSE /\ crossed = FALSE
    BY DEF SettingsInit
  <2> QED
    BY <2>1
<1>2. NoClient \in Client /\ NoGrant \in Grant /\ NoTarget \in Target
  BY DEF NoClient, Client, NoGrant, Grant, NoTarget, Target
<1>3. appRow \in Client /\ grant \in Grant
  <2>1. CASE grant = NoGrant /\ appRow = NoClient
    BY <1>2, <2>1 DEF SettingsInit, NoClient
  <2>2. CASE \E a \in Administered, c \in GoogleClients :
               grant = [acct |-> a, to |-> c] /\ appRow = ById(c)
    BY <2>2 DEF SettingsInit, Administered, ById, Client, Grant
  <2> QED
    BY <2>1, <2>2 DEF SettingsInit
<1> QED
  BY <1>1, <1>2, <1>3 DEF SettingsInit, SettingsTypeOK

\* The forms, and what happens by itself.
LEMMA FormsType ==
  ASSUME SettingsTypeOK,
         \/ ZohoForm \/ Undisturb \/ ConsentExpires
         \/ \E id, typed \in GoogleClients \cup {Blank} : PutApp(id, typed)
         \/ \E m \in Meetings : MeetingAppears(m)
  PROVE  SettingsTypeOK'
<1> USE SettingsAssumption DEF SettingsTypeOK, zohoVars, connectVars, runVars
<1>1. ASSUME NEW s \in Saves, NEW typed \in ZohoSecrets \cup {Blank}, PutZoho(s, typed)
      PROVE  SettingsTypeOK'
  <2>1. Kept(typed, zohoSecret) \in ZohoSecrets \cup {Blank}
    BY DEF Kept
  <2>2. ztyped' \in [Saves -> ZohoSecrets \cup {Blank}]
    BY <1>1 DEF PutZoho
  <2>3. zwrite' \in [Saves -> ZohoSecrets \cup {Blank}]
    BY <1>1, <2>1 DEF PutZoho
  <2>4. zpc' \in [Saves -> {"idle", "save", "over"}]
    BY <1>1 DEF PutZoho
  <2> QED
    BY <1>1, <2>2, <2>3, <2>4 DEF PutZoho
<1>2. ASSUME NEW s \in Saves, SaveZoho(s) PROVE SettingsTypeOK'
  <2>1. {zohoSecret', zohoGiven'} \subseteq ZohoSecrets \cup {Blank}
    BY <1>2 DEF SaveZoho
  <2>2. crossed' \in BOOLEAN
    BY <1>2, Zenon DEF SaveZoho
  <2> QED
    BY <1>2, <2>1, <2>2 DEF SaveZoho
<1>3. ASSUME NEW id \in GoogleClients \cup {Blank}, NEW typed \in GoogleClients \cup {Blank},
             PutApp(id, typed)
      PROVE  SettingsTypeOK'
  <2>1. appRow.secret \in GoogleClients \cup {Blank}
    BY DEF Client
  <2>2. Kept(typed, appRow.secret) \in GoogleClients \cup {Blank}
    BY <2>1 DEF Kept
  <2>3. appRow' \in Client
    BY <1>3, <2>2 DEF PutApp, Client
  <2> QED
    BY <1>3, <2>3 DEF PutApp
<1>4. ASSUME NEW m \in Meetings, MeetingAppears(m) PROVE SettingsTypeOK'
  BY <1>4 DEF MeetingAppears
<1>5. CASE Undisturb
  BY <1>5 DEF Undisturb
<1>6. CASE ConsentExpires
  BY <1>6 DEF ConsentExpires
<1> QED
  BY <1>1, <1>2, <1>3, <1>4, <1>5, <1>6 DEF ZohoForm

\* The connection of the destination calendar.
LEMMA ConnectionType ==
  ASSUME SettingsTypeOK, NEW g \in Consents,
         Connect(g) \/ ConnectStep(g) \/ \E a \in Administered : ConnectCallback(g, a)
  PROVE  SettingsTypeOK'
<1> USE SettingsAssumption DEF SettingsTypeOK, zohoVars, connectVars, runVars
<1>1. NoClient \in Client
  BY DEF NoClient, Client
<1>2. CASE Connect(g)
  <2>1. PICK c \in GoogleOAuthFor \ {NoClient} : gfor' = [gfor EXCEPT ![g] = c.id]
    BY <1>2 DEF Connect
  <2>2. c.id \in GoogleClients \cup {Blank}
    BY <2>1, ClientType DEF Client
  <2>3. gfor' \in [Consents -> GoogleClients \cup {Blank}]
    BY <2>1, <2>2
  <2> QED
    BY <1>2, <2>3 DEF Connect
<1>3. ASSUME ForgetConnection(g)
      PROVE  /\ gpc' \in [Consents -> {"new", "consent", "exchange", "save", "over"}]
             /\ gfor' \in [Consents -> GoogleClients \cup {Blank}]
             /\ gaccount' \in [Consents -> GoogleAccounts \cup {NoOne}]
             /\ gclient' \in [Consents -> Client]
  BY <1>1, <1>3 DEF ForgetConnection
<1>4. ASSUME NEW a \in Administered, ConnectCallback(g, a) PROVE SettingsTypeOK'
  <2>1. \/ ForgetConnection(g)
        \/ \E c \in GoogleOAuthFor :
             /\ gpc' = [gpc EXCEPT ![g] = "exchange"]
             /\ gclient' = [gclient EXCEPT ![g] = c]
             /\ gaccount' = [gaccount EXCEPT ![g] = a]
             /\ UNCHANGED gfor
    BY <1>4 DEF ConnectCallback
  <2>2. GoogleOAuthFor \subseteq Client /\ a \in GoogleAccounts
    BY ClientType DEF Administered
  <2>3. /\ gpc' \in [Consents -> {"new", "consent", "exchange", "save", "over"}]
        /\ gfor' \in [Consents -> GoogleClients \cup {Blank}]
        /\ gaccount' \in [Consents -> GoogleAccounts \cup {NoOne}]
        /\ gclient' \in [Consents -> Client]
    BY <1>3, <2>1, <2>2
  <2> QED
    BY <1>4, <2>3 DEF ConnectCallback
<1>5. CASE ExchangeGoogle(g)
  BY <1>3, <1>5 DEF ExchangeGoogle
<1>6. CASE SaveGrant(g)
  <2>1. grant' \in Grant /\ consentCookie' \in Consents \cup {NoOne}
    BY <1>6 DEF SaveGrant, Grant
  <2> QED
    BY <1>3, <1>6, <2>1 DEF SaveGrant
<1> QED
  BY <1>2, <1>4, <1>5, <1>6 DEF ConnectStep

\* The run of the worker; it has an account to write with when it writes.
LEMMA WorkerRunType ==
  ASSUME SettingsTypeOK, GrantInv, WorkerRun
  PROVE  SettingsTypeOK'
<1> USE SettingsAssumption DEF SettingsTypeOK, zohoVars, connectVars, runVars
<1>1. ToCreate \subseteq Meetings
  BY DEF ToCreate
<1>2. NoGrant \in Grant /\ NoTarget \in Target
  BY DEF NoGrant, Grant, NoTarget, NoClient, Client, Target
<1>3. ASSUME FallBack
      PROVE  /\ wgrant' \in Grant /\ wtarget' \in Target /\ wtodo' \subseteq Meetings
             /\ wpc' \in {"idle", "write"} /\ (wpc' = "write" => wtarget'.acct # NoOne)
  BY <1>1, <1>3 DEF FallBack, NoTarget, NoClient, Client, Target
<1>4. CASE ReadGrant
  <2>1. wtoken' = FALSE /\ UNCHANGED <<writtenTo, appRow, zohoVars, connectVars, wanted, undisturbed>>
    BY <1>4 DEF ReadGrant
  <2>2. CASE FallBack
    BY <1>3, <2>1, <2>2
  <2>3. CASE grant # NoGrant /\ wpc' = "client" /\ wgrant' = grant /\ UNCHANGED <<wtarget, wtodo>>
    BY <2>1, <2>3
  <2> QED
    BY <1>4, <2>2, <2>3 DEF ReadGrant
<1>5. CASE ResolveClient
  <2>1. UNCHANGED <<wtoken, writtenTo, appRow, zohoVars, connectVars, wanted, undisturbed>>
    BY <1>5 DEF ResolveClient
  <2>2. CASE FallBack
    BY <1>3, <2>1, <2>2
  <2>3. ASSUME NEW c \in GoogleOAuthFor,
               wtarget' = [acct |-> wgrant.acct, to |-> wgrant.to, by |-> c],
               wpc' = "write", wtodo' = ToCreate, UNCHANGED wgrant
        PROVE  SettingsTypeOK'
    <3>1. wtarget' \in Target
      BY <2>3, ClientType DEF Grant, Target
    <3>2. wtarget'.acct # NoOne
      BY <1>5, <2>3 DEF ResolveClient, GrantInv
    <3> QED
      BY <1>1, <2>1, <2>3, <3>1, <3>2
  <2> QED
    BY <1>5, <2>2, <2>3 DEF ResolveClient
<1>6. ASSUME NEW m \in Meetings, CreateMeeting(m) PROVE SettingsTypeOK'
  <2>1. wpc = "write" /\ UNCHANGED <<wpc, wgrant, wtarget, appRow, zohoVars, connectVars, wanted, undisturbed>>
    BY <1>6 DEF CreateMeeting
  <2>2. wtarget.acct \in GoogleAccounts
    BY <2>1 DEF Target
  <2>3. CalendarOf[wtarget.acct] \in Calendars
    BY <2>2
  <2>4. writtenTo' \in [Meetings -> Calendars \cup {Nowhere}] /\ wtodo' \subseteq Meetings
    BY <1>6, <2>3 DEF CreateMeeting
  <2>5. wtoken' \in BOOLEAN
    <3>1. wtoken' = TRUE \/ wtoken' = wtoken
      BY <1>6, Zenon DEF CreateMeeting
    <3> QED
      BY <3>1
  <2> QED
    BY <2>1, <2>4, <2>5
<1>7. CASE EndRun
  BY <1>2, <1>7 DEF EndRun
<1> QED
  BY <1>4, <1>5, <1>6, <1>7 DEF WorkerRun

\* The accounts of grants come with the consent and are handed on.
LEMMA GrantStep ==
  ASSUME SettingsTypeOK, GrantInv, [SettingsNext]_settingsVars
  PROVE  GrantInv'
<1> USE SettingsAssumption DEF SettingsTypeOK
<1>1. CASE UNCHANGED <<grant, wgrant, gpc, gaccount>>
  BY <1>1 DEF GrantInv
<1>2. ASSUME NEW g \in Consents, Connect(g) PROVE GrantInv'
  BY <1>2 DEF Connect, GrantInv, zohoVars, runVars
<1>3. ASSUME NEW g \in Consents, ForgetConnection(g), UNCHANGED <<grant, wgrant>>
      PROVE  GrantInv'
  BY <1>3 DEF ForgetConnection, GrantInv
<1>4. ASSUME NEW g \in Consents, NEW a \in Administered, ConnectCallback(g, a)
      PROVE  GrantInv'
  <2>1. a # NoOne
    BY DEF Administered
  <2>2. UNCHANGED <<grant, wgrant>>
    BY <1>4 DEF ConnectCallback, runVars
  <2>3. \/ ForgetConnection(g)
        \/ /\ gpc' = [gpc EXCEPT ![g] = "exchange"]
           /\ gaccount' = [gaccount EXCEPT ![g] = a]
    BY <1>4 DEF ConnectCallback
  <2> QED
    BY <1>3, <2>1, <2>2, <2>3 DEF GrantInv
<1>5. ASSUME NEW g \in Consents, ExchangeGoogle(g) PROVE GrantInv'
  <2>1. UNCHANGED <<grant, wgrant>> /\ gpc[g] = "exchange"
    BY <1>5 DEF ExchangeGoogle, runVars
  <2>2. ForgetConnection(g) \/ (gpc' = [gpc EXCEPT ![g] = "save"] /\ UNCHANGED gaccount)
    BY <1>5 DEF ExchangeGoogle
  <2> QED
    BY <1>3, <2>1, <2>2 DEF GrantInv
<1>6. ASSUME NEW g \in Consents, SaveGrant(g) PROVE GrantInv'
  <2>1. gaccount[g] # NoOne /\ UNCHANGED wgrant
    BY <1>6 DEF SaveGrant, GrantInv, runVars
  <2>2. UNCHANGED grant \/ grant' = [acct |-> gaccount[g], to |-> gfor[g]]
    BY <1>6 DEF SaveGrant
  <2>3. \A k \in Consents : gpc'[k] \in {"exchange", "save"} => gaccount'[k] # NoOne
    BY <1>6 DEF SaveGrant, ForgetConnection, GrantInv
  <2> QED
    BY <2>1, <2>2, <2>3 DEF GrantInv
<1>7. CASE WorkerRun
  <2>1. UNCHANGED <<grant, gpc, gaccount>>
    BY <1>7 DEF WorkerRun, ReadGrant, ResolveClient, EndRun, CreateMeeting, connectVars
  <2>2. wgrant' \in {wgrant, grant, NoGrant}
    BY <1>7 DEF WorkerRun, ReadGrant, ResolveClient, FallBack, EndRun, CreateMeeting
  <2> QED
    BY <2>1, <2>2 DEF GrantInv
<1> QED
  <2>1. CASE \/ ZohoForm \/ Undisturb \/ ConsentExpires \/ UNCHANGED settingsVars
             \/ \E id, typed \in GoogleClients \cup {Blank} : PutApp(id, typed)
             \/ \E m \in Meetings : MeetingAppears(m)
    BY <1>1, <2>1 DEF ZohoForm, SaveZoho, PutZoho, PutApp, MeetingAppears, Undisturb,
       ConsentExpires, settingsVars, connectVars, runVars
  <2> QED
    BY <1>2, <1>4, <1>5, <1>6, <1>7, <2>1 DEF SettingsNext, Destination, ConnectStep

\* Only a PUT writes the secret of Zoho.
LEMMA ZohoStep ==
  ASSUME SettingsTypeOK, ZohoInv, [SettingsNext]_settingsVars
  PROVE  ZohoInv'
<1> USE DEF SettingsTypeOK
<1>1. CASE UNCHANGED zohoVars
  BY <1>1 DEF zohoVars, ZohoInv
<1>2. ASSUME NEW s \in Saves, NEW typed, PutZoho(s, typed) PROVE ZohoInv'
  BY <1>2 DEF PutZoho, Kept, ZohoInv
<1>3. ASSUME NEW s \in Saves, SaveZoho(s) PROVE ZohoInv'
  <2>1. /\ zpc[s] = "save" /\ zpc' = [zpc EXCEPT ![s] = "over"]
        /\ zwrite' = zwrite /\ ztyped' = ztyped
    BY <1>3 DEF SaveZoho
  <2>2. CASE UNCHANGED <<zohoSecret, zohoGiven, crossed>>
    BY <2>1, <2>2 DEF ZohoInv
  <2>3. ASSUME zohoSecret' = zwrite[s],
               zohoGiven' = IF ztyped[s] # Blank THEN ztyped[s] ELSE zohoGiven,
               crossed' = (crossed \/ Crossing(s))
        PROVE  ZohoInv'
    <3>1. crossed' \/ (~crossed /\ ~Crossing(s))
      BY <2>3, Zenon
    <3>2. CASE crossed'
      BY <2>1, <3>2 DEF ZohoInv
    <3>3. CASE ~crossed /\ ~Crossing(s)
      <4>1. CASE ztyped[s] # Blank
        <5>1. \A q \in Saves : zpc[q] = "save" => ztyped[q] # Blank
          BY <3>3, <4>1 DEF Crossing
        <5> QED
          BY <2>1, <2>3, <4>1, <5>1 DEF ZohoInv
      <4>2. CASE ztyped[s] = Blank
        BY <2>1, <2>3, <3>3, <4>2 DEF ZohoInv
      <4> QED
        BY <4>1, <4>2
    <3> QED
      BY <3>1, <3>2, <3>3
  <2> QED
    BY <1>3, <2>2, <2>3 DEF SaveZoho
<1>4. UNCHANGED zohoVars \/ \E s \in Saves : SaveZoho(s) \/ \E typed : PutZoho(s, typed)
  BY DEF SettingsNext, ZohoForm, PutApp, Destination, Connect, ConnectStep, ConsentExpires,
     ExchangeGoogle, SaveGrant, ConnectCallback, MeetingAppears, WorkerRun, ReadGrant,
     ResolveClient, EndRun, CreateMeeting, Undisturb, settingsVars, zohoVars
<1> QED
  BY <1>1, <1>2, <1>3, <1>4

\* The invariant owes nothing to fairness.
LEMMA SettingsSafe == SettingsInit /\ [][SettingsNext]_settingsVars => []SettingsInv
<1>1. SettingsInit => SettingsInv
  <2> SUFFICES ASSUME SettingsInit PROVE GrantInv /\ ZohoInv
    BY SettingsInitType DEF SettingsInv
  <2> QED
    BY SettingsAssumption DEF SettingsInit, GrantInv, ZohoInv, NoGrant, Administered
<1>2. SettingsInv /\ [SettingsNext]_settingsVars => SettingsInv'
  <2> SUFFICES ASSUME SettingsInv, [SettingsNext]_settingsVars PROVE SettingsTypeOK'
    BY GrantStep, ZohoStep DEF SettingsInv
  <2>1. CASE UNCHANGED settingsVars
    BY <2>1 DEF settingsVars, SettingsInv, SettingsTypeOK
  <2>2. CASE SettingsNext
    BY <2>2, FormsType, ConnectionType, WorkerRunType DEF SettingsInv, SettingsNext, Destination
  <2> QED
    BY <2>1, <2>2
<1> QED
  BY <1>1, <1>2, PTL

\* In every reachable state the variables have their types: a run that writes has an
\* account to write with (destFor).
THEOREM SettingsTyped == SettingsSpec => []SettingsTypeOK
<1>1. SettingsInv => SettingsTypeOK
  BY DEF SettingsInv
<1> QED
  BY <1>1, SettingsSafe, PTL DEF SettingsSpec

\* For any number of PUTs of the Zoho form, in any order and whichever fail: only a
\* secret saved between the read and the write of one without can be lost
\* (settings.go, put).
THEOREM ZohoSecretKept == SettingsSpec => []ZohoSecretNewest
<1>1. SettingsInv => ZohoSecretNewest
  BY DEF SettingsInv, ZohoInv, ZohoSecretNewest
<1> QED
  BY <1>1, SettingsSafe, PTL DEF SettingsSpec

(***************************************************************************)
(* RecordingLink.                                                          *)
(***************************************************************************)

LEMMA LinkInitType == RecordingLinkInit => RecordingLinkTypeOK
<1> SUFFICES ASSUME RecordingLinkInit PROVE RecordingLinkTypeOK
  OBVIOUS
<1> USE RecordingLinkAssumption
<1>1. settled \in BOOLEAN
  <2>1. settled = FALSE
    BY DEF RecordingLinkInit
  <2> QED
    BY <2>1
<1>2. NoLink \in Columns
  BY DEF NoLink, Columns
<1> QED
  BY <1>1, <1>2 DEF RecordingLinkInit, RecordingLinkTypeOK

\* One page of the newest recordings.
LEMMA PageType ==
  ASSUME NEW s \in Seq(Recordings), NEW n \in Nat
  PROVE  SubSeq(s, 1, IF n < Len(s) THEN n ELSE Len(s)) \in Seq(Recordings)
OBVIOUS

LEMMA LinkTypeStep == RecordingLinkTypeOK /\ [RecordingLinkNext]_linkVars => RecordingLinkTypeOK'
<1> SUFFICES ASSUME RecordingLinkTypeOK, [RecordingLinkNext]_linkVars
             PROVE  RecordingLinkTypeOK'
  OBVIOUS
<1> USE RecordingLinkAssumption DEF RecordingLinkTypeOK
<1>1. ASSUME Move PROVE moves' \in 0..MaxMoves /\ settled' = settled
  BY <1>1 DEF Move
<1>2. NoLink \in Columns
  BY DEF NoLink, Columns
<1>3. ASSUME NEW r \in Rows, NEW u \in Urls, ScanRow(r, u) PROVE RecordingLinkTypeOK'
  BY <1>1, <1>3 DEF ScanRow, Move
<1>4. ASSUME NEW r \in Rows, PurgeRow(r) PROVE RecordingLinkTypeOK'
  BY <1>1, <1>2, <1>4 DEF PurgeRow, Move
<1>5. ASSUME NEW rec \in Recordings, Record(rec) PROVE RecordingLinkTypeOK'
  <2>1. recorded' \in Seq(Recordings)
    BY <1>5 DEF Record
  <2>2. inflight' \subseteq Delivery
    BY <1>5 DEF Record, Delivery
  <2> QED
    BY <1>1, <1>5, <2>1, <2>2 DEF Record, Move
<1>6. CASE Settle
  BY <1>6 DEF Settle
<1>7. CASE CreateWebhook \/ SaveWebhook
  BY <1>7 DEF CreateWebhook, SaveWebhook
<1>8. CASE LoseDelivery \/ FindByMeetingURL
  BY <1>8 DEF LoseDelivery, FindByMeetingURL
<1>9. CASE SaveRecording
  <2>1. PICK d \in found :
          /\ \/ link' = [r \in Rows |-> IF r \in RowsAt(UrlOf[d[2]])
                                       THEN [rec |-> d[2], by |-> "webhook"] ELSE link[r]]
             \/ UNCHANGED link
          /\ found' = found \ {d}
          /\ inflight' = inflight \ {d} \/ UNCHANGED inflight
    BY <1>9 DEF SaveRecording
  <2>2. [rec |-> d[2], by |-> "webhook"] \in Columns
    BY <2>1 DEF Delivery, Columns
  <2>3. link' \in [Rows -> Columns]
    BY <2>1, <2>2
  <2> QED
    BY <1>9, <2>1, <2>3 DEF SaveRecording
<1>10. CASE ListMeetings
  BY <1>10, PageType DEF ListMeetings
<1>11. CASE LinkRecordingIfAbsent
  <2>1. Head(polled) \in Recordings /\ Tail(polled) \in Seq(Recordings)
    BY <1>11 DEF LinkRecordingIfAbsent
  <2>2. [rec |-> Head(polled), by |-> "poll"] \in Columns
    BY <2>1 DEF Columns
  <2>3. link' \in [Rows -> Columns]
    BY <1>11, <2>2 DEF LinkRecordingIfAbsent
  <2> QED
    BY <1>11, <2>1, <2>3 DEF LinkRecordingIfAbsent
<1>12. CASE WorkerStops \/ HandlerStops
  <2>1. CASE WorkerStops
    <3>1. polled' \in Seq(Recordings)
      BY <2>1 DEF WorkerStops
    <3> QED
      BY <2>1, <3>1 DEF WorkerStops
  <2>2. CASE HandlerStops
    BY <2>2 DEF HandlerStops
  <2> QED
    BY <1>12, <2>1, <2>2
<1>13. CASE UNCHANGED linkVars
  BY <1>13 DEF linkVars
<1> QED
  BY <1>3, <1>4, <1>5, <1>6, <1>7, <1>8, <1>9, <1>10, <1>11, <1>12, <1>13
     DEF RecordingLinkNext, Deliver, Poll

LEMMA RecordingLinkSafe ==
  RecordingLinkInit /\ [][RecordingLinkNext]_linkVars => []RecordingLinkTypeOK
BY LinkInitType, LinkTypeStep, PTL

(***************************************************************************)
(* RateLimit.                                                              *)
(***************************************************************************)

\* There is no key without an expiry.
KeyExpires == counter > 0 => expiring

LEMMA RateLimitSafe ==
  RateLimitInit /\ [][RateLimitNext]_rateVars => [](RateLimitTypeOK /\ KeyExpires)
<1> USE RateLimitAssumption DEF RateLimitTypeOK
<1>1. RateLimitInit => RateLimitTypeOK /\ KeyExpires
  <2> SUFFICES ASSUME RateLimitInit PROVE RateLimitTypeOK /\ KeyExpires
    OBVIOUS
  <2>1. counter = 0 /\ expiring = FALSE /\ turnedAway = FALSE
    BY DEF RateLimitInit
  <2> QED
    <3>1. counter \in 0..MaxHits /\ ~(counter > 0)
      BY <2>1
    <3>2. expiring \in BOOLEAN /\ turnedAway \in BOOLEAN
      BY <2>1
    <3> QED
      BY <3>1, <3>2 DEF KeyExpires
<1>2. RateLimitTypeOK /\ KeyExpires /\ [RateLimitNext]_rateVars => (RateLimitTypeOK /\ KeyExpires)'
  <2> SUFFICES ASSUME RateLimitTypeOK, KeyExpires, [RateLimitNext]_rateVars
               PROVE  RateLimitTypeOK' /\ KeyExpires'
    OBVIOUS
  <2>1. CASE Allow
    <3>1. counter' = counter + 1 /\ counter' \in 0..MaxHits
      BY <2>1 DEF Allow
    <3>2. expiring' = (expiring \/ counter' = 1) /\ turnedAway' = (counter' > Limit)
      BY <2>1, Zenon DEF Allow, Armed
    <3>3. expiring' \in BOOLEAN /\ turnedAway' \in BOOLEAN
      <4>1. expiring' \in BOOLEAN
        BY <3>2, Zenon
      <4>2. turnedAway' = TRUE \/ turnedAway' = FALSE
        BY <3>2
      <4> QED
        BY <4>1, <4>2
    <3>4. KeyExpires'
      <4>1. counter = 0 => counter' = 1
        BY <3>1
      <4>2. counter > 0 \/ counter = 0
        OBVIOUS
      <4> QED
        BY <3>2, <4>1, <4>2 DEF KeyExpires
    <3> QED
      BY <3>1, <3>3, <3>4
  <2>2. CASE FailOpen
    <3>1. counter' = counter \/ counter' = counter + 1
      BY <2>2 DEF FailOpen
    <3>2. counter' \in 0..MaxHits /\ turnedAway' = FALSE
      BY <2>2 DEF FailOpen
    <3>3. IF counter' = counter THEN expiring' = expiring ELSE expiring' = (expiring \/ counter' = 1)
      BY <2>2, Zenon DEF FailOpen, Armed
    <3>4. expiring' \in BOOLEAN
      BY <3>3, Zenon
    <3>5. KeyExpires'
      <4>1. counter' = counter => (counter' > 0 => counter > 0)
        OBVIOUS
      <4>2. CASE counter' = counter
        BY <3>3, <4>1, <4>2, Zenon DEF KeyExpires
      <4>3. CASE counter' # counter
        <5>1. counter > 0 \/ counter' = 1
          BY <3>1, <4>3
        <5> QED
          BY <3>3, <4>3, <5>1, Zenon DEF KeyExpires
      <4> QED
        BY <4>2, <4>3
    <3> QED
      BY <3>2, <3>4, <3>5
  <2>3. CASE WindowEnds
    <3>1. counter' = 0 /\ expiring' = FALSE /\ turnedAway' = turnedAway
      BY <2>3 DEF WindowEnds
    <3>2. expiring' \in BOOLEAN /\ turnedAway' \in BOOLEAN
      BY <3>1
    <3> QED
      BY <3>1, <3>2 DEF KeyExpires
  <2>4. CASE UNCHANGED rateVars
    BY <2>4 DEF rateVars, KeyExpires
  <2> QED
    BY <2>1, <2>2, <2>3, <2>4 DEF RateLimitNext
<1> QED
  BY <1>1, <1>2, PTL

\* A counter always has its expiry, whichever call fails: that a refused client is let
\* in again rests on it (rateLimitScript).
THEOREM KeysExpire == RateLimitSpec => []KeyExpires
BY RateLimitSafe, PTL DEF RateLimitSpec

(***************************************************************************)
(* All four.                                                               *)
(***************************************************************************)

\* A step of the composition is one of its part, and the other parts rest.
LEMMA OperationSteps ==
  [Next]_operationVars =>
    /\ [SettingsNext]_settingsVars /\ [RecordingLinkNext]_linkVars
    /\ [MigrationsNext]_migrationVars /\ [RateLimitNext]_rateVars
<1> SUFFICES ASSUME [Next]_operationVars
             PROVE  /\ [SettingsNext]_settingsVars /\ [RecordingLinkNext]_linkVars
                    /\ [MigrationsNext]_migrationVars /\ [RateLimitNext]_rateVars
  OBVIOUS
<1>1. CASE UNCHANGED operationVars
  BY <1>1 DEF operationVars
<1>2. CASE Next
  <2>1. \/ SettingsNext /\ UNCHANGED <<linkVars, migrationVars, rateVars>>
        \/ RecordingLinkNext /\ UNCHANGED <<settingsVars, migrationVars, rateVars>>
        \/ MigrationsNext /\ UNCHANGED <<settingsVars, linkVars, rateVars>>
        \/ RateLimitNext /\ UNCHANGED <<settingsVars, linkVars, migrationVars>>
    BY <1>2 DEF Next, FillsIn, Configures, Links, Migrates, Limits, SettingsNext, ZohoForm, Destination,
       ConnectStep, WorkerRun, RecordingLinkNext, Deliver, Poll, MigrationsNext, Migrate,
       RateLimitNext
  <2> QED
    BY <2>1
<1> QED
  BY <1>1, <1>2

\* Side by side, as in the run "operations", all four keep their types.
THEOREM OperationsTypeCorrect == Spec => []OperationsTypeOK
<1>1. Init => SettingsInit /\ RecordingLinkInit /\ MigrationsInit /\ RateLimitInit
  BY DEF Init
<1>2. /\ SettingsInv => SettingsTypeOK
      /\ MigrationsInv => MigrationsTypeOK
  BY DEF SettingsInv, MigrationsInv
<1>3. SettingsTypeOK /\ RecordingLinkTypeOK /\ MigrationsTypeOK /\ RateLimitTypeOK
        => OperationsTypeOK
  BY DEF OperationsTypeOK
<1> QED
  BY <1>1, <1>2, <1>3, OperationSteps, SettingsSafe, RecordingLinkSafe, MigrationsSafe,
     RateLimitSafe, PTL DEF Spec

=============================================================================
