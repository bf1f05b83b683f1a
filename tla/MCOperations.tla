---------------------------- MODULE MCOperations -----------------------------
(* Instances for TLC of the modules about how the service is operated, in   *)
(* one run: what administrators configure (Settings; the Zoho form, which   *)
(* shares nothing with the rest, by itself), how recordings are linked      *)
(* (RecordingLink), how the schema is brought up to date (Migrations) and   *)
(* how requests are limited (RateLimit).  They share neither tables nor     *)
(* calls, so each behaviour is one of one of them.                          *)
EXTENDS Settings, RecordingLink, Migrations, RateLimit

CONSTANTS g1, g2, ga, gs, ca, cb, m1, k1, z1, z2, s1, s2, s3,
          r1, r2, u1, u2, a1, a2, w1, p1, p2, p3

\* The service account has a calendar of its own.
OneEach == [a \in GoogleAccounts |-> IF a = ga THEN ca ELSE cb]

\* Each recording is of a meeting of its own.
OwnMeeting == [r \in Recordings |-> IF r = a1 THEN u1 ELSE u2]

\* The third version adds columns to the table of the second.
ThirdAlters == [v \in Versions |-> IF v = 3 THEN 2 ELSE v]

-----------------------------------------------------------------------------
VARIABLE part

operationVars == <<settingsVars, linkVars, migrationVars, rateVars, part>>

FillsIn(A) ==
  part = "forms" /\ A /\ UNCHANGED <<linkVars, migrationVars, rateVars, part>>
Configures(A) ==
  part = "settings" /\ A /\ UNCHANGED <<linkVars, migrationVars, rateVars, part>>
Links(A) ==
  part = "links" /\ A /\ UNCHANGED <<settingsVars, migrationVars, rateVars, part>>
Migrates(A) ==
  part = "migrations" /\ A /\ UNCHANGED <<settingsVars, linkVars, rateVars, part>>
Limits(A) ==
  part = "limit" /\ A /\ UNCHANGED <<settingsVars, linkVars, migrationVars, part>>

Init ==
  /\ part \in {"forms", "settings", "links", "migrations", "limit"}
  /\ SettingsInit /\ RecordingLinkInit /\ MigrationsInit /\ RateLimitInit
  /\ part # "settings" => grant = NoGrant

Next ==
  \/ \E s \in Saves :
       \/ FillsIn(SaveZoho(s))
       \/ \E typed \in ZohoSecrets \cup {Blank} : FillsIn(PutZoho(s, typed))
  \/ \E id, typed \in GoogleClients \cup {Blank} : Configures(PutApp(id, typed))
  \/ \E g \in Consents :
       \/ Configures(Connect(g)) \/ Configures(ExchangeGoogle(g)) \/ Configures(SaveGrant(g))
       \/ \E a \in Administered : Configures(ConnectCallback(g, a))
  \/ Configures(ConsentExpires)
  \/ \E m \in Meetings : Configures(MeetingAppears(m)) \/ Configures(CreateMeeting(m))
  \/ Configures(ReadGrant) \/ Configures(ResolveClient) \/ Configures(EndRun)
  \/ Configures(Undisturb)
  \/ \E r \in Rows : Links(PurgeRow(r)) \/ \E u \in Urls : Links(ScanRow(r, u))
  \/ \E rec \in Recordings : Links(Record(rec))
  \/ Links(Settle) \/ Links(CreateWebhook) \/ Links(SaveWebhook) \/ Links(LoseDelivery)
  \/ Links(FindByMeetingURL) \/ Links(SaveRecording)
  \/ Links(ListMeetings) \/ Links(LinkRecordingIfAbsent)
  \/ Links(WorkerStops) \/ Links(HandlerStops)
  \/ \E r \in Runners :
       \/ Migrates(MigrateUp(r)) \/ Migrates(MigrateDown(r)) \/ Migrates(RunSQL(r))
       \/ Migrates(RecordVersion(r)) \/ Migrates(Commit(r)) \/ Migrates(Stop(r))
  \/ Migrates(Undown)
  \/ Limits(Allow) \/ Limits(FailOpen) \/ Limits(WindowEnds)

Fairness ==
  /\ WF_operationVars(Configures(WorkerRun))
  /\ WF_operationVars(Links(Poll)) /\ WF_operationVars(Links(Deliver))
  /\ \A r \in Runners : WF_operationVars(Migrates(Migrate(r)))
  /\ WF_operationVars(Limits(WindowEnds)) /\ WF_operationVars(Limits(Retry))

Spec == Init /\ [][Next]_operationVars /\ Fairness

OperationsTypeOK ==
  SettingsTypeOK /\ RecordingLinkTypeOK /\ MigrationsTypeOK /\ RateLimitTypeOK

=============================================================================
