# Verification of note-taker

TLA+ models, TLC configurations and TLAPS proofs for the calendar bridge in this
repository (Go module `fathom`): a server and a worker that mirror the Zoho
calendars of a company's employees into one Google calendar per organization, so
that a meeting recorder joins the meetings. The models are written from the code;
paths below are relative to the repository.

- `tlc -workers 2 -config sync_mirror.cfg MCMirrorHistory.tla` runs one configuration;
- `tlapm CalendarSyncProofs.tla` checks one module of proofs;
- `PROJECT.json` lists runs, mutants, theorems, hazards, and for every definition
  the source lines it stands for.

## 1. The system

### Processes

| process | does |
|---|---|
| worker (`cmd/worker`) | the sync loop (one pass over all authorized employees after another), the hourly directory reconciliation, the retention purge, the polling of recordings |
| server (`cmd/server`) | employee's browser flow (invitation, OAuth), administrator's pages and JSON API, webhooks of Fathom and Fireflies, OIDC login; `server prune-orphans` is a one-shot command |
| Postgres | employees, credentials, onboarding tokens, calendars, `event_mappings`, settings, audit log |
| Redis | the token refresh lock, rate limits, counters |
| the disk | the recordings directory; a marker file in a folder says that its mails went out |
| Zoho, Google, Fathom, Fireflies | source calendars and company directory; destination calendar; recordings |

Server and worker share nothing but Postgres, Redis and the disk. Nothing in the code holds
a database transaction across a call to another system: every hazard below comes
from what happens between two such calls.

### Components

| component | state | operations | what makes it correct |
|---|---|---|---|
| Calendar sync engine (`internal/sync`, `calendar/syncrepo.go`) | `event_mappings`; the engine's work lists | CREATE, UPDATE, CANCEL loops of `SyncEmployee` | one event per meeting shared by its attendees, current once things are quiet, removed with its last attendee and not before |
| Calendar scan and policy (`calendar/service.go`, `policy`) | `calendars`, rows of `event_mappings` | `Discover`, `Scan`, `UpsertMapping`, `Evaluate` | an event that is still there is never taken for cancelled |
| Destination client (`internal/google/client.go`) | the Google calendar | insert, update, delete, list | a call whose answer is lost is not repeated to a second event |
| prune-orphans, retention | the same rows and events | three-step prune; purge of cancelled rows | nothing in use is removed |
| Zoho token manager (`tokens/manager.go`, `lock.go`, `redisx/lock.go`) | `oauth_credentials`, the Redis lock | `AccessToken`, `refresh`, `WithLock` | one refresh at a time, no redundant one, no credential given up for an outage, none left stale |
| Revocation, offboarding (`tokens/revoke.go`, `offboard.go`) | credential, `onboarding_status` | `Revoke`, `Offboard` | nothing of the credential survives |
| Onboarding (`onboarding`, `oauth/staterepo.go`, `httpx/oauth.go`) | `onboarding_tokens`, `oauth_states`, `onboarding_status`, `zoho_user_id` | `Invite`, `start`, `callback` | a link authorizes once; a credential only for the account the row is bound to |
| Directory reconciliation (`internal/directory`) | `employees` | `Reconcile` from the directory and from CSV | one row per account; who is active is enrolled, who left is not synced |
| Recording links (`httpx/fathom.go`, `fathomadmin.go`, poll of `cmd/worker`) | recording columns of `event_mappings`, `fathom_webhook` | register, deliver, poll | every row is linked by one or the other, and the poll never spoils what the webhook wrote |
| Fireflies (`httpx/fireflies.go`, `httpx/recordings.go`, `fireflies/client.go`) | folders and marker files, the background goroutines | webhook, import, back-fill, notify | mailed once per folder, downloaded whole, none missed |
| Settings, Google connection (`tokens/*settings.go`, `tokens/googledest.go`, `httpx/settings.go`, `httpx/googleconnect.go`) | two OAuth clients with secrets, the Google grant, a consent cookie | save, connect, resolve (`destFor`) | secrets survive an edit; the worker writes where the administrator connected |
| OIDC login, sessions, RBAC (`httpx/oidc.go`, `httpx/auth.go`, `oidc/provider.go`, `rbac`) | cookies, the cached keys of the provider | start, callback, request | a session is of who signed in; nobody is locked out by a key rotation |
| Rate limiter (`redisx/ratelimit.go`, `httpx/ratelimit.go`) | one Redis counter per client and route class | `Allow` | no key without an expiry |
| Migrations (`internal/db/migrate.go`) | the schema, `schema_migrations` | `MigrateUp`, `MigrateDown` | the record says what the schema is |
| Security monitor, audit, dashboard, configuration, crypto, email, wiring | - | - | output and pure functions |

Interactions: the directory invites and offboards; the OAuth callback and
offboarding write the credential the token manager refreshes; the token manager's
`ListAuthorized` decides who is scanned; the scan writes the rows the engine
turns into calendar events; prune and purge remove what the engine left; the
connection of a Google calendar decides where they go; recordings are linked to,
and Fireflies mails are addressed by, the same rows.

Hard to test, and therefore modelled: two steps of the engine with another process
in between; calls that fail, or succeed with the answer lost; a process that dies
between Google and Postgres; runs on snapshots; a lock whose TTL ends under its
holder; loops that stop at the first error and rely on the next pass; browser tabs
that share a cookie; webhooks delivered twice, late or never beside a poll; pages
of a listing that grows while it is read; processes that migrate one database.

## 2. Modules

| module | models | proofs |
|---|---|---|
| `CalendarSync` (`MCCalendarSync`) | scan, engine, destination calendar, purge, prune | `CalendarSyncProofs` |
| `SyncHistory` (`MCSyncHistory`) | CalendarSync with history variables: what a pass could not see or read | `SyncHistoryProofs` |
| `MirrorHistory` (`MCMirrorHistory`) | CalendarSync with a history variable: which rows have come apart from their events | - |
| `SharedEvents` | what CalendarSync promises: events held by attendances | `SharedEventsProofs`: the refinement |
| `TokenRefresh` (`MCTokenRefresh`) | one employee's credential: workers, lock, login, revocation, offboarding | `TokenRefreshProofs` |
| `Directory` (`MCDirectory`) | reconciliation, invitation, login, deactivation | `DirectoryProofs` |
| `Onboarding` (`MCAccess`) | links, OAuth states, the browser flow | `AccessProofs` |
| `AdminAccess` (`MCAccess`) | OIDC login, key cache, session, CSRF, permissions | `AccessProofs` |
| `Fireflies` (`MCFireflies`) | webhook goroutines, import, back-fill, folders, mails | `FirefliesProofs` |
| `RecordingLink` (`MCOperations`) | webhook, registration and poll over the recording columns | `OperationsProofs` (types) |
| `Settings` (`MCOperations`) | secrets in two forms, the Google connection, the worker's choice of calendar | `OperationsProofs` |
| `Migrations` (`MCOperations`) | any number of migrate processes on one database | `OperationsProofs` |
| `RateLimit` (`MCOperations`) | one fixed-window counter | `OperationsProofs` |

In all of them a call to Postgres, Redis, Zoho, Google, Fathom, Fireflies, the mail
server or the disk is one step; a handler is the sequence of its steps, kept by a
program counter (`pc`, `lpc`, `apc`, `rpc`, ...) named after what comes next.
`Faults` (`Hitches`, `Upsets`, `Mishaps`, `LinkFaults`, `Snags`, `Stops`, `Lapses`)
names the failures an instance allows, `ChangeKinds` what the outside world does.
`Quieten` (`Smooth`, `Steady`, `Calm`, `Settle`, `Undisturb`, `Undown`) is the
moment from which neither happens any more; the liveness properties speak of the
time after it. Operators whose names start with `Mutant` are deliberately wrong
variants of the definition they precede: each property is shown to notice one of
them.

`MCAccess` and `MCOperations` check several modules in one run. These components
share neither tables nor calls, so a variable `part`, chosen in the initial state,
says whose behaviour this is; the others keep their initial state.

### CalendarSync

`mapping` is `event_mappings`, by employee and source event (its unique key); a
row's `state` joins "is there a row" with `cancelled_at`, `updated` is
`source_updated_at`, `synced` the version recorded by `MarkCreated`/`MarkUpdated`,
`seen` stands for the comparison of `last_seen_at` with the start of a pass.
`event` is the destination calendar, with the version last written to each event.
`listed` is what a scan of an employee's calendar returns and policy lets through:
window, private and declined meetings and the policy rules are one set here.
`Personal` are the calendars the policy takes for personal: `Discover` stores them
disabled (`DefaultEnabled`).

| actions | code |
|---|---|
| `StartRun`, `NextEmployee`, `EndRun` | `syncAllEmployees` (`cmd/worker/main.go`) |
| `Discover`, `ScanFails`, `BeginScan`, `ListCalendar`, `UpsertMapping` | `Service.Discover`, `Service.Scan` |
| `ResolveDestination`, `SkipUntimed`, `LookupShared`, `InsertEvent`, `InsertFails`, `MarkCreated`, `CreateDone` | CREATE loop of `SyncEmployee` |
| `UpdateEvent`, `MarkUpdated`, `UpdateDone` | UPDATE loop |
| `CheckShared`, `DeleteEvent`, `DeleteFails`, `MarkCancelled`, `CancelDone` | CANCEL loop |
| `Abort`, `Crash` | every `return err`; the process dying |
| `PruneReadActive`, `PruneList`, `PruneDelete`, `PruneEnd` | `runPruneOrphans` |
| `Purge` | `retention.Purger` on cancelled rows |

Abstractions: every source event has a last-modified time; the two queries inside
`SharedDestinationForMeeting` are one step; the purge forgets a row's id, which the
code never uses again, and rows are updated by employee and source event where the code
uses the row's id, which stays with them; prune-orphans sees all events, not one page
of 250; `EventIds` bounds the ids Google hands out (`IdsLeft`
says that no insert has met that bound; only behaviours that end so count for liveness).

### SyncHistory

A row does not say why it was cancelled: `last_seen_at` says that this pass did not
see it, not whether it could have. From the moment worker `w` takes up an employee,
`hidden[w]` collects every meeting that at some moment was not listed or was in a
disabled calendar, and `unread[w]` those the scan skipped with a calendar it could not
read. They restrict no step (`HistoryOnlyRecords`). A row that is cancelled, and every
row of an event that is deleted, must be in one of them (`Unseen`).

### MirrorHistory

The engine decides by what a row says (`destination_event_id`,
`destination_synced_at`) and never looks at the event. `parted` collects the rows for
which the two come apart, in the only three ways that no later pass mends:

- `TakesOver`: a row gets an event that is gone or older than the version recorded
  for it - attached to a co-attendee's event (`engine.go:113`), or revived with the
  id of its own deleted one (`calendar/repo.go:107`);
- `Overwritten`: UPDATE writes a co-attendee's older version over it
  (`engine.go:142`), with the row of a meeting that has left that calendar;
- `LosesEvent`: CANCEL deletes the event and never gets to `MarkCancelled`
  (`engine.go:165`): an answer is lost, or the worker dies; a meeting that comes back
  before the retry finds its row active.

A row leaves `parted` when it is cancelled or its next version is written (`Mended`).
`EventuallyMirrored` is stated for the wanted rows outside `parted`; like the history
of SyncHistory, `Record` restricts no step.

### SharedEvents

Two variables: the `phase` of each event and its `holders`. `Create`, `Hold`,
`LetGo` and `Remove` say when an event may appear, be attached, be left and be
deleted; `CalendarSync!Shared` maps `phase` to the state of the destination event
and `holders` to the active rows with its id (`Refs`). An insert is `Create`,
`MarkCreated` and a row that is seen again are `Hold`, `MarkCancelled` is `LetGo`, a
delete that finds its event is `Remove`; everything else stutters. The mapping
holds under every failure. It takes one worker (the sharing check and the delete
are two calls), events of one organization (the client of one tenant gets a 404 for
another's event, which counts as deleted) and no prune-orphans.

### TokenRefresh

One employee; employees share nothing here. `row` is `oauth_credentials`, of whose
access token only the age matters: "due" is every expiry within the refresh skew,
the past included. `grant` says what Zoho thinks of each refresh token. `lock` is
the Redis key; `LockExpires` is its TTL, under a working holder only with
`SlowRefresh`. `Get`, `Acquire`, `ReadResult`, `Reread`, `Refresh`, `Store`,
`MarkRevoked` and `Release` are `AccessToken`, `WithLock` and `refresh`; `Start`,
`Exchange`, `StoreCredential`, `SetAuthorized`, `Fail` and `Abandon` the two OAuth
handlers; `Begin`, `RevokeAtZoho`, `EndCredential`, `EndOnboarding` and `GiveUp`
both `Revoke` and `Offboard`. A pass of the worker makes two calls of
`AccessToken`. The specification may stop: an employee whose authorization ended
and who does not log in again gives nobody anything to do, so the two passing
configurations do not check for deadlock.

### Directory

`account` is the company directory, `emp` the table `employees` joined with the
account of the stored credential, `links` the rows with an unused invitation. A
run `r` of `Reconcile` is either `Hourly` (the worker's) or one of `Imports` (CSV
uploads, which carry no account ids). Its snapshot `snap[r]` is read once
(`ListByOrg`) and is what all later decisions use; `key` is the address a row has
in `byEmail`, which is not updated when the row's own address is. Order of the
users is arbitrary. A login, and an offboarding, are one step each here, since
TokenRefresh has their details. An error, or a crash, anywhere gives the rest of
the users up (`Return`).

### Onboarding

Rows (`bound`, `status`, `stored`), links, OAuth states, the requests `tpc` of
`start` and `cpc` of `callback`. `CreateLink`, `SendInvitation`, `SetInvited` are
`Invite`; `ConsumeLink`, `SetStarted`, `CreateState` are `start`; `ConsumeState`,
`LookUpEmployee`, `ExchangeCode`, `VerifyIdentity`, `BindAccount`,
`StoreCredential`, `FinishCallback` are `callback`. A secret is "open" or "closed":
used, expired and purged are the same to `Consume`. Whoever signs in at Zoho is an
input (`a` in `ConsumeState`), so links forwarded to a colleague are included.

### AdminAccess

Browsers with two cookies (`stateCookie`, `session`), the provider with its keys,
the server's `keyCache`. `StartLogin` sends a browser away with an attempt, `SignIn`
is a person signing in there, which gives the attempt its code. A callback is a
request that any browser may make at any time, with the state of one attempt and the
code of another: `CheckState` compares the state with the cookie of the browser,
`ExchangeLoginCode`, `FindKey`, `FetchKeys`, `InstallKeys` and `FindKeyAgain` get and
verify the ID token of the code, `NonceMatches` compares its nonce with the cookie's,
and `MapAndIssue` opens the session. `OpenPage` and `Request` are a page and the
state-changing request it sends later, `VerifyCSRF` and the permission check between
them. `FetchKeys` and `InstallKeys` are two steps because the code does not hold the
mutex during the request.

The state and the nonce are two secrets of one cookie. The nonce is what binds the
session to an attempt begun in this browser; the state keeps foreign callbacks from
being looked at, and a callback without a cookie must be refused because
`VerifyIDToken` compares no nonce when it expects none (`oidc/provider.go:191`). An
attempt has one person and one code, as the provider hands them out; a code is
exchanged once. Signatures are taken to be good.

### Fireflies

`folder` is the recordings directory: which files, and whether the marker. A
webhook is acknowledged at once and served by a goroutine (`Receive`,
`GetTranscript`, `MakeFolder`, `WriteFile`, `StatMarker`, `MatchAttendees`, `Send`,
`SendDone`, `WriteMarker`); an import downloads the same way without mails, a
back-fill adds `StartBackfill`, `ListPage`, `NextRef` and `Report`. The listing is
newest first and grows at the front while its pages are read. `ServerStops` ends
all jobs where they are.

### RecordingLink

`link` holds the recording columns of a row and who wrote them. `CreateWebhook` and
`SaveWebhook` register a subscription; a recording is then `inflight` until a
delivery is answered (`FindByMeetingURL`, `SaveRecording`) or lost. `ListMeetings` and
`LinkRecordingIfAbsent` are the worker's poll.

### Settings

`PutApp` is one statement that keeps a blank secret and writes any id, also one that
was shown when the form was opened long ago; `PutZoho` and `SaveZoho` are the read and
the write of the other form, for any number of requests at a time. `Connect`,
`ConnectCallback`, `ExchangeGoogle` and `SaveGrant` connect a calendar, with a session
that may have ended and a cookie that is kept for ten minutes (`ConsentExpires`);
`ReadGrant`, `ResolveClient`,
`CreateMeeting` and `EndRun` are a run of the worker, whose failures fall back to the
environment's calendar as `destFor` does. A meeting is one row created once: what
sharing makes of it is CalendarSync.

### Migrations and RateLimit

A process reads the applied versions once (`MigrateUp`, `MigrateDown`) and then
works each version off in `RunSQL`, `RecordVersion` and `Commit`; `Stop` rolls the
transaction back. `Free` is the lock Postgres takes on what an uncommitted
transaction of another process created. `RateLimit` is one counter: `Allow`,
`FailOpen` and `WindowEnds`.

## 3. What is checked

Twelve runs. Those marked L use fairness.

| run | bounds | shows |
|---|---|---|
| `sync_safety` (1.8 M states) | 2 attendees of 2 tenants, 1 invitation with 2 versions, 2 events, 2 outside changes, every fault, purge, prune | `TypeOK`; `RecordedEventExists`; `CoAttendeeKeepsEvent`: the engine deletes an event only with the last active row pointing to it; `CancelledOnlyIfUnseen`, `RemovedOnlyIfUnseen`: it cancels and deletes nothing it could have seen throughout the pass |
| `sync_mirror` L (0.7 M) | 2 attendees of 1 tenant, 1 invitation with 2 versions, 2 events, a work and a personal calendar, 4 changes (appear, disappear, edit, authorization), lost answers, crashes | `EventuallyMirrored` |
| `sync_remove` L (0.5 M) | 2 attendees, 2 invitations with equal or different title and time, 2 events, 4 appearances and disappearances, failing calls | `ImplementsSharedEvents`, `NoOrphanEvent`, `InsertOnlyUntracked`, `EventuallyRemoved` |
| `token_refresh` L (0.4 M) | 2 workers, a login, an administrator, 1 grant, every fault but a rejected client secret | `TypeOK`, `NoRedundantRefresh`, `RevokedForCause`, `EventuallyFresh` |
| `token_lifecycle` L (0.5 M) | 2 workers, a login, 2 grants, locks that expire under their holder | `LockKeptFromOthers`, `EventuallyDetected` |
| `directory_sync` L (1.4 M) | 2 accounts, 3 addresses of which one changes hands, 3 changes, failing statements | `TypeOK`, `NoAccountTwice`, `EventuallyEnrolled` |
| `directory_import` L (0.7 M) | 1 account, the hourly run and an upload at the same time, 4 changes, every fault | `EventuallyStopped` |
| `downloads` L (0.55 M) | 2 transcripts that appear, are renamed or deleted (2 changes), 2 webhook goroutines, an import, a back-fill with pages of 1; 2 jobs started; every failure | `MarkerTruthful`, `RetriesAreSilent`, `BackfillMissesNothing`, `DeliveryTakesEffect` |
| `access` L (0.34 M) | one row, 2 accounts, 2 links, 2 tabs, 2 callbacks; 3 people (one not on the list), 2 browsers, 2 attempts, 2 callbacks with any state and code; 1 person in 1 browser while 2 keys rotate | `LinkAuthorizesOnce`, `CredentialBound`, `LoginSucceeds`; `SessionOfSignedIn`, `PagesActForTheirReader`; `RotationSurvived` |
| `operations` L (0.09 M) | 3 sendings of the Zoho form, 2 secrets; 2 OAuth clients, 1 connection, 1 meeting; 2 rows, 2 recordings, a poll page of 1, 4 moves; 3 versions of 2 tables, 3 processes, 2 `MigrateDown`; a limit of 2 in 4 requests | `ZohoSecretNewest`, `NewMeetingsFollow`; `EventuallyLinked`, `DetailsArrive`; `SchemaAsRecorded`, `MigratedBetweenThem`; `RefusedForAWindow` |
| `finding_*` (2) | small | disagreements of section 5 |

Why the bounds are enough to be interesting: sharing needs two attendees, and
removal in the presence of sharing a third row (the second invitation with the
same title and time); an insert that is lost and repeated needs one id more than
there are meetings; two versions are one unsynced edit; the races over the lock and
the credential are between two workers, or a worker and one other actor; a stale
snapshot needs two runs, an address that changes hands two people. Three or four
changes let a meeting or an employee come, go and come back. A mail sent twice
needs two overlapping deliveries, a page that shifts a transcript more than a page
holds; a link used twice needs two tabs, a foreign code a second browser and a
second attempt, a page of an earlier session two people in one browser, a key nobody has
cached two keys; a secret typed in between the read and the write of another PUT needs a
first one to be read, so three PUTs. Two migrate processes get in each
other's way, and the third shows that one still finishes; the third version alters
the table of the second, so a rollback can take columns with it.

What is excepted is said in the formula, not by a bound. `EventuallyMirrored` excepts
`parted`: with four changes a meeting is edited while one attendee is not authorized
and then appears to the other, or goes and comes back, so that without `TakesOver`, or
without `LosesEvent`, the run fails; without `Overwritten` it fails with three versions
and five changes. Larger instances were checked once: three events; six changes and three
versions without faults; four changes with unreadable lists, failing calls, lookups,
statements, tokens and destinations. `ZohoSecretNewest` excepts `Crossing`, which three
sendings reach. `RotationSurvived` excepts the moment another callback is about to
install an older document, `NewMeetingsFollow` the meetings on the list of a run under
way and the run between its two reads, `RetriesAreSilent` deliveries that overlap. Each
of these is a disagreement of section 5.

Fairness. `MirrorSpec` of MirrorHistory asks weak fairness of a worker's steps as a
whole: `main` never leaves its loop, and every step of `SyncEmployee` either
succeeds or fails; which failure, or which pending row comes first, stays open. The
purge is not fair. Operators who disable calendars or run prune-orphans are no part of
it (`RecordedService`): both can take away an event that is not created again
(section 5). In TokenRefresh the same holds for each worker; in addition time passes (`Age`) and
Redis expires keys (`LockExpires`). Logins and administrators need never act or
finish. In Directory each run is fair as a whole: `RunPeriodic` never stops, and a
handler that was started ends. In the other modules a request, a goroutine or a
process that has been started is worked off (`Callback`, `LoginStep`, `Serve`,
`Deliver`, `Migrate`), and the worker's poll and runs repeat (`Poll`, `WorkerRun`);
nobody has to click, deliver or save anything. `RateLimit` assumes that Redis expires
keys and that a refused client tries again, which is what its property is about.
Failures and crashes end with `Quieten` and its namesakes.

## 4. What is proved

For every value of the constants that meets the modules' assumptions:

| theorem | statement | assumes |
|---|---|---|
| `CalendarSyncProofs!TypeCorrect` | `TypeOK` always | - |
| `CalendarSyncProofs!RecordedIds` | `RecordedEventExists` always | - |
| `CalendarSyncProofs!CoAttendeeSafe` | `CoAttendeeKeepsEvent` | one worker |
| `CalendarSyncProofs!InsertsUntracked` | `InsertOnlyUntracked` | one worker, the sharing queries do not fail |
| `TokenRefreshProofs!TypeCorrect` | `TypeOK` always | - |
| `TokenRefreshProofs!OneRefresher` | at most one worker in the critical section | no refresh outlives the TTL |
| `TokenRefreshProofs!LockSafe` | `LockKeptFromOthers` | - |
| `TokenRefreshProofs!RefreshesOnce` | `NoRedundantRefresh` | no refresh outlives the TTL |
| `TokenRefreshProofs!DisconnectsForCause` | `RevokedForCause` | no new login, the right client secret |
| `SharedEventsProofs!Implements` | `ImplementsSharedEvents` | one worker, one organization, no prune-orphans |
| `SharedEventsProofs!NothingOrphaned` | `NoOrphanEvent` always | the same, and no insert whose answer is lost or whose row is not written |
| `DirectoryProofs!TypeCorrect` | `TypeOK` always | - |
| `DirectoryProofs!OneRowPerAccount` | `NoAccountTwice` always | no CSV upload |
| `SyncHistoryProofs!CancelledForCause` | `CancelledOnlyIfUnseen` | - |
| `SyncHistoryProofs!RemovedForCause` | `RemovedOnlyIfUnseen` | one worker |
| `SyncHistoryProofs!RemovedIfReadable` | `RemovedOnlyIfWithdrawn` | one worker, calendars can be read |
| `AccessProofs!OnboardingTyped` | `OnboardingTypeOK` always | - |
| `AccessProofs!LinksSingleUse` | `LinkAuthorizesOnce` always | - |
| `AccessProofs!CredentialsBound` | `CredentialBound` always | - |
| `AccessProofs!AdminAccessTyped` | `AdminAccessTypeOK` always | - |
| `AccessProofs!SessionsAuthentic` | `SessionOfSignedIn` always | - |
| `AccessProofs!PagesFaithful` | `PagesActForTheirReader` always | - |
| `AccessProofs!AccessTypeCorrect` | `AccessTypeOK` always, of the composition | - |
| `FirefliesProofs!FirefliesTypeCorrect` | `FirefliesTypeOK` always | - |
| `FirefliesProofs!MarkersTruthful` | `MarkerTruthful` always | - |
| `FirefliesProofs!BackfillsComplete` | `BackfillMissesNothing` always | - |
| `FirefliesProofs!RetriesSilent` | `RetriesAreSilent` | - |
| `OperationsProofs!MigrationsTyped` | `MigrationsTypeOK` always | - |
| `OperationsProofs!SchemaRecorded` | `SchemaAsRecorded` always | - |
| `OperationsProofs!SettingsTyped` | `SettingsTypeOK` always | - |
| `OperationsProofs!ZohoSecretKept` | `ZohoSecretNewest` always | - |
| `OperationsProofs!KeysExpire` | every rate limit key has an expiry, always | - |
| `OperationsProofs!OperationsTypeCorrect` | `OperationsTypeOK` always, of the composition | - |

The assumptions are needed, not convenient. Two workers can both find an event
unshared, or a meeting untracked. An engine whose lookup fails inserts
(`engine.go` treats the error as "not shared"). A calendar that cannot be read is the
first finding of section 5, and `RemovedIfReadable` says that nothing else leads to it. A refresh slower than the TTL
shares the critical section. The answer for an old grant revokes whatever
authorization is in the row by then, and `invalid_client` is treated as a dead
token. An upload creates rows without an account id, so a later login can bind a
second one. A worker that dies between an insert and its row leaves an event nobody
holds: `SharedEvents` allows that (a later pass inserts another), `NoOrphanEvent`
does not.

The arguments:

- Types are not inductive alone. `TypeInv` adds that a worker past "next" has an
  employee and one between a decision and its effect a pending row
  (CalendarSync), or that a run has the user and row its stage needs (Directory):
  without it a step could write the row of NULL.
- `RecordedInv`: ids in rows, in work lists and in a worker's hand were handed
  out; events never return to "unused".
- `DeleteInv` and `InsertInv`: what `DestinationShared` and
  `SharedDestinationForMeeting` answered still holds when the worker acts on it,
  because only a worker adds references; this is where one worker is used.
- `LockInv`: a worker in its critical section holds the lock. `GrantInv`: a grant a
  login is about to store is in nobody else's hands, so a login never makes an old
  grant's row look fresh. `DueInv`: while a worker refreshes a grant, the row holds
  no fresh token of it. Together they give `RefreshesOnce`; the last one alone is
  not inductive.
- `CauseInv`: without logins all grants in use are one, and a worker about to mark
  the row revoked has been told that it is dead.
- `RowInv`: rows exist exactly when bound to an account; every row of a user still
  to come is in the snapshot under the right account; a user about to be created
  has no row and does not come again. `Undisturbed` reduces the steps that bind
  and create nothing to one argument.

- `RefInv`: what the CREATE loop has in hand or still to do are distinct active rows
  without an event; what the CANCEL loop has are rows that still name the event it
  carries, and a row about to be marked cancelled is not the last one of an event
  that is still there. It ties the work lists, read once per loop, to the table they
  came from, which is what lets one abstract step stand for the last call of several.
  `RefsSteps` and `PhaseSteps` then say that a step touches holders or phases, never
  both, and `Simulation` names the abstract step.
- AdminAccess: the nonce a callback expects is that of an attempt begun in the browser
  it came from, which is where the session will be set (`LoginInv`), because a
  cookie names an attempt begun in its browser (`StateInv`). With `NonceMatches` the code is of that attempt, so
  its person signed in there. For the pages, `SettledCookie`, of every session and every
  open page: the callback its CSRF token names is over, and its person is the one of the
  code it brought. Equal CSRF tokens therefore mean equal persons.
- Onboarding: `TabInv` says that a tab's link is closed and that no two tabs have the
  same one, `CallbackInv` the same of callbacks and states; with `SpentInv`, whatever can
  still lead to an exchange has not led to one. `SeenInv`: what a callback read of the
  row still holds, or the row has since been bound to the account with its address, the
  only one such a callback recognises.
- Migrations: without an overlap a `MigrateDown` is the only process and rolls back the
  highest version (`Alone`), and a process that applies versions has everything else
  applied (`NothingSkipped`).

- SyncHistory: `ScanInv` says that the scan leaves no active row of its employee
  unseen unless the row was hidden or unread or is still to come, which holds because whatever
  has a row is in a calendar that `Discover` has stored (`KnownInv`), so a scan either
  lists it, skips it or it is hidden; `CancelInv`
  carries this through the CANCEL loop, whose list is read once. A deleted event
  adds `DeleteInv`: no other active row points to it, so the row in hand is all of
  `Refs`. With several workers each row is still cancelled for a reason, but the event
  may have gained a holder in between.
- Fireflies: `FolderOK` says that what a job has written of its folder is there and
  that a job which counts a mail as sent has sent one. Folders only grow (`Grown`), so
  no other job spoils it. `BackfillOK` is the loop invariant of the back-fill: every transcript
  it owes is downloaded, on the page it works on, in its hand, or further down the
  listing than it has read (`Due`). New transcripts come in front and push others
  down, never up; a deletion could push them up, and releases the back-fill from its
  promise (`jclean`).
- Settings: `GrantInv` says that a connection past the consent, and so every grant,
  has an account; without it the type of the worker's calendar is not inductive.
  `ZohoInv`: as long as no secret has crossed, a PUT without one that is between its
  read and its write has the stored secret in hand, which is the last one typed in.
- `AccessTypeCorrect` and `OperationsTypeCorrect` are about the compositions the runs
  check: a step is one of one part while the others rest (`AccessSteps`,
  `OperationSteps`), so the invariant of each part carries over.

The larger invariants, of Fireflies and SyncHistory, were checked by TLC on small
instances before they were proved. The theorems cover
every safety property of a passing run. Only model-checked: the liveness properties,
because fairness and ENABLED are out of the prover's reach. No theorem is about recursion or induction over data; the modules
declare no RECURSIVE operator.

## 5. Where the code does not do what the repository says

Two have a run that ends in a counterexample:

| run | what happens |
|---|---|
| `finding_unread_calendar` | a calendar that cannot be read during a pass has all its meetings cancelled |
| `finding_offboard_undone` | a refresh in flight during an offboarding writes the deleted credential back |

Seen in the models, without a run of their own. Calendar sync:

- a meeting that left a calendar and came back keeps the id of its deleted event
  (`calendar/repo.go:107` clears `cancelled_at` only): it is not created again, and
  UPDATE of the deleted event fails at every later edit. The same after a delete whose
  answer was lost, or a crash before `MarkCancelled` (`engine.go:170`), if the meeting
  comes back before the retry;
- a worker that dies between Google's insert (`engine.go:120`) and `MarkCreated`
  (`engine.go:126`) inserts the meeting a second time: `SourceNeverDuplicated` states
  the contrary and fails;
- a row attached to a co-attendee's event is marked as synced with its own version
  although nothing was written (`engine.go:114`), so the event may stay behind:
  `db/migrations/0003_sync_state.up.sql:4-6` calls the column "The source_updated_at
  value that was last pushed to the destination";
- UPDATE comes before CANCEL: a row with an update still pending, whose meeting has left
  that attendee's calendar, writes its older version over the newer one of a co-attendee
  (`engine.go:142`) and is then cancelled; the event stays old until the next edit;
- rows of a deauthorized employee stay active and keep shared events for ever
  (`directory/repo.go:217`);
- the lookup by source id crosses organizations (`syncrepo.go:241`), its fallback
  does not;
- prune-orphans can delete an event the worker inserted after the active ids were
  read (`cmd/server/main.go:141`), and sees one page of 250 events
  (`google/client.go:102`);
- an event without a last-modified time has a NULL `source_updated_at` and is never
  updated (`syncrepo.go:50`).

Tokens and directory:

- a worker that finds the lock busy waits 300 ms and returns the token of the row,
  fresh or not (`manager.go:122`);
- a refresh that fails for an old grant marks a newer authorization revoked
  (`manager.go:138`), and an upsert after a slow refresh overwrites it
  (`manager.go:157`);
- an offboarding that failed once is never repeated (`reconcile.go:153`): the row is
  inactive already, the credential stays; `InactiveHasNoCredential` states the contrary;
- after a CSV upload created a second row for a changed address, every directory
  run stops at the conflict (`reconcile.go:121`) before it looks at the status: the
  account's first row is synced although the account is inactive.
  `EventuallyStopped` fails when uploads and changes of address are combined;
- an address given to a new, inactive account deactivates and offboards its
  former holder's row until the next user of the listing repairs the status; the
  credential is gone;
- an invitation whose mail fails is not sent again by any later run
  (`reconcile.go:111`).

Onboarding and administrators:

- a link is used up although the message says to try again (`oauth.go:117`,
  `oauth.go:144`);
- a failing `SetOnboardingStatus` or `SetZohoUserID` is only logged
  (`oauth.go:213`): the credential is stored, the row is not on the sync list;
- the legal transitions of `onboarding/state.go:20` are not checked by any caller: an
  authorized employee who opens another link leaves that state
  (`AuthorizedUntilRevoked` states the contrary);
- the start of a second login overwrites the first tab's cookie, and a callback that
  ends clears a newer tab's (`httpx/oidc.go:161`);
- a callback with an older key document overwrites a newer one (`oidc/provider.go:256`),
  and withdrawn keys are trusted until the next unknown one;
- the session cookie of an administrator who was removed is valid until it expires.

Recordings:

- two deliveries of one webhook that overlap mail everybody twice, although
  `fireflies.go:136` says that a retry does not; so does a crash between the mails
  and the marker, and a changed title, which is a different folder;
- mails that failed in part are never repeated; a delivery that could not fetch its
  transcript was acknowledged already; a folder that was left half written is skipped
  by every later back-fill;
- all occurrences of a recurring meeting share their URL, so a late webhook overwrites
  the recording of a later one; a webhook without a recording id stores an empty one,
  and the poll then leaves the row alone; a new URL keeps the old recording;
- two registrations leave a subscription the server does not know, and so does one
  whose row could not be saved.

Operations:

- a PUT of the Zoho form without a secret writes the one it has read back over one
  saved since (read, then write), although `settings.go:183` says that a blank field
  keeps the existing one (`Crossing`);
- a PUT of the app's settings writes the client id it was opened with over a newer one,
  and keeps the newer secret: the two stop to match (`appsettings.go:119`);
- a database error in `destFor` or `googleOAuthFor` silently falls back to the
  environment's calendar; connecting another calendar leaves the ids of the old one in
  `event_mappings`;
- a `MigrateDown` beside a `MigrateUp` can leave a schema that `schema_migrations` does
  not describe (hence `overlapped`).

## 6. Not modelled, and the plan

Done, in this order: `CalendarSync`, `TokenRefresh`, `Directory` with proofs;
`SharedEvents` and the refinement; `RecordingLink` and `Fireflies`; `Onboarding` and
`AdminAccess` with proofs; `Settings`, `Migrations`, `RateLimit`.

Then proofs for Fireflies, Settings and the compositions, `SyncHistory` with its
theorems, and `MirrorHistory`.

Next: `policy.Evaluate` and meeting detection as operators against a reference
definition; `destination.go`, which lists and creates calendars.

Left out for good: configuration, encryption, mail rendering, wiring, HTML and the
browser application (pure functions, or input and output without a state), the
audit log (written, never read to decide anything), the security monitor (it counts
and logs), the pool and the tenant guard, the dashboard's reads, the diagnostic
commands, the signing of service account tokens, the JSON copies and media files of
downloads and the manual send, deleting a webhook subscription.
