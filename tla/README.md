# Verification of CAS, the Covert Alert System

CAS turns a covert trigger on a handset into an alert that responders can
neither miss nor be misled by. This directory holds TLA+ models of the parts of
it that decide whether that works, the TLC configurations that check them, and
TLAPS proofs of the most important results. Paths below are relative to the
repository; `cas.ts` is `artifacts/api-server/src/routes/cas.ts`, Kotlin files are
those of `artifacts/covert-alert-system/android-test-package/app/src/main/java/com/covertalert/pixeltest/`.

`PROJECT.json` is the index: components, runs, theorems, hazards, findings, and for
each definition the source lines it stands for.

    tlc -config CasOutbox_safety.cfg MCCasOutbox      # a run
    tlapm CasOutbox_proofs.tla                        # the proofs of a module

## 1. The system

Three programs and the services they use:

    handset (Kotlin)  --trigger, location, receipts, acks, clips-->  API server (TypeScript, Postgres)
         ^  SMS by its own SIM                                        |  ^
         |                                                            |  |
         +--FCM push: capture request, incident resolved--------------+  +-- console (React): state, ack,
                                                                      |      resolve, re-queue, capture
                                                                      +--> providers (SMTP, gateways)

The server's state is in Postgres, and every route is a handful of transactions;
several server processes may run at once. The handset is one process with many
threads, which Android kills at will; it persists a few maps and files. Nothing
between the two is reliable: requests, answers and pushes are lost, delayed, and
handled after the caller gave up.

### Components

| Component | State | Operations | What makes it correct |
|---|---|---|---|
| alert outbox (`cas.ts`) | `cas_outbox` rows, transport cooldowns, journal | enqueue on trigger, claim under a 30 s lease, deliver, complete / fail / dead-letter, cool down, re-queue, device receipt, stand-down on resolve | the record is never better than the truth; only the newest claim decides; no delivery starts after a resolve; every alert gets a verdict |
| incident record (`cas.ts`) | `cas_incidents` rows | trigger, repeat trigger, location, ack, resolve, practice record, `GET /cas/state` | at most one unresolved incident; no trigger lost; the console shows the alert |
| location watch (`LocationWatchdog.kt`, `AlertLocation.kt`, `CapturePush.kt`) | watched incident, anchor fix, timers, one post in flight, resolved markers | start, movement and periodic posts, answers, pushes, stop | watched while active, and no longer |
| device SMS and receipts (`DeviceSmsSender.kt`, `ReceiptDurability.kt`, console half in `cas.ts`) | two persisted maps (batches, receipts), in-memory batches, the console's row and cycle token | send, radio results, watchdog, hand-over, recovery, receipt post | what was texted is reported, once per cycle and truthfully |
| evidence capture (`cas-evidence.ts`, `CaptureRequests.kt`, `EvidenceCaptureService.kt`, `EvidenceUploadCore.kt`) | request rows, clip rows, service instances, staged file pairs, the uploader's monitor | request, pick up, acknowledge, start, record, stage, upload, clean up | one recording at a time, no staged clip lost, the request says what happened |
| providers and acceptance ledger (`lib/delivery-providers.ts`) | the row's send, the roster, two mailbox accounts, the ledger of accepted recipients | resolve recipients, check, primary, fallback, record, receipt | a receipt names who took the alert; a copy beyond the first is owed to a mishap |
| SMTP client (`lib/cas-smtp.ts`) | one connection | the dialogue, STARTTLS, classification of its end | nothing confidential in clear; the end reported is the end that was |
| retry timing (`cas.ts`, `lib/delivery-providers.ts`) | due times, transport cooldown | backoff, jitter, Retry-After | a provider's wait is kept, no wait is unbounded |
| credential gate (`cas-auth.ts`, `AlertSender.kt`, `MainActivity.kt`) | issued and revoked credentials, the handset's stored one, the input field | enrol, check, revoke, clear on 401 | an enrolled handset is not locked out, a revoked one does not let itself in |
| burst alert (`cas-auth.ts`, `lib/cas-auth-burst-alert.ts`) | the shared streak, per process a ping queue and quiet timer | count, alert, recover, stop | an attack is reported once per threshold and the check stays down in it |
| push fan-out (`lib/cas-push.ts`, `CapturePush.kt`) | registrations, the handset's belief | register, send, forget stale tokens | no live registration is dropped |
| app updates (`cas-updates.ts`, `UpdateManager.kt`, `UpdateInstallReceiver.kt`) | published releases, `.part` file, consent journal, installer state | publish, check, consent, download, verify, install, retry | only the pinned bytes are installed, and only with consent |
| mailboxes and their probe (`cas-config.ts`, `lib/cas-email-health-worker.ts`) | account rows, probe registry | edit, probe, record, stop | a rotted account is reported, a stopped probe stays stopped |
| send status line (`BatchOutcomeTracker.kt`, `MainActivity.kt`) | attempts, finalized batches, the line | tap, attribute, finalize, resume | the line shows its own attempt's final outcome |
| SMS division (`SmsSegmenter.kt`) | none: a pure algorithm | divide | pieces fit and together are the text |
| console session (`use-field-test.tsx`, `App.tsx`) | token, generation, lock, overlapping requests | load, act, enrol, sign out | no data of a lost or earlier session |
| evidence browser (`pages/incidents.tsx`, `cas-evidence.ts`) | selected alert, detail, panel, clips | select, load, delete, reload | what is shown belongs to the selected alert; a deletion is journaled once |
| outbox health (`lib/cas-outbox-status.ts`, `use-outbox-status.ts`, `lib/outbox-warnings.ts`) | heartbeat, polls, warnings | tick, poll, derive | trouble is shown and cleared |
| schema bootstrap (`lib/db-schema-ensure.ts`, `index.ts`) | tables, drizzle's records, advisory lock | compare, stamp, migrate, refuse | a server serves only the schema it was built for |
| readiness records (`cas.ts`, `use-field-test.tsx`, `pages/gates.tsx`) | catalogue of items and gates, field run | seed, edit, observe, import, decide | GO is earned; the operator's marks stand |
| configuration and rosters, capture policy, other pages, handset shell, generated clients | single-row edits or presentation | | no protocol of their own |

How they interact. A trigger is one transaction that opens the incident and fills
its outbox. Workers and the handset both deliver from that outbox; the handset's
own transports are only ever completed by its receipts. Resolving an incident
withdraws its unsent rows, and pushes "resolved" to the handset, whose watch ends
by that push or by the 409 answer to its next post. A capture request reaches the
handset by poll or push, becomes a clip on its disk, and completes when the clip
is uploaded. All three handset components share the process, which may die at
any point, and the credential, which an operator may revoke.

What is hard here: claims overtaken by other workers; state read without a row
lock and written later (the trigger, the re-queue); several handset threads
that find the same work; late answers applied to whatever is current by then;
death between two persisted steps; Android accepting a start and then refusing
it. The list, each at its line with the properties that cover it, is
`hazards` in `PROJECT.json`, continued at the end of section 4.

## 2. The modules

| Module | What it is |
|---|---|
| `AlertPromise` | abstract specification: what the outbox promises responders, without workers, leases or clocks |
| `CasOutbox` | the outbox in detail; its refinement mapping to `AlertPromise` is at the end of it |
| `CasOutbox_proofs` | its proofs, and that it implements `AlertPromise` |
| `CasIncident` | the incident record |
| `CasIncident_proofs` | its proofs |
| `LocationWatch` | the handset's watch, composed with `CasIncident` (EXTENDS: it performs the server's own actions) |
| `DeviceReceipts` | device SMS delivery with the console's half of the protocol |
| `EvidenceCapture` | evidence capture end to end |
| `DeviceReceipts_proofs`, `EvidenceCapture_proofs` | their proofs |
| `MCCasOutbox`, `MCCasIncident` | symmetry sets for TLC |
| `ProviderDelivery`, `SmtpSession`, `PushFanOut`, `BurstAlert`, `RetryTiming`, `SchemaBootstrap`, `IncidentBrowser`, `DeliveryWarnings` | the server's other parts and the console pages that read them, each on its own |
| `MCServices` | one run over those eight |
| `AppUpdates`, `DeviceCredential`, `SendStatusLine`, `SmsSegmenter`, `ConsoleSession`, `EmailAccounts`, `EmailHealth` (EXTENDS `EmailAccounts`), `Readiness` | the handset's and the console's other parts |
| `MCSessions` | one run over those |
| `Services_proofs` | proofs about `RetryTiming`, `SmtpSession`, `BurstAlert`, `SchemaBootstrap`, `EmailHealth` |
| `Delivery_proofs` | proofs about `PushFanOut`, `ProviderDelivery` |
| `Console_proofs` | proofs about `SendStatusLine`, `ConsoleSession`, `IncidentBrowser`, `DeliveryWarnings`, `Readiness` |
| `Handset_proofs` | proofs about `LocationWatch` (on top of `CasIncident_proofs`), `DeviceCredential`, `SmsSegmenter`, `AppUpdates` |

The parts `MCServices` and `MCSessions` gather share no state. In the suite's initial state
`which` names the part that moves; the others keep their first state, and every property is
an invariant of all of them. So a suite is the disjoint union of its parts' state spaces.

Conventions. One action is one database transaction, one handler or callback, or one
step of a thread between two points where others can get in. An HTTP call is two or
three actions: sent, handled by the server, answered; the caller may give up and the
request still be handled. Definitions keep the source's names. A definition
marked "Mutant of X" is X with a bug the code might have had; the specification
does not use it, and putting it in X's place makes the run named in
`PROJECT.json` fail. That is how each property is known to depend on the code.
Every `Max...` constant is a bound of the model unless its comment names the source's
constant.

### CasOutbox

State: `state`, `attempts`, `claimedBy`, `cycle` (the device cycle token), one
function each over the rows `<<incident, transport>>`; `due`, `stale` and `cooling`
are what the code computes by comparing a time stamp with now (backoff over,
lease expired, transport in cooldown), changed by clock actions; `story` is the
newest journal event about a row; `requeuing` are re-queue transactions that have
read the incident's status; `job[w]` is what worker w holds between transactions.

| Action | Code |
|---|---|
| `Trigger` | the enqueueing part of the trigger transaction |
| `ClaimCasOutboxItem` | `claimCasOutboxItem`: due or lease-expired rows of open incidents, not cooling, `FOR UPDATE SKIP LOCKED`; the worker keeps the attempts value it read |
| `Deliver` ... | the provider's answer (taken or not), then `markCasOutboxItemSent`, `failCasOutboxItem` or the cooldown path, fenced by `claimed_by`, state and attempts; a completion that throws continues as a failure |
| `Crash` | the process dies; the row stays PROCESSING until `LeaseExpires` |
| `Ack`, `Resolve` | responders; resolve withdraws `Unsent` rows in the same transaction |
| `RequeueCheck`, `RequeueCommit` | two steps: the incident is read without a lock |
| `DeviceReceipt` | the receipt route, with its cycle token check |

### CasIncident

A trigger is `BeginTrigger` (takes the advisory lock, reads the active incident and
decides on the fix it read) and `CommitTrigger` (writes), because the SELECT takes no row
lock and the advisory lock excludes other triggers only. Everything else locks the
row it reads and is one action. `triggered` is history: the triggers answered with
an incident's id. `ShownIncident` is the row `GET /cas/state` returns as active.

### LocationWatch

`StartWatch` (the alert thread acting on the trigger's answer, under the resolved-marker
check), `OnMovementFix`, `PeriodicTick` and `CaptureDone`, `HandlePost`,
`ReceivePostAnswer`, `ReceivePush` (marker and `stopForIncident`), losses, revocation and
process death. Only the handset `Handset` is modelled; other phones trigger, and the
server's actions are those of `CasIncident`. Left out: distances and the 30 s
frequency cap (a movement may or may not post), the marker's lifetime of about
10 min (it outlasts every HTTP answer), a callback of a stopped handler that fires
at the moment it is removed.

### DeviceReceipts

One incident and its SMS row. A batch is persisted (`batches`), texted recipient by
recipient, updated by radio results, and handed over to a persisted receipt
(`receipts`) that is posted until the console answers 2xx or 410. `thread[t]` is what the
main, alert and re-queue-check threads are doing; `live` and `complete` are the
in-memory side, erased by `Crash`. `FinalizeIfComplete` (the check) and `Finalize` (the removal) take the
lock separately, so others get in between; `cutShort` is history: the sends whose batch left the memory with
results owed. The console's row is `item` with its `token`. An
acknowledgement counts as `Resolve` does: the routes differ in nothing that
the receipt handler looks at. A send with no incident (offline) reports to nobody and is left out.

### EvidenceCapture

A request (`Create`, with its push), the two pickup threads of the handset (poll and
push: list, start the service, acknowledge), the service (`OnStartCommand`, `RunJob`,
`EndJob`, its instances), staging (`PublishBytes`, then `PublishSidecar`), the uploader's
monitor and its steps, the upload route (`HandleUpload`), revocation and death.
Android's own behaviour is external: a start command may be accepted and refused later,
`stopSelf(id)` of the newest start ends the instance, `START_NOT_STICKY` loses delivered
commands at a death. What a capture records is a free choice, as is whether it
records anything. One push thread runs at a time. Clearing of the credential by
other callers and re-enrolment are DeviceCredential's. `SetAlertServerUrl` saves a blank server URL or a usable one:
without it the uploader drops a clip as it does without a credential (`homeless` is history: the clips dropped so),
and a blank one counts as a fault.

### The parts of MCServices

**ProviderDelivery.** A worker claims the row, reads roster and mailboxes (`ReadRoster`,
`ReadPrimary`, `ReadFallback`: three queries that edits can come between), and goes through the
recipients: ledger check (`AlreadyAccepted`), `Mail` through the primary or `MailFallback`, or
`Post` to a gateway or the WhatsApp API, `Record`, then `Receipt` and `Finish`. `wiring` is the configuration, a free choice
over every way the channel can be set up, the dev sink included. `Claim` by a second worker is the lease
running out; `Restart` is a process death and may change the configuration. `got` is the truth:
who took the alert for whom. The message itself, signing and time-outs are left out.

**SmtpSession.** `Dialogue` is the sequence of stages `sendSmtpMessage` goes through;
`StepAnswered` and `StepFailed` give every answer and every failure at every stage; `Classify` is
the code's classification of that end. An odd 2xx to the message body is not distinguished from 250.

**PushFanOut.** `Rotate`, `RegisterToken` and `FinishRegister` are the handset's half; `Dispatch` reads the
rows, `SendToRow` gets FCM's verdict, `Delete` forgets dead rows by id. Dispatches do not overlap.

**BurstAlert.** `CountRejection` is the upsert of the streak, shared by all replicas; `LookAtCount` what
each replica does with the count it got back; `Tick`, `SendPing`, `PingArrives` its quiet timer and serial
ping chain; `StopPinger` the shutdown. A rejection that a store outage leaves uncounted changes nothing the
model holds, and late answers are not followed further once the check can no longer be relied on (`unsafe`).

**RetryTiming.** Real milliseconds and the source's constants: `Hint` is `parseRetryAfterMs`, `RetryDelay` is
`retryDelayMs`, `Reschedule` and `RecordCooldown` the two writes of a failed delivery, which workers reach in
any order.

**SchemaBootstrap.** A boot takes the advisory lock, counts the records, and compares and stamps the
baseline or lets the migrator read the last record and apply; two builds of any of `Releases` releases
boot concurrently and may die at any point (`Die`); `Reconcile` is the operator's `drizzle-kit push`.
A migration is the set of objects it creates, so `Compare` asks which sets exist and whether anything drifted.

**IncidentBrowser.** One page. `Select` and every `/cas/state` load (`Reloads`) schedule an effect: it depends on
`loadIncidentDetail`, which every change of the page's state makes anew. `RunEffect` drops the detail, with the rows of the
browser (`Unmounted`), cancels the load before and starts one; `Read` is the route, `LoadAnswered`/`LoadFails` apply or drop the answer by the code's condition; `ConfirmDelete`,
`Commit`, `AfterDelete` delete from either panel, reload and refetch. `noted` is the journal.

**DeliveryWarnings.** `NextPeriod` is both time and the poll; worker ticks end well or badly, stop, hang; rows
move as CasOutbox's do; `Derived` is `outbox-warnings.ts`. A poll overlaps the next period at most `MaxPolls` times.

### The parts of MCSessions

**AppUpdates.** Publishing in two steps (the monotonic check, the insert), the check, the consent lines of the
journal (`Beat`), the download thread in blocks (`Get`, `WriteBlock`, `Rename`, `Reuse`), `Verify`, and the
installer's session with `Answer` and `RetryInstall`. Android's installer is external.

**DeviceCredential.** Attempts of the Send button are threads (`Ensure`, `StoreToken`, `Discard`, `TriggerArrives`,
`ReceiveTriggerAnswer`); posters are other requests. An enrolment request stays in `requests` until the server handles
it (`Enrol`), also when the handset has given up on it (`GiveUp`). The store, what of it has reached the disk
(`flushed`, by `Persist`), and the input field of an activity that may be recreated are separate state; `Die` leaves the
disk and the requests. `TypeIn`, `SaveField`, `TapRefused`, `ClearJournal` are what the operator does to field and store besides
sending. `trusted`, `displaced`, `unanswered`, `leftOver` are history.

**SendStatusLine.** `TapAlert`, `SendBatch`, `Attribute`, `Look` and `Post` are the attempt's thread; `RefuseTap` is a tap
that writes the line and returns before it becomes an attempt; `Finalize`,
`Publish`, `Resume`, `Open`, `Leave`, `Destroy` the main thread.

**SmsSegmenter.** A body is a sequence over five kinds of UTF-16 units, which is all the code
tells apart; `Take` and `Close` are the two splitting loops. The limits are constants.

**ConsoleSession.** A request carries the generation and the token it was begun with; `Serve` is the
server's check; the answer is applied, dropped, or locks (`Applies`, `LocksConsole`) as the hook does
for a first load, a reload, an action, an import and a page's own request.

**EmailAccounts, EmailHealth.** Two operators' PUTs in two steps (`BeginPut` reads the password it
may keep, `CommitPut` writes); the probe's tick reads primary, then fallback, then signs in to each;
its result goes to the registry unless it was stopped.

**Readiness.** Pages that find the catalogue empty seed it (`SeedLooks`, `SeedInserts`: the check is
outside the transaction); every edit is `SendChange`, `ServeChange`, `ChangeAnswered` and a reload of its own,
and all of these overlap. The field run exists in one page: `RecordObservation`, `ImportReport`,
`Decide`; `goOffered` is the button as last drawn. A sign-out is ConsoleSession's and not repeated here;
a gate's row and a setup item's are the same kind of row. The suite checks it as two parts, the edits and the field
run, each with the first loads; what they share, the state of those loads, is in both.

## 3. The runs

| Run | Configuration | Distinct states | What it shows |
|---|---|---|---|
| `safety` | `CasOutbox_safety.cfg` | 570 000 | `AbandonedOnlyWhenExhausted`, `SentOnlyIfTaken`, `StoodDown`, `JournalAgrees`, `VerdictByNewestClaim`, `SentIsFinal`, and that the outbox implements `AlertPromise` (`KeepsPromise`) |
| `settles` | `CasOutbox_settles.cfg` | 62 000 | `EveryAlertSettles`: every gateway alert of an open incident is sent, abandoned or withdrawn in the end |
| `stuck` | `CasOutbox_stuck.cfg` | violation | `NoStuckRow` fails: finding 1 |
| `incident_one` | `CasIncident_one.cfg` | 400 000 | `OneActive`, `EveryTriggerCounted`, `HiddenOnlyByPractice`, `FixMovesBackOnlyByStaleRead` |
| `incident_swallowed` | `CasIncident_swallowed.cfg` | violation | `RepeatJoinsActive` fails: finding 2 |
| `watch` | `LocationWatch_watch.cfg` | 490 000 | `ResolvedPushWins`, `NewsEndsItsOwnWatch`, and `WatchEnds` although no push is relied upon |
| `device_requeue` | `DeviceReceipts_requeue.cfg` | 4 700 000 | `SentInItsCycle`, `NothingForgotten`, with two sending threads around a re-queue |
| `device_roster` | `DeviceReceipts_roster.cfg` | 119 000 | `SentMeansTexted`, `SendIsReported`, with two recipients and two mishaps |
| `device_double` | `DeviceReceipts_double.cfg` | violation | `NoDoubleText` fails: finding 3 |
| `capture` | `EvidenceCapture_capture.cfg` | 1 230 000 | `LandedIsNotAwaited`, `SerializedUnlessRefused`, `StagedIsKept`, `StartedWasAccepted`, `StoredTwiceOnlyUnanswered`, `WorkIsSettled` |
| `services` | `MCServices_services.cfg` | 1 930 000 | one property for each of eight parts, below |
| `sessions` | `MCSessions_sessions.cfg` | 1 370 000 | one property for each of seven parts, below |

Each property's comment states it in words. A part of a suite has one property, the
conjunction of what its module states by name:

| Part (states) | Property | Conjuncts |
|---|---|---|
| `ProviderDelivery` (600 000) | `DeliveryIsHonest` | `SentIsHonest`, `LedgerNamesAcceptor`, `CopiesNeedMishaps`, `ReceiptNamesAcceptors` |
| `SmtpSession` (180) | `DialogueIsSafe` | `EndIsTruthful`, `NothingInClear` |
| `PushFanOut` (140 000) | `WakesFindTheirHandset` | `BelievedMeansReachable`, `RevokedIsNotWoken`, `OnlyDeadTokensDropped` |
| `BurstAlert` (570 000) | `AttackIsReported` | `EveryCrossingIsABurst`, `CheckStaysDown` |
| `RetryTiming` (22 000) | `WaitsAreKept` | `HintIsKept`, `WaitIsBounded` |
| `SchemaBootstrap` (6 000) | `BootIsSound` | `ServesItsSchema`, `RecordsAreHonest`, `RefusalHasReason` |
| `IncidentBrowser` (385 000) | `BrowserShowsTheRecord` | `SelectionConcludes`, `DeletedLeavesList`, `GoneIffNotedOnce` |
| `DeliveryWarnings` (210 000) | `AlarmIsTrue` | `AlarmIsRaised`, `AlarmClears` |
| `AppUpdates` | `UpdatesAreSound` | `JournalProvesConsent`, `OnlyPinnedBytesInstalled`, `PinNeverGoesBack`, `HandOffConcludes` |
| `DeviceCredential` (201 000) | `CredentialIsKept` | `EnrolmentIsTrusted`, `ValidLostOnlyToOldAnswer` |
| `SendStatusLine` | `LineIsTrue` | `FinalWins`, `NoMisattribution`, `FinalIsNotMissed` |
| `SmsSegmenter` (3 900 bodies) | `SegmentsAreTheBody` | `EverySegmentFits`, `NothingLostOrTorn` |
| `ConsoleSession` | `SessionIsSealed` | `FreshCredentialUnseals`, `LossLocks`, `ImportStaysInSession` |
| `EmailHealth` | `MailboxesAreWatched` | `TypedPasswordInUse`, `RotIsReported`, `StoppedIsLast` |
| `Readiness` (315 000) | `ReadinessIsEarned` | `GoIsEarned`, `OwnChangeShown`, `CuratedStands` |

`PROJECT.json` lists one mutant for each property of a run. The modules define a mutant for
each conjunct as well; put in its place, each makes TLC find that conjunct violated.

Every run ends within four minutes. The runs list no type invariants: those of every module
with a proof are part of its inductive invariant, and the others' `TypeOK` is the inventory of their variables.

### Bounds, and why they are enough

* `safety`: two workers, so that one takes a row over from the other and both
  complete late; one gateway and one device row; three attempts (the code's 8), which
  is the least in which a row is claimed, retried, taken over and exhausted; two
  re-queues, so that a superseded cycle's receipt meets a newer cycle; two crashes.
  `AttemptCap` is above the limit because takeovers count attempts past it.
  The proofs of section 5 remove these bounds.
* `settles`: two incidents, one after the other, so that the second one's rows
  start while the worker still holds the first one's; two crashes.
* `incident_one`: three handsets, so that a third trigger is waiting for the lock
  while two others overlap a resolve; four rows, so that an alert may be followed by
  practice records and by another alert; two capture times.
* `watch`: two incidents (the watched one and its successor), a second
  phone that can open one, one timer chain, one capture, one death. One capture
  time: which fix is newer does not influence when the watch ends.
* `device_requeue`, `device_roster`: two sends and a re-queue, or one send to two recipients
  with two mishaps (death, failed write or late request); one part per text, as parts
  are counted like recipients. Two sends to two recipients at once are beyond a run
  of five minutes.
* `capture`: one request that both paths pick up, three start commands (the trigger's and
  one of each path), one clip, one fault of any kind at any point, a save of a blank server URL among them. One clip means
  that the uploader's loop over several pairs is not exercised, and one request that
  `PickupLimit` is not.

* `services`: two delivery workers and two recipients, so that one is delivered before a
  takeover and one after; two mailbox hosts, one edit, one restart. Two replicas at a burst threshold
  of 2 and four rejections, so that two bursts fall to different processes. Two builds of two
  releases and five starts, so that a boot meets another one's half and a dead one's rest. Two alerts of one
  clip each, three detail loads. One pending row, waits of one poll period, three periods: raise,
  cure, clear. `RetryTiming` has the source's milliseconds; its header values are a past date, none, half a minute
  and more than the cap. Workers, mailbox hosts and replicas are interchangeable (SYMMETRY; no
  liveness is checked there).
* `sessions`: two downloads of two builds; two attempts against two credentials and one new activity, of a rotation
  or of a new process: enough for a request given up to be handled after a later enrolment, and for a death between
  the writes of one enrolment to be followed by the next; two attempts and two activities for the status line; two overlapping console requests across
  one sign-out; two operators and two edits; two pages with two edits, and a field run of two gates and four clicks.
  The segmenter's limits are 4, 3, 3 and 2 instead of 160, 153, 70 and 67, and bodies have up to
  five units: the loops depend on the limits only by comparison, and a pair falls on every position of a segment.

Deadlock is checked in the LocationWatch, EvidenceCapture and CasIncident runs.
The others stop when their work is done and the bounds are used up, and switch it off.

### Fairness

* Outbox (`Fairness` in `CasOutbox`): the worker's interval timer keeps claiming and a
  tick takes every claimable row (strong fairness of the claim, because crashes and
  cooldowns make it come and go); provider calls end because they time out; begun
  transactions end; time passes. No responder acts and no crash is owed.
* Watch (`WatchFairSpec`): the periodic timer fires and captures end; a capture yields a
  fix infinitely often if it is tried infinitely often; a post tried again and again
  is handled and answered. Nothing is assumed of pushes, movements or the 60 min cap.
* Device SMS: threads run, the watchdog of a batch fires unless its process dies
  first (strong), the owner opens the app again and again (`onResume` starts recovery
  and the receipt retry), a receipt posted again and again is handled. Mishaps are finite.
* Evidence: the owner opens the app again and again (this starts a poll and an upload),
  threads run, the server handles what reaches it. Faults are finite.

* Updates and mailboxes (`SessionsFairness`, which is `UpdFairness` and `HealthFairness` for the part that moves): threads run and
  Android's installer answers a committed session; the probe's timer fires, a tick's sign-ins end
  because they time out. The owner's taps are not owed.
* The other parts of the suites state safety only.

## 4. Findings

Three runs end in a counterexample to what a comment of the repository says;
`PROJECT.json` quotes the lines.

1. `stuck` (`cas.ts:1318`). Re-queue locks the outbox row but only reads its
   incident. A resolve that commits in between withdraws nothing, and the re-queue then
   leaves a QUEUED row on a resolved incident, which no query hands out.
2. `incident_swallowed` (`cas.ts:1025`). A resolve that commits between a repeat
   trigger's SELECT and its UPDATE: the trigger is counted in a closed
   incident, nothing is queued, and the handset, told "reused", texts nobody.
3. `device_double` (`DeviceSmsSender.kt:311`). "Check re-queued" between the trigger's
   answer and the alert thread's first durable batch: responders get the text twice.

Other behaviours the models have, which no kept run is about:

* With two server processes and provider calls that outlast the lease, each takes the
  row over from the other before it can be declared exhausted (`cas.ts:1457`), and a
  rejected alert is tried for ever; the comment on `MAX_DELIVERY_ATTEMPTS` (`cas.ts:168`)
  says it cannot be. `settles` has one process for this reason.
* A delivery under way while its row is withdrawn turns it into SENT (`cas.ts:1627`), journaled;
  the comment at `cas.ts:1189` says it cannot. `AlertPromise` therefore lets a withdrawn
  alert become sent if it was taken.
* A repeat trigger that compared its fix with a stale read moves the position
  backwards in time (`cas.ts:1025`); `FixMovesBackOnlyByStaleRead` states exactly that window.
* A practice record made during an alert takes its place on the console
  (`cas.ts:342`); `HiddenOnlyByPractice` says that nothing else does.
* The answer to a post of the previous incident becomes the anchor of the present watch
  (`LocationWatchdog.kt:226`), and a capture that ends after a restart of the watch arms a second
  timer chain (`LocationWatchdog.kt:73`).
* Recovery works from a snapshot: a batch finalized meanwhile is adopted again with its old
  counts, and its watchdog may replace a success receipt by a failure
  (`DeviceSmsSender.kt:608`). The opposite happens too: when that falls between the check of
  `finalizeIfComplete` and the removal in `finalize`, which takes the lock again (`:517`), the old record, with parts owed and
  no failures, is handed over as a success, against the comment at `DeviceSmsSender.kt:187`. `SentMeansTexted` and
  `SentInItsCycle` except exactly the sends cut short this way.
* A request one path acknowledged as failed stays FAILED when the other path's clip
  lands (`cas-evidence.ts:258`).
* Staged clips are deleted once a 401 has cleared the credential, and when the uploader comes to them while the
  server URL is blank (`EvidenceUploadCore.kt:169`), although only the server's answer was to remove them
  (its header); `StagedIsKept` excepts both.
* A death between a data file and its sidecar leaves a data file that nothing
  uploads or deletes (`EvidenceUploadCore.kt:113`).

* A late 409 about the previous incident takes down a newer watch, against the comment at
  `LocationWatchdog.kt:140`; `NewsEndsItsOwnWatch` excepts it.
* A capture start that is accepted and then refused its foreground in `onStartCommand`
  (`EvidenceCaptureService.kt:76`) leaves the request STARTED for ever, against `CaptureRequests.kt:56`.
* Providers: when the primary's 250 is lost the fallback mails the recipient again, and the
  ledger names the fallback (`delivery-providers.ts:707`). A retried environment send whose earlier
  attempt a console account took names the environment's host (`:638`). The HTTPS gateways never use the ledger, so a change of
  path between gateway and mailbox repeats an alert. `CopiesNeedMishaps` and
  `ReceiptNamesAcceptors` name these.
* Push: a handset whose credential was revoked and which enrols again keeps its
  "token registered" mark and is not woken until Firebase rotates the token (`CapturePush.kt:96`); so is one whose row was
  rotated while a dispatch was deleting it by id (`cas-push.ts:280`).
* Credential: when the trigger POST after a fresh enrolment gets no answer, the enrolment is not reported to the
  activity, the field keeps the enrolment credential (`MainActivity.kt:469`) and the next tap stores it again; after a
  revocation it enrols by itself, against the comment at `AlertSender.kt:217`. So does a handset whose process died
  before the discarding (`AlertSender.kt:258`) had reached the disk. A request given up after 10 s and handled later
  issues a credential nobody holds. Clearing the journal, or a death before the token is on disk, costs the
  handset a valid one.
* Status line: a batch that becomes final between the attempt's look at the tracker and its posted summary is
  covered by "awaiting radio results" (`MainActivity.kt:563`); a refused tap's NOT_SENT is replaced by the late outcome of
  the attempt before it, which still owns the line (`MainActivity.kt:403`, `:419`); attempts that overlap through a recreated
  activity take the line from each other.
* Console: `importGate0AReport` applies its answer without comparing generations, against the comment at
  `use-field-test.tsx:331`; a state read before a refusal and answered after it undoes the lock;
  a page's own 401 locks nothing.
* Burst alert: the last burst is each process's own, so one replica's recovery ping can raise the check in an
  attack another one sees; a ping given up may arrive late, against `cas-auth-burst-alert.ts:121`.
* Updates: overlapping downloads share the `.part` file and the journal; the promise of
  `UpdateManager.kt:126` holds without overlap only.
* Schema: a death between two of the baseline's inserts (`db-schema-ensure.ts:401`), or a
  baseline stamped on a later release's push (`:387`, although "Only an exact match is stamped"), leaves a
  database whose migrations fail for ever; `RefusalHasReason` names exactly these two.
  The first needs a journal of two migrations, and the repository has one so far.
* Warnings: a tick's error stays until the process ends, whatever later ticks do, and a re-queued
  row is as old as the row, so both warnings outlast their cause (`outbox-status.tsx:10` promises silence while the
  pipeline is healthy); `AlarmClears` names these two. A status request without an answer stops the page from drawing anything new.
* Evidence browser: an answer read earlier may arrive after a later one and list a deleted clip again.
* Readiness: "Call it GO" is enabled when no gate is listed, as after a seed that failed, whose answer nobody looks
  at: none of none is recorded (`gates.tsx:28`). A GO may be clicked on a page not yet drawn after an import's
  answer. A reload replaces gate statuses that `recordObservation` set in the page only.

Hazards beyond the forty `PROJECT.json` lists, with the property that covers each:

| Where | What | Covered by |
|---|---|---|
| `LocationWatchdog.kt:73` | a capture thread re-arms the timer of whatever watch runs when it ends | nothing forbids it |
| `EvidenceUploadCore.kt:113` | a death leaves a data file without a sidecar | nothing promises its removal |
| `cas-evidence.ts:256` | a clip lands for a request already FAILED | `LandedIsNotAwaited` states what is promised |
| `DeviceSmsSender.kt:608` | recovery adopts a batch finalized meanwhile | `SentMeansTexted`, which excepts one window |
| `delivery-providers.ts:707` | the primary's 250 is lost | `CopiesNeedMishaps` |
| `CapturePush.kt:96`, `cas-push.ts:255` | the handset's belief is stale; a credential is revoked before a dispatch | `BelievedMeansReachable`, `RevokedIsNotWoken` |
| `cas-auth.ts:241` | a threshold crossing seen by two replicas or none | `EveryCrossingIsABurst` |
| `AlertSender.kt:229` | two threads enrol at once | `EnrolmentIsTrusted` |
| `AlertSender.kt:244` | the server handles an enrolment request given up long before | `EnrolmentIsTrusted`, which lets it issue a credential nobody holds |
| `AlertSender.kt:253` | the process dies between the writes of an enrolment | `EnrolmentIsTrusted`, `ValidLostOnlyToOldAnswer`, which name it |
| `MainActivity.kt:567` | the summary overwrites the final outcome | `FinalWins` |
| `MainActivity.kt:663` | consent line and download are different threads | `JournalProvesConsent` |
| `cas-config.ts:356` | an empty password keeps the one read before the transaction | `TypedPasswordInUse` |
| `use-field-test.tsx:476` | an import outlasts its session | `ImportStaysInSession` |
| `use-field-test.tsx:495` | overlapping edits and reloads of one page | `OwnChangeShown` |
| `gates.tsx:70` | GO is judged by what was last drawn | `GoIsEarned` |
| `incidents.tsx:103`, `cas-evidence.ts:393` | refetch against reload; two deletions of one clip | `DeletedLeavesList`, `GoneIffNotedOnce` |
| `db-schema-ensure.ts:387`, `:427` | a baseline outgrown; two boots at once | `RefusalHasReason`, `RecordsAreHonest` |
| `cas-outbox-status.ts:70` | an error outlasts its cause | `AlarmClears` |
| `cas-evidence.ts:164` | the capture policy is saved as a whole and reverts another console's settings | not modelled: last writer wins by design |
| `CapturePolicy.kt:56` | overlapping fetches cache the older policy last | `EvidenceCapture` captures or not by a free choice |
| `CaptureRequests.kt:42` | a requested capture uses the cached policy, although `capture.tsx:106` says a change counts from the next contact | what one capture records is abstracted |

## 5. The proofs

TLAPS checks 15,784 obligations in eight modules; no step is left out. Every invariant and every action
property of the passing runs is a theorem, but for the liveness: of `UpdatesAreSound` and `MailboxesAreWatched` the
safety conjuncts are theorems of their own and `HandOffConcludes` and `RotIsReported` stay with TLC.
The theorems hold for every value of the constants that satisfies the named ASSUMEs of the modules:
bounds are natural numbers, transports of gateways and handset are disjoint, limits are
positive, identities are different from each other and from "nobody", and what a module counts (workers of
`ProviderDelivery`, gates of `Readiness`) is finite. Each proof has the same three parts: the inductive
invariant holds at first, every action keeps it (a lemma per action or group of actions), and it implies
the property; an action property is in addition a lemma about the steps. Every invariant below was first
checked by TLC on the constants of its run.

**The outbox** (`CasOutbox_proofs`). Type correctness is inductive alone. The safety
properties are not: that a row is dead-lettered only at the limit depends on the
attempts value the worker remembers, so the invariant `IndInv` adds

* `ClaimsFenced`: a worker that still owns the row remembers the row's attempts value;
* `AcceptanceSeen`: a worker about to record an acceptance saw one;
* `RequeuingAbandoned`: a row in a re-queue transaction is DEAD_LETTER;
* `NoRowsBeforeTrigger`, `OnlyGatewayClaimed`: rows exist and are claimed only as they should.

`IndInvNext` has one lemma per group of actions (incident routes, worker, row). The
action properties `SentIsFinal` and `VerdictByNewestClaim` follow from `IndInv` and the shape of
the steps. **The refinement**: under `IndInv`, every step of the outbox is a step
of `AlertPromise` or leaves its state alone. The mapping is `Verdicts`, `ClosedIncidents`,
`CallsUnderWay` and `accepted`; most lemmas say which parts of it a step leaves unchanged.

**The incident record** (`CasIncident_proofs`). `OneActive` needs that a trigger which found no
active incident still finds none when it commits: `ReadIsCurrent`, which holds because
the advisory lock (`OneTrigger`) excludes the only other action that opens one; the
same conjunct carries the count it read, which is why no trigger is lost. `RowsInOrder` and
`AlertsWereTriggered` tie rows to their history. `HiddenOnlyByPractice` needs one more
invariant, `OnlyPracticeAfter`, proved on top; `FixMovesBackOnlyByStaleRead` is a step lemma.

**The watch** (`Handset_proofs`). Every step of the composition is a step of the incident record
(`WatchImplementsIncident`), so `IndInv` of that module is taken over as it is. `ResolvedPushWins` then needs
that the handset deals with real alerts only (`HandlesAlerts`), which are over when they are not active, and that
whatever tells it of an end, under way or remembered, is true (`NewsIsTrue`).

**Device SMS** (`DeviceReceipts_proofs`). A batch exists up to four times, on disk, in memory, in the hands
of a thread that finalizes it and in the plan of a recovery, and after a failed write or a death these differ.
`CopiesAgree` is about every copy: none is more optimistic than what was texted, though an old one may owe what another has settled.
`ReportsAreTrue` carries this to the receipts and posts, `TokensMinted` and
`AnswersAreFinal` to the console's cycles; a batch is handed over with nothing owed or is cut short (`HandedIsOver`);
`DispatchedOnce` ties dispatch loops to batches, and `NothingForgotten` is inductive with them.

**Evidence** (`EvidenceCapture_proofs`). `SerializedUnlessRefused` and `StagedIsKept` depend on where each start
command is: `MonitorHeld` and `WorkersInOrder` say that an accepted start holds the service's monitor until its worker ends.
`ClipsAreCaptured`, `KnownRequests`, `AcksAreTrue` tie what the console shows to what was recorded, `RemovalIsFinal`
and `UploadsAreAwaited` what leaves the disk to what the server answered. The number of stored copies is proved to be a
natural number only: its bound in the run comes from the bounds on faults.

**The server's parts** (`Services_proofs`). `WaitsAreKept` is arithmetic over the source's milliseconds and inductive with its types.
`DialogueIsSafe` needs where a dialogue stands: TLS exactly beyond its step, the message taken exactly beyond its own.
`AttackIsReported` needs two invariants: the streak's crossings are its quotient by the threshold (`CrossingsAreCounted`), and the
last ping of a replica that is in a burst is the failing one (`FailHasLastWord`). `BootIsSound`
needs that what a process has found still holds while it has the lock (`HolderHasLock`, `FindingsHold`) and that only
unrecorded tables drift (`RecordedExists`, `DriftIsUnrecorded`, `RecordsAreComplete`). `TypedPasswordInUse` needs where the password of a save
under way comes from (`SavesAreSound`), `StoppedIsLast` that a tick has the guard up and the stop was recorded with it down (`StopIsAwaited`).

**Deliveries** (`Delivery_proofs`). `WakesFindTheirHandset`: a row the dispatch is about to delete is
an old one unless its token was rotated under it (`StaleIsOld`), a registration under way carries the
present token or an outdated one that the handset will not believe (`PutsAreCurrent`). `DeliveryIsHonest`: `JobsAreSound` says what a worker knows in each
step of a send, `DrillsOnly` that a recipient only the sink reached is known as one; `CopiesArePaid` is an account for each recipient: copies, and attempts that
may still become one, never exceed the excuses and one. It must count the workers that are at the recipient at the
same time, which is why they are finite.

**What people see** (`Console_proofs`). `LineIsTrue` needs who owns the line and what the attempt saw when it looked (`OwnerIsNewest`,
`LookIsRight`, `SummaryIsLast`, `SeenOrShown`). `SessionIsSealed` follows from what a request under way carries
(`RequestsAreSound`) and from `LossIsLocked`. `BrowserShowsTheRecord`: `SelectionIsServed` (a load that is not
cancelled is of the selection), `RefetchFollows`, and `ReadsAreLate`/`ShownIsLate` for the order of answers. `AlarmIsTrue` is about time: what the page heard in this period and in the one
before (`HeardNow`, `HeardBefore`), and when something was last ill (`IllIsNoted`). `ReadinessIsEarned`: a page that
does not show its newest answered edit has a reload under way that will read, or has read, a state that includes it
(`ReloadPending`); a GO has a pass for every gate because as many observations as gates, all of them gates, are all gates.

**The credential and the segments** (`Handset_proofs`). `CredentialIsKept`: until the property's exceptions happen, one attempt
runs at most, and whatever holds the enrolment credential - field, storage, attempt - has it from somebody who typed it
in since the last enrolment, or waits to be cleared by the attempt that used it (`OneHolder`); a 401 under way is for a credential that is revoked (`ThreadsAreSound`).
`SegmentsAreTheBody` holds for bodies of any length and all limits of at least 2: the size of the segment under way is the
number of its units and escapes (`UnderWayFits`), where the body is cut no pair is divided (`MayCut`), and
what is finished fits (`FinishedFit`). Sizes are cardinalities, so the one lemma the loop needs is that one more unit adds
its cost (`SizeOfOneMore`).

**The updates** (`Handset_proofs`). That what is offered never goes back needs that one of the published builds is the
highest (`HighestIsThere`): the maximum of a finite set exists by induction over the set, which is out of reach, but
as an invariant it follows from publish to publish. The two `~overlap` properties share one invariant, `Calm`: one thread runs at a time and
none while the consent line is open (`OneAtATime`); the journal has the consent until the result's beat uses it up (`ConsentIsNoted`); a
`.part` belongs to the thread that fills it, a pin that is being fetched has no file yet, and the file of a pin whose thread is
past its check has the pinned bytes (`FilesAreApart`). The retry of an earlier session reads the file again while a
later thread may run; that it still finds the verified bytes is `HandedIsVerified`: a thread fetches only a pin that has
no verified file, and whatever waits for the installer has one.

Only model-checked: every liveness property (fairness and ENABLED are outside what the prover does); the counterexamples.

## 6. What is not modelled

* Time, except in `RetryTiming`, and as a count of intervals in `BurstAlert` and `DeliveryWarnings`. Leases,
  backoffs, cooldowns and watchdogs run out at some point. What depends on lengths is named above (the
  marker's lifetime, the frequency cap, provider timeouts against the lease).
* Message texts, masking, journaling on the handset, validation of inputs, rate limits. The template
  editor's segment count is one such text computation.
* Providers, Android and FCM, beyond what the code relies on or must survive.
* Offline sends (no incident, no receipt).
* Configuration, message and roster routes: single statements whose last writer wins. `ProviderDelivery` lets
  roster and accounts change while a row is being delivered, which is where they matter.
* The capture policy and the covered-lens check: one cached row, and a statistic over pixels.
* The rest of the console's pages and component library, generated clients, the mockup sandbox, the handset
  shell, build and review scripts, and the development stubs. They make up most of the repository's lines, hold no
  protocol state, and a model of them would restate their layout. This bounds the share of the
  source the map covers; the routes, workers, stores and hooks that change shared state are in it.
* In the modelled parts: overlapping push dispatches and polls beyond `MaxPolls`; the
  tracker's memory of 16 outcomes; a burst after `stop()`; an odd 2xx reply to the message body; the device list of the credentials
  page; pages' own catch paths.

## 7. Plan

The modelling plan is carried out: what is left is listed in section 6. So is the plan of proofs: the safety of every
component is proved. What could be added is refinement beyond the outbox and the watch: an abstract specification of
evidence (captured, stored once, or reported as refused) or of a device SMS (a receipt says at most what was
texted), with the existing invariants as the proof's substance.
