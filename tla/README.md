# PrintOps, specified

TLA+ modules for the parts of PrintOps where order matters: what becomes of a
print job, of the document kept for it, of the queue it waits in, and of the
records that people are charged and warned by. Everything is translated from
the source at this commit; the file named with each part is the reference, and
`PROJECT.json` maps each definition to its lines.

## 1. The system

PrintOps is a print server: CUPS with a backend of its own, a FastAPI service
with a database, and a web front end. One API process runs the request
handlers and, as asyncio tasks, a dozen loops. Outside of it there are the
backend processes cupsd starts (one for each attempt at a job), the update
watcher, and two relays.

| Component | State it keeps | Operations | Hard behaviour | What makes it correct |
|---|---|---|---|---|
| Job table, document spool (`models/job.py`) | job rows, `/var/spool/printops-held` | none of its own | database and directory are not in one transaction | a held row has its document |
| Held jobs (`routers/held_jobs.py`, `routers/release.py`, `held_jobs/service.py`, `printers/offline_holds.py`, `printers/release.py`) | hold status, reason, expiry | release by an admin, release at a kiosk, discard, cancel of a failed release, automatic release | reads before a 30 s `lp`, writes after it; seven writers for one row | a document is neither lost nor printed twice, and is removed in the end |
| Purge loops (`main.py`) | none | expire holds, delete old failures | delete files that others are using | only what is due is removed |
| CUPS backend (`infra/cups/backends/printops`) | its process | create, spool, deliver, report; a signal handler | cupsd kills or restarts it anywhere; replies get lost | each attempt leaves a row that says what happened |
| Job API (`routers/jobs.py`) | job rows | create (and supersede earlier attempts), update, cancel | reports late, twice, never | a job is counted once |
| cupsd control (`printers/job_control.py`) | none | look up, cancel, purge | numbers are reused, answers time out | acts on the job that was meant |
| Reconciliation (`printers/job_reconcile.py`) | none | a sweep over stuck rows | writes minutes after it read | every row is resolved, none wrongly |
| Printer registry (`routers/printers.py`) | printer rows, queues | archive, unarchive, delete, purge | jobs in flight on the printer | rows and queues stay consistent |
| Hold decision, quotas (`quotas/service.py`) | none | decide a hold reason | period boundaries | first matching reason, in order |
| Printer status, queue recovery (`printers/status.py`, `queue_recovery.py`) | recorded status in rows, backoff in memory | probe, debounce, resume a stopped queue | flapping devices, two checks of one printer, a restart | backoff bounds the resumes; a queue does come back |
| Queue building (`printers/queue_sync.py`, `discovery.py`, `routers/printers.py`, the sync scripts) | address in the row, URI in the queue, last error | edit, discover, resync, follow a device that moved | the script asks the API what the address is, before its caller has committed | the queue sends to where the row says |
| Notifications (`notifications/`) | condition rows, events, attempts | observe, clear, deliver, edit channels | two observers, rollbacks, retries, partial success | one event per episode, delivered or given up |
| Print queue page (`routers/print_queue.py`) | remembered priorities | yield, restore | memory that is lost with a restart, two tabs | nobody gets further forward than submitted |
| Updates (`routers/updates.py`, `infra/update-watcher`) | schedule rows | schedule, cancel, report | two writers, reports that are lost | a row that blocks others is being worked on |
| Copier user sync (`copiers/sync_jobs.py`, `konica_bizhub.py`) | sync jobs, provisioned accounts | start, plan, write, record | two starts, a session that breaks, a death | the record of who holds an account is true |
| Copier counters (`copiers/account_counters.py`) | readings, usage | poll, charge | a poll waits minutes for the copier; accounts cleared or given away | what is copied is charged, once |
| Owner of copies (`copiers/device_owner.py`) | watermark | name an owner, credit, purge readings | reset meters, purged readings, a naming while a run is at work | no owner pays for copies made before |
| Log imports (`routers/copier_imports.py`) | batches, their files, records | upload, preview, commit, delete | overlapping logs, repeated commits | a line is counted once |
| Page reconciliation (`printers/page_reconcile.py`) | counter readings, verdict, warning | round, sweep, warn | failed rounds, walk-up copies, stale readings | an alarm is earned and fresh |
| Ink coverage (`coverage/worker.py`, `spool.py`) | coverage rows | batch, match, measure | numbers given out again, documents that expire, a backlog | each job gets its own ink, or a reason |
| Attribution (`attribution/resolve.py`, aliases, overrides, `google_workspace.py`) | aliases, overrides, names in job rows | resolve, add, replace, backfill | jobs logged while aliases are replaced | a known name is never left unresolved |
| Reporting periods (`reports/periods.py`, `routers/settings.py`) | calendar, pattern, stated years | edit, override, resolve | two editors, a year boundary | a day lies in one term, a key means one term |
| Rate limiting, capability discovery, queue stall, other integrations, reports, relays, front end | see section 6 | | | |

The parts talk to each other through the job table (every one of them), HTTP
(backend and watcher to API), scripts run with sudo (API to cupsd), `ipptool`
and `lpstat` lookups, and signals (cupsd to backend). There is hardly
any locking: a conditional UPDATE in `discard_hold` and another in
`notifications/conditions.py`, a lock in memory around the automatic resync, one
around a copier's admin session, and what the database makes writers of one row
wait for.

`PROJECT.json` lists every component, those that are not modelled too, and the
hazards of the code, each at its line.

## 2. Modules

```
JobTable ------------- the rows, the spool, the fleet
  |-- HeldJobs ------- custody of held documents        MCHeldJobs
  |     |-- HeldCustody ----> implements DocumentCustody
  |     `-- HeldJobs_proofs   (theorems)
  `-- JobDelivery ---- attempts, reports, sweep, cancel  MCJobDelivery
        `-- JobDelivery_proofs

PrinterStatus, Conditions, Delivery ----- MCNotices
Updates, PrintQueue, QueueSync, CopierSync, CopierUsage, DeviceOwner,
CopierImports, PageReconcile, InkCoverage, Attribution,
ReportingPeriods ------------------------ MCServices

Notices_proofs    extends MCNotices   (PrinterStatus, Conditions, Delivery)
Copiers_proofs    CopierSync, CopierImports, CopierUsage, DeviceOwner
Pages_proofs      InkCoverage, PageReconcile
Admin_proofs      PrintQueue, QueueSync, Updates, ReportingPeriods, Attribution
Services_proofs   extends MCServices, Copiers_proofs, Pages_proofs, Admin_proofs
Sums              finite sums, for the proofs of Delivery, InkCoverage, PageReconcile
```

**JobTable** holds the columns that decide what happens to a job, and what a new
attempt does to the rows of earlier ones (`EarlierAttempts`, `Supersede`). Ids are
numbers in order of creation, so `<` is the order of `created_at`. Time is not a
clock: `age` counts the deadlines of a row's current status that have passed
(`held_expires_at` for a held row, 48 hours for a failed one, 30 minutes and
2 hours for one still forwarding), and `Closed` starts a new count as the code
does by writing `completed_at`.

**HeldJobs** has one record for each thing that can be in progress: `task` for a
request, `sweep` for an automatic release, `expiring` for a purge. A handler is
cut where the code awaits or where a write becomes visible to others:

| Code | Actions |
|---|---|
| `release_held_job`, `release_job` | `AdminRelease`, `KioskRelease` (read), `SubmitRelease` (`lp`), `CommitRelease` / `CommitReleaseError` |
| `discard_hold` | `ReadDiscard`, `ClaimDiscard` / `LoseDiscard`, `UnlinkDiscarded` |
| `release_jobs_waiting_for`, from the status loop and from check-status | `StartPoll` / `StartCheck`, `SelectWaiting`, `SubmitOldest`, `UnlinkReleased`, `CommitSweep` |
| `_held_job_purge_loop` | `ReadExpired`, `CommitExpired` |
| `_failed_job_purge_loop` | `PurgeFailed` |
| `cancel_job`, of a release that failed | `ReadCancel`, `CancelFails` / `WriteCancelled` |
| `create_job`, `_supersede_earlier_attempts` | `HoldArrives` (with the hold that follows), `AttemptArrives` |
| printer routes | `ArchivePrinter`, `UnarchivePrinter`, `DeletePrinter` |

The end of an automatic release is one transaction, as in the code: if one of
its rows was deleted the flush fails and none is written.

**DocumentCustody** is what the component promises: a document is destroyed only
after it was handed to CUPS, after custody of it was given up, or when it is
due; what was destroyed is never handed over again. **HeldCustody** maps the
tables to it: a row that was ever held (it has a hold reason) was taken in, the
spool is what is kept, a row whose document is not there has lost it, a cleared
`held_file_path` is custody given up. A hold may supersede a failed one as it is
taken in, whose document is due no more.

**JobDelivery** has cupsd (external: modelled from how the code uses it), one
backend process for each print job, the reports on their way (`patches`),
cancel and purge requests (`admin`), and the sweep (`recon`). A backend's `pc`
is what it waits for. `Signalled` is the signal it attends to next: before the
handler is installed it just dies, afterwards it reports "cancelled", also while
its final report is on its way. A report that is not answered may still be
handled later, in any order. `printed` is a history variable: the rows whose
attempt put the document on paper.

The services beside the print path have a module each. In all of them a session
that loads a row, waits, and commits later is one record of what it has read;
the actions are the read, the waits and the commit, and a commit writes what the
code writes, whatever others have written since.

| Module | Actions (code) |
|---|---|
| **PrinterStatus** | a check loads the row (`CheckProceeds`), asks the device and cupsd (`LoopIsAnswered`, `CupsdAnswers`), decides whether the queue is to be resumed (`SkipRecovery`, `NothingStopped`, `DeviceNotReady`, `NotDueYet`, `StartResume`, `ResumeSucceeds`); the device and cupsd change as they like; `ApiRestarts` loses the backoff, which both checkers share |
| **Conditions** | `SessionStep` is `observe` or `clear` up to the next wait: `Look`, which for an immediate kind (a quota) happens only when the condition is met, and `SessionProceeds`; `RollBack` undoes a transaction with what it claimed; `ConditionChanges`, `SettingChanges`, `SettleTick` |
| **Delivery** | a pass: `StartPass`, `Judge`, `SendSucceeds` / `SendFails` / `SendRefused` / `SendRaises` for each channel, `CommitPass` / `CommitFails`; `ProcessDies`; `UpdateChannel`, `DeleteChannel`, `UpdateNotificationSettings` in the middle of it |
| **Updates** | schedule, cancel and change status, each as a read and a commit; the watcher's `ReadReport`, `CommitStarted`, `ApplyUpdate`, `CommitFinished`, `ReportLost` |
| **CopierSync** | `FindNoJob` and `CreateSyncJob` apart, so that two may start; `RunStep` (session, plan, write an account, record); `SyncProcessDies`, `AccountAddedByHand` |
| **CopierUsage** | `StartCounterPoll` fixes the time, `ReadAccountCounters` reads the copier when it gets its session, `ReadReadings` the database, `CommitPoll` charges; accounts are cleared, removed and added meanwhile |
| **DeviceOwner** | sessions that may overlap: a run loads the row (`StartAttribution`), then the readings (`LoadReadings`), and commits (`CommitAttribution` / `SkipAttribution`); a naming loads the row (`LoadToName`) and commits (`NameOwner`); `ReadMeter`, `PurgeReading`, `MeterReset`, `CopyMade` |
| **PrintQueue** | `YieldJob` / `RestoreJob` (read), `SetPriority` / `SetPriorityFails`, `NotePriority`; `MemoryLost`; cupsd's jobs come and go |
| **QueueSync** | the status loop, the rediscovery loop and the requests over one printer's address: `CheckStatus`, `DiscoverAutomatically`, `RunAutomaticSync` / `SkipAutomaticSync`, `EditPrinter`, `DiscoverPrinter`, `ConfirmRedirect`, `ResyncQueue`; `ReadConnection` is the script's question to the API, `BuildQueue` its answer in the queue |
| **PageReconcile** | `StartRound`, `CounterAnswers` / `CounterIsSilent`, `SweepUnprintedPages` / `SweepFails`, `RoundFails`, and the jobs and walk-up copies that go on meanwhile |
| **Attribution** | a job resolves its user and is logged later; `ListUsers`, `ReadAliases`, `ReplaceAliases`, `CommitWriter` of a directory sync; an administrator's alias or override with its backfill |
| **CopierImports** | upload, preview, commit and delete of a batch: `OpenBatch`, `ParseBatch`, one commit action each, `ImportFails` |
| **ReportingPeriods** | `LoadCalendar` / `UpdateReportingCalendar`, `LoadYear` / `OverrideReportingYear` / `ClearReportingYearOverride`; the terms of a year, the term of a day and the term of a key are operators |
| **InkCoverage** | `StartCycle` takes a batch, `MeasureJob` / `MeasuringFails` one job of it; `JobSpooled`, `JobLogged`, `DocumentExpires`, `SpoolCleared` |

**MCNotices** and **MCServices** run several of these in one model. The modules
share no state they speak of (a condition or a poll's outcome is an input where
another module would produce it), so nothing is gained by interleaving them: a
variable `service`, chosen in the initial state, says which one takes steps.

The definitions marked "Fault:" are not part of any specification. Each is a
variant of the operation after it with a plausible mistake, and the property it
breaks is named in `PROJECT.json` under "mutants".

## 3. Runs

| Run | Instance | Shows |
|---|---|---|
| `held` | one attempt at a print job: two requests (one of them may cancel) before a crash and one after it, status loop and check-status, both purges; or two attempts: one request and the loops | the safety of HeldJobs, that it implements DocumentCustody, that a settled job stays settled (`SettledForGood`: what is left of `FirstMoverWins`), also when a later attempt supersedes it, that every hold ends and (without a crash) every document leaves the spool, but that of a failed release whose row is cancelled |
| `held_race` | two requests | **violated**: "whoever moves the row first wins" holds for discards only; a release overwrites |
| `delivery` | one job, two attempts, a cancel or purge, a restart or a killed backend, a crash of the API; or two jobs on one queue, the CUPS spool cleared, numbers not repeated | counted once and not for the other job, one failure, the trail leads on, the sweep leaves deliveries alone, a reported success stays (`ForwardedForGood`: what is left of `ReportedOnce` and `SweepRespectsReports`) |
| `delivery_live` | one job, two attempts, a killed backend | every row leaves "forwarding" |
| `delivery_lost` | one attempt | **violated**: a lost answer to the final report fails a job that printed |
| `delivery_twice` | one attempt, one restart | **violated**: a signal during the final report makes a second one |
| `delivery_sweep` | one attempt | **violated**: a report that arrives during a sweep is overwritten |
| `notices` | PrinterStatus with one checker and a restart; Conditions with two sessions and two keys; Delivery with two channels that work or raise, two events, one lost pass and one edit | a stopped queue comes back; one event per episode, and it is reported; no channel is skipped, a crash repeats one message, every event is settled |
| `services` | the eleven other modules, one at a time (`MCServices.cfg` gives each one's bounds) | `StuckIsExplained` (Updates), `RecordIsTrue` (CopierSync), `ChargesAreTrue` (CopierUsage), `CreditedFromHereOn` (DeviceOwner), `NoQueueJump` (PrintQueue), `EditReachesQueue` (QueueSync), `WarningIsFresh`, `AlarmIsEarned` (PageReconcile), `NoJobLeftBehind` (Attribution), `CountedOncePerLine` (CopierImports), `OneTermADay` (ReportingPeriods), `GapIsExplained`, `MeasuredIsOwn` (InkCoverage) |
| `owner_reset` | DeviceOwner: two sessions, one owner | **violated**: a naming restarts the watermark; a run at work puts its own over it |
| `queue_moved` | two sessions, two addresses, one move | **violated**: a queue follows its row without anyone's help |
| `period_keys` | two years, two terms, two editors | **violated**: the key of a term resolves to that term |

The seven violated properties restate a comment or docstring; `findings` in
`PROJECT.json` quotes it and says what the run reaches.

**Bounds.** Counters of the unusual (`MaxCrashes`, `MaxRestarts`, `MaxKills`,
`MaxClears`, `MaxLost`, `MaxBreaks`, `MaxLostReports`, `MaxUpsets`,
`MaxEdits`, `MaxResets`, `MaxForced`, `MaxWalkUps`, `MaxMoves`, `MaxByHand`) are
mostly one: once is enough to fall between any two steps, and a second one meets
the same kind of state, as nothing in memory survives the first. Sends that raise
are not bounded: `MaxLost` passes are counted in the history that
`CrashRepeatsOne` speaks of, and the later ones take their try back. Two requests,
sessions or loops are enough for any pair of handlers to race, because one that
has finished can start again. Two rows for one print job are two attempts;
`CountedOnce` and the others compare two rows at a time. The service bounds are
the smallest at which the case a property is about happens: three readings are
one before, one at and one after a naming (DeviceOwner); three polls are two
that overlap and one before (CopierUsage); four rounds pass a window of three
(PageReconcile); two files with one line are a log uploaded twice
(CopierImports); two attempts and a backoff of one tick are a retry and the
last retry (Delivery); a cooldown of two ticks, one doubling and a cap of two
reach the cap (PrinterStatus); a horizon of two intervals with batches of one
and three jobs lets a job fall out of the horizon because others were before it
(InkCoverage). `MaxSent = 1` in `held` distinguishes sent from not sent; what goes
beyond is the same value. Reasons: in `held` an offline printer or a quota for the
first attempt and a PIN for the second, as a kiosk's release is the step an
admin's is; in JobDelivery one (`"quota"`), as there the reason only decides
whether a row is held. `held` and `delivery` each join two instances (the
constraint `Small` of MCHeldJobs and MCJobDelivery): the many handlers around one
attempt or one job, and fewer around two. What `Small` leaves out are steps that
nothing obliges anybody to take (a job arrives, a request begins, a printer is
archived, the API dies), so that it takes no behaviour away by blocking a fair
action. Every property was also tried on a faulty variant of the code ("Fault:"
definitions) under these bounds, and fails there: the bounds are large enough for
the mistakes it is about.

`CHECK_DEADLOCK FALSE` everywhere: when all jobs are closed, the printers
deleted or a bound used up, nothing is left to do.

**Fairness.** In HeldJobs (`FairSpec`): a request that has started goes on (`lp`
is cut off after 30 seconds), the loops come round again after each sleep
whatever the last cycle raised (each catches every exception), and time passes.
Nobody has to release, discard or cancel anything, and no printer has to come back. In
JobDelivery (`FairSpec`): cupsd starts what is pending and signals what it wants
stopped; a backend does not stand still; requests end; the sweep comes round.
Strong fairness is needed for two things: a lookup is answered often enough
(otherwise a sweep may time out forever), and a row grows old although sweeps
interrupt its ageing in the model (there, a sweep works with the ages it read
when it began). In MCNotices: time passes, a check, a session, a delivery pass
once begun goes on and the loops that poll start again (weak); nobody looks at
an immediate condition of his own accord (`quotas/service.py`: "no polling path
stands behind this one"), so that `ConditionIsReported` has as a premise that
somebody keeps meeting it (`KeepsBeingMet`); probes of a healthy device
and cupsd's answers, which may each time be lost, arrive often enough, and a
resume of a queue whose device is well succeeds often enough (strong, as each
try is a new one). The device and the condition must merely stay as they are for
good: that is a premise of `QueueComesBack`, `ConditionIsReported` and
`EventIsSettled`, not fairness. `EventIsSettled` has as a premise too that no
channel that raises stays enabled. The other services are checked for safety only.

## 4. Proofs

Proved with TLAPS, for every value of the constants:

| Module | Theorem | States |
|---|---|---|
| `HeldJobs_proofs` | `TypeCorrect` | `Spec => []TypeOK` |
| | `CustodyKept` | `Spec => []HeldDocumentSurvives` |
| | `PathKept` | `Spec => []HeldHasPath` |
| | `ForwardedIsTrue` | `Spec => []ForwardedWasSent` |
| | `NotSentTwice` | `Spec => []HeldMeansUnsent` |
| | `SettledStays` | `Spec => SettledForGood` |
| | `Refinement` | `Spec => CustodySpec` |
| `JobDelivery_proofs` | `TypeCorrect` | `Spec => []TypeOK` |
| | `TrailHolds` | `Spec => []TrailLeadsOn` |
| | `CountsAreTrue` | `Spec => []CountedOnce` |
| | `FailuresAreCountedOnce` | `Spec => []OneFailurePerJob` |
| | `SweepLeavesFlightsAlone` | `Spec => InFlightLeftAlone` |
| | `ForwardedStays` | `Spec => ForwardedForGood` |
| `Notices_proofs` | `OneEvent` | `ConditionsSpec => []OneEventPerEpisode` |
| | `EveryChannelIsTried` | `DeliverySpec => []NoChannelIsSkipped` |
| | `CrashesRepeatOne` | `DeliverySpec => []CrashRepeatsOne` |
| | `NoticesTyped` | `Spec => []TypeOK` (of MCNotices) |
| `Copiers_proofs` | `RecordStaysTrue` | `CopierSyncSpec => []RecordIsTrue` |
| | `CountedOnceHolds` | `CopierImportsSpec => []CountedOncePerLine` |
| | `NobodyPaysTwice` | `CopierUsageSpec => []ChargesAreTrue` |
| | `CreditedHolds` | `DeviceOwnerSpec => []CreditedFromHereOn` |
| `Pages_proofs` | `MeasuredHolds` | `InkCoverageSpec => []MeasuredIsOwn` |
| | `GapsAreExplained` | `InkCoverageSpec => []GapIsExplained` |
| | `WarningsAreFresh` | `PageReconcileSpec => []WarningIsFresh` |
| | `AlarmsAreEarned` | `PageReconcileSpec => []AlarmIsEarned` |
| `Admin_proofs` | `NobodyJumpsTheQueue` | `PrintQueueSpec => []NoQueueJump` |
| | `EditsReachTheQueue` | `QueueSyncSpec => []EditReachesQueue` |
| | `StuckNeedsAReason` | `UpdatesSpec => []StuckIsExplained` |
| | `DaysBelongToOneTerm` | `ReportingSpec => []OneTermADay` |
| | `NobodyIsLeftBehind` | `AttributionSpec => []NoJobLeftBehind` |
| `Services_proofs` | `ServicesTyped` | `Spec => []TypeOK` (of MCServices) |
| `Sums` | `SumOfParts` | what parts that do not overlap add up to |

These are all the invariants and action properties that the passing runs check,
and the refinement. Each rests on an inductive invariant of its component (`IInv` for
HeldJobs and JobDelivery, a name that ends in `Inv` for the others:
`DeliveryInv`, `UsageInv`, ...), on a lemma that the initial states have it, on
a lemma that a step keeps it with one step for each action, and on a theorem
that it holds always (`...InvHolds`).

**Assumptions.** Those of the component's module, which the runs evaluate, for
instance `JobTableAssumption` (ids are positive numbers, every print job has a
printer) and `HeldJobsAssumption`. Some say what the code's settings are: a job
is not measured in the interval it came in (`SETTLE >= 1`: `SETTLE` in
`coverage/worker.py` is five minutes, and so is the loop's sleep), without which
a job has one turn less than `GapIsExplained` grants it; there is a
year whose terms may be stated (`StatedYear`). A few more are premises of single theorems:
`QueuedJob # {}` and `Batch # {}` (an empty instance has no typed initial
state), and for JobDelivery `NumbersDiffer` (print jobs of one queue have
different numbers) and that the rows end (`RowsEnd`). Without
`NumbersDiffer`, `TrailLeadsOn` and the counts are false, since the sweep matches printer and
number alone.

**HeldJobs.** None of the properties is inductive. `HeldDocumentSurvives` needs
to know that a discard about to unlink has claimed its row (`DiscardClaimed`,
`DiscardWaived`) and that what an automatic release unlinks was accepted by `lp`
(`AcceptedWasSent`). `HeldMeansUnsent` needs the most: when a sweep's
transaction fails, some row in its hands was deleted, and that must have been
with its printer, because a row in somebody's hands is never old enough for
`PurgeFailed` (`AgedIsSettled`, `DeletedInHand`, `InHandExists`). The refinement
needs that nothing is spooled under an id that was not used (`NewIsBlank`).
`IInv` is the conjunction of these with the properties. What the theorems say
beyond `held` is that it holds for any number of documents and printers,
where one transaction loses several rows.

The argument goes through what one step can do, whoever takes it: to one row
(`RowStep`), to the count of copies (`SentStep`), to the spool (`SpoolStep`), to
what is in hand (`TakeUp`, `HandOff`), to one handler (`TaskStep`,
`SweepStepIsHonest`). Each of these lemmas has a step for every action, and the
conjuncts of `IInv'` follow from the lemmas without looking at actions again.
Where a handler's step does several things, a small lemma says what it leaves
(`VisitEffect`, `SubmitEffect`, `UnlinkEffect`, `RequestEffect`), and the long
ones cite that.

A release overwrites what a discard wrote (`FirstMoverWins` is violated), so the
question is what does hold of a row that is closed. `SettledForGood` answers it:
only a release that took the job up while it was held, a cancel that read it as
failed, and a later attempt at the same job can write a closed row again, and
the last leaves its name in the row. The same lemmas prove it: what a step may
do to a row that nobody has in hand is in `RowStep`, what a new attempt does to
the rows before it in `ArrivalEffect` and `SupersedeWrites`, nothing that is not
held is taken up (`TakeUp`), and a copy is made only of what is in hand
(`SentStep`).

**JobDelivery.** `TrailLeadsOn` depends on decisions that are old when they are
written. `IInv` says that rows are created in the order of their ids
(`InOrder`), that each row that was created is about a print job (`RowHasJob`),
and that the winner a sweep has chosen for a row is a later row of the same
print job, up to the commit (`WinnerIsLater`). The trail is stated over deleted
rows too (`Trail`), and a lemma says that no step changes a row's print job.

The counts need another invariant on top of it, `AccountInv`. Its centre is
`EarlierAccounted`: every row of a print job but the last is accounted for, that
is, its document was printed, or the row is deleted or superseded, or it is kept
for somebody to decide. That a backend leaves its row so is in `RowOfBackend`
(an exit with 0 says that nothing more is to come) and in `CupsKnows` (cupsd
calls a job completed only after that); that a report which arrives late does
not undo it, in `ReportsFit` (a report says what was so when it was sent) and
`AgedIsUnheld` (a row old enough for the sweep is not about to be held).
`VerdictStands` says that what cupsd told the sweep is still so minutes later,
which is `InFlightLeftAlone` and the reason the sweep fails no row that counts:
a finished print job does not come back. As before, the lemmas say first what a
step can do to one row (`NewRow`, `RowWritten`), whoever takes it.

`ForwardedForGood` is to the violated `ReportedOnce` and `SweepRespectsReports`
what `SettledForGood` is to `FirstMoverWins`: those who write over a success are
a second report of the same attempt and a sweep or cancel that began before. If
none of them is under way (`Undisputed`), no handler writes the row
(`RowUntouched`), no request takes it up (`NotAsked`), and that no backend,
report or sweep does either follows from `AccountInv` and the step lemmas: a
backend that has the row is past its last report, and a new sweep considers rows
that are forwarding.

**Conditions.** Of the sessions one at most has written the row and not
committed (`OneWriter`); what it claimed is still unclaimed in the committed row
(`ClaimStands`); a row is raised at first sight only by a session that had read
the kind as on (`RaisedIsOn`), and one first seen while it was off counts as
known (`MutedIsKnown`). Without these two claims might each create an event.

**Delivery.** What a channel answered reaches the row in three steps, and one
part of `DeliveryInv` is about each: the flags of the pass, as long as it sends
(`AnswersAreKept`), the row that is written and not committed (`WrittenIsTrue`),
and the committed row, which is never ahead of what the channels answered
(`RowsAreTrue`). A pass has all channels that were enabled all the while
(`PassIsWhole`). For `CrashRepeatsOne`, a row counts no more tries than were
made (`RowsCountTries`), and what the rows do not count adds up to the passes
that were lost and the one that is in hand (`TryInHand`, `UncountedAreLost`): a
pass that dies, or whose send raises, has one event in hand (`RaiseCounts`), and
what came before is committed.

**PrinterStatus.** Its types are inductive as they stand; the work is in the
backoff, a doubled period with a cap.

**CopierSync.** One run has the copier's session (`OneSession`), so what it
takes as used covers every account that somebody holds (`SessionKnows`), and
what a run has added is on the copier until it is recorded (`AddedIsTrue`).

**CopierImports.** The records a commit is about to add are new (`PendingIsNew`)
and no other commit is about to add the same (`PendingIsSole`), but for lines
that the property excepts.

**CopierUsage.** That what was read is charged has to hold of the readings a
poll has loaded too (`ChargedAsRead`): it will replace readings that others
wrote since. That no more is charged than was made needs a margin: what is
charged, and what the poll at work and the next reading may add, is at most what
was made (`Margin`). It holds because the poll at work is the only one
(`OnePoll`) and its readings are those of the database (`OneReading`); two polls
that overlap end that, and the property excepts them.

**DeviceOwner.** A kept reading is what the meter said (`ReadingsAreTrue`),
older ones are purged first (`PurgedInOrder`), the reading at the watermark goes
only after all that are before it (`WatermarkKept`), a session that has missed
no commit of another saves the row it has loaded (`RowIsLoaded`, `Fresh`), and,
until one that has missed some saves, what is credited so far had been copied by
any reading at or after the watermark (`CreditIsCovered`). A reset meter makes
`ReadingsAreTrue` an inequality: the meter went up by no more than was copied.
Every commit ends the freshness of all who are at work (`SavingKeeps`).

**InkCoverage.** As long as the spool was not cleared numbers differ
(`NumbersApart`), a row is of a job that was logged (`MeasuredWasLogged`) and
that was spooled before (`SpooledFirst`). `GapIsExplained` is an argument about
a queue. Of the jobs that have no row, count those that came no later than job j
and wait (`WaitingBefore`); the cycles left to j until the horizon, less the one
that is under way (`TurnsTaken`), have room for all of them (`RoomIsLeft`). A
cycle takes a full batch from the oldest, so that the room shrinks by a batch as
the waiting do, and a job that has no turn left has no row only if somebody
broke the rule: the loop missed an interval, a measurement failed, or there was
no room when the job came. The range of cupsd's next number follows from
counting what was ever spooled (`NumbersAreFew`).

**PageReconcile.** A warning is fresh because its verdict rests on a reading
that is kept (`VerdictRests`): a round that fails takes its own away only, and a
sweep that fails none. For
`AlarmIsEarned`, as long as nothing was blurred, a job reported before a round
had been done with and any other had printed nothing when the round began
(`RoundsAreClean`); so the device has counted, since a reading, at least what
was printed of the jobs reported since (`CountedSince`), and between two
readings what was printed of the jobs reported in between (`CountedBetween`).
Windows between consecutive readings share no job, therefore what the windows
are short of adds up to no more than what was lost (`SumOfParts`).

**PrintQueue.** What is remembered (`MemoryIsModest`), and what a request has
read or is about to set (`RequestIsModest`), is not above what was submitted;
and nothing is known of a job before it arrives (`NewIsUnknown`).

**QueueSync.** With no sync under way the queue is right or the row says that a
sync failed, and if one sync only is under way it will end so (`QueueIsRight`).
With two it may not be, which the property excepts (`Calm`); while it is calm a
session writes no address but the one it loaded (`NoForeignAddress`), and what
it loaded of the error stands until it records an outcome (`LoadedErrorStands`).

**Updates.** While no report was lost and no two rows were active at once, a row
in progress is one the watcher has still to report on (`ProgressIsWatched`); its
final report finds that row because it is the only active one (`OneActive`).

**ReportingPeriods.** The rows of one edit lie in its year and apart
(`WrittenWhole`), and no other rows have its number (`EditsAreTold`). The terms
of a year, generated or stated, are therefore in the year and apart
(`TermsInTheYear`, `TermsApart`), and a day between a year's bounds is resolved
to that year (`YearOfItsDays`), which is arithmetic with a year that may begin
on any day of the calendar's.

**Attribution.** A job is left under a name only if the name was nobody's alias
when it was resolved (`ResolvedAsKnown`). A writer of aliases has found every
job it has to move by the time it commits, and a sync has none to move for
aliases it knew (`MovesAll`).

**Sums.** `MapThenSumSet` of the community modules is a recursion, of which
TLAPS knows nothing. The library's induction theorems take a predicate as
parameter, which the provers here cannot instantiate; in place of predicates the
lemmas use the set of what a statement holds of (`ByNumber`, `BySize`,
`ByElements`), from the fact that `<` on numbers is well-founded. From these
follow that the recursion defines one function (`SumExists`, `SumIs`), that
elements may be added in any order (`SumWithout`), and the comparisons that the
proofs cite.

**Compositions.** In MCNotices and MCServices a step is a step of one component
that leaves the variables of the others, so that a behaviour of the composition
is one of each component's own specification (`NoticesRunAlone`,
`ServicesRunAlone`). Whatever is proved of a component holds of the composition,
and `NoticesTyped` and `ServicesTyped` put the type invariants together.

**Only model-checked** are the seven liveness properties (`DocumentReclaimed`,
`ExpiringHoldGoes`, `OfflineHoldGoes`, `ForwardingResolves`,
`ConditionIsReported`, `EventIsSettled`, `QueueComesBack`): they rest on
fairness, and the prover does not do ENABLED.

## 5. What the models leave out

- Text: attribute parsing, page counts, attribution, names. Nothing that is
  checked depends on them.
- The limit of rows one automatic release and one sweep take. With fewer rows
  than the limit it changes nothing; a backlog beyond it is listed as a hazard.
- A row's lock between flush and commit: with several printers to look at,
  the database may make others wait for a row that the model lets them write.
  The model allows more interleavings than the database does.
- `create_job` and `update_job` are one transaction each and one action each.
  A POST is handled before the next attempt at the same job begins.
- `release_held_job` unlinks and commits in one action: nothing awaits in
  between but the commit. A crash there leaves a held row without a document, sent;
  `HeldDocumentSurvives` allows that state (the automatic release, which has
  the same order, reaches it).
- In HeldJobs a job is held in one step; JobDelivery takes the spooling and the
  report apart. A crash of the backend in between leaves a document no row names.
- Time, in every service, is counted in ticks of the loop that waits; a deadline
  is a number of ticks. Where the code takes `now` before it waits, the model
  keeps the tick it took.
- DeviceOwner reads a run's latest and base reading in one step; the code asks for
  one after the other.
- In HeldJobs an attempt that is delivered at once is a row that stays forwarding:
  what becomes of it is JobDelivery's. Who cancels a row is not told apart.
- PrintQueue has no number that is given out twice. `_YIELDED_FROM` is keyed by
  number and not forgotten when a job ends, so that a stranger may be restored
  to what another job had.
- CopierUsage has one counter for each account; the code subtracts and charges
  copy, scan and fax alike.
- PageReconcile, ReportingPeriods, CopierUsage, DeviceOwner, CopierImports and
  Attribution record, in a history variable or field, the case in which the code
  is known to go wrong (a report that crosses a reading; two edits of the same
  rows; overlapping polls; a run that saves over a naming or another run; two
  commits at once; a job resolved before and logged after an alias). Their
  properties except these cases and no others; the list below says what happens
  in them.

**What the code does in the cases that are excepted, or that the models leave
out.**

- *Copier counters*: two polls that overlap charge twice; a cleared account
  whose counter has passed its old reading loses pages; the first poll of
  provisioned accounts charges copies that were credited to a default owner.
- *Held jobs*: a failed release whose row is cancelled, or superseded by a later
  attempt, leaves its document in the spool with the row still naming it. The docstring of
  `_failed_job_purge_loop` says that it removes what a failed release left, which
  "would otherwise sit in /var/spool/printops-held forever" (main.py:617), but the
  loop selects rows that say failed, and no other removes it: this is what
  `DocumentReclaimed` excepts (`LeftBehind`).
- *Conditions*: a condition that is there while its kind is switched off is taken
  as known, and nobody is told of it when the kind is switched on; an immediate
  one whose transaction is rolled back waits until somebody meets it again, and
  a quota that nobody meets any more is never told.
- *Owner of copies*: a copier linked to another printer keeps its watermark. An
  owner named while a run is at work is credited with earlier copies
  (`owner_reset`); two runs at once credit the same copies twice; a naming that
  loaded no watermark leaves the one a run commits meanwhile.
- *Imports*: two concurrent commits of one batch double its usage; a preview that
  races a commit writes "previewed" over "committed"; a line that is twice in
  one file is recorded twice.
- *Attribution*: a job that is resolved before an alias commits and logged after
  is never backfilled; deleting an alias deletes synced rows too, where the
  docstring says manual ones.
- *Reporting periods*: moving the start of the year under years with stated terms
  is not checked again; two concurrent overrides of one year both stay.
- *Page reconciliation*: a job that prints across a reading, or that is reported
  after it, makes pages look lost.
- *Ink coverage*: "Jobs that age out are recorded as expired" (worker.py) holds
  only for those the loop still sees: after a long outage they leave the query
  unrecorded. A job that fails to be measured is tried for three days, and a
  batch of such jobs keeps newer ones waiting.
- *Copier sync*: a connection that breaks ends the job, and accounts written by
  then are not recorded; a death leaves the job running forever, and no other
  starts.
- *Updates*: a lost final report leaves a row in progress until it is cancelled; a
  final report completes whichever row is active.
- *Queue building*: a capability change whose automatic resync is skipped is not
  resynced later; two concurrent syncs may leave the older address; a death
  between an edit's commit and its sync leaves the queue as it was.
- *Delivery*: a send that raises what is neither httpx.HTTPError nor MailError (a
  target that is no URL, a relay password that does not decrypt, a header that
  cannot be made) ends every pass before its commit, so that its event is tried
  for ever and what is behind it waits: "Attempts are capped"
  (notifications/delivery.py) does not hold of it, and `EventIsSettled` excepts it.
  The message about an event "permanently rejected by every channel" is logged
  also when one of them has got it.
- *Quotas*: a job released from a hold never reports its pages; the sum of used
  pages does not leave out superseded rows, as the reports do.

**Hazards without a property** (in `PROJECT.json`, each with the reason): a
deleted printer forgets its documents; holds of a printer archived while offline
wait forever; a backend killed between spooling and report; rows matched by a
number that is a stranger's, by the sweep and by a cancel; the limit of 200 rows
a sweep; a quota that is met once and rolled back. Most of these
are certain to happen and nothing in the repository promises otherwise, so that a
property would only restate the code; those of reused numbers and of orphaned
documents need HeldJobs and JobDelivery over one table, which is beyond what TLC
can explore.

## 6. Not modelled, and why

- **Web front end** (`apps/web`): more than half of the implementation's lines. It
  displays what the API answers; a stale page is a request about a row that has
  changed, which the models have.
- **Reports, insights, road trip** (`routers/reports.py`, `reports/aggregation.py`,
  `routers/road_trip.py`): read-only queries; which rows they count is
  `CountedOnce`. The sums themselves are SQL.
- **Settings, mail, server configuration, registration of printers and copiers,
  accounts, sessions, audit**: writes of one row in one transaction.
- **Capability discovery, SNMP, ink measurement, syslog and log parsing**: parsing
  of what devices answer, without state between calls.
- **Queue stall, network and CUPS health**: raise conditions from what they have
  just read; Conditions takes any sequence of such observations.
- **Other integrations** (Mosyle, ClassGuard, OAuth, git): fetch a roster and
  replace rows; the services are out of a model's reach. The Google sync's effect
  on aliases and jobs is in Attribution.
- **Relays of LDAP and syslog**: a stateless proxy, and a buffer that is
  best-effort by its own documentation.
- **Rate limiting**: one step without an await; a unit test reaches all of it.
- **Page quotas**: the sum of used pages is a query; the decision it enters is an
  input of JobDelivery.
- **Migrations and installation scripts**: run once, by hand.

What would add most to these modules: HeldJobs and JobDelivery composed over one
table, which could be proved about though TLC cannot explore it, and a model of
the settings and of the counters read by SNMP, as far as they keep state.
