------------------------------ MODULE HeldJobs ------------------------------
(***************************************************************************)
(* Custody of held documents: every way a held job leaves "held" once its  *)
(* document is spooled.                                                    *)
(*                                                                         *)
(*   - release by an admin (routers/held_jobs.py) or at a PIN kiosk        *)
(*     (routers/release.py): the row is read, lp runs in a thread for up   *)
(*     to 30 seconds, and only then is the row written;                    *)
(*   - discard by an admin or the owner (held_jobs/service.py): a          *)
(*     conditional UPDATE, then the unlink;                                *)
(*   - cancelling the job of a release that failed (routers/jobs.py): the  *)
(*     row is read, cupsd is asked, and only then is the row written;      *)
(*   - automatic release of the jobs waiting for an offline printer        *)
(*     (printers/offline_holds.py), run by the status loop for all printers *)
(*     and by check-status for one, committed once at the end;             *)
(*   - the loops of main.py that expire holds and purge failed rows;       *)
(*   - a later attempt at the same print job, whose row supersedes those   *)
(*     of the earlier ones (create_job).                                   *)
(*                                                                         *)
(* Each handler has its own database session.  What it read stays with it  *)
(* across its awaits, and its writes become visible when it commits.       *)
(***************************************************************************)
EXTENDS JobTable

CONSTANTS
    Request,     \* requests in progress at one time: release, discard or cancel
    Check,       \* check-status requests in progress at one time
    Poll,        \* the printer status loop
    MaxCrashes,  \* bound: how often the API process dies
    MaxSent      \* bound: copies handed to CUPS are counted up to this many

Sweeper == Check \cup {Poll}

ASSUME HeldJobsAssumption ==
    /\ Poll \notin Check
    /\ MaxCrashes \in Nat
    /\ MaxSent \in Nat \ {0}

VARIABLES
    task,      \* what each request is doing
    sweep,     \* what each automatic release is doing
    expiring,  \* rows the hold purge has read and not yet committed
    sent,      \* how many times each document was handed to CUPS by lp
    crashes

handlerVars == <<task, sweep, expiring>>
heldVars == <<handlerVars, sent, crashes>>
vars == <<tableVars, heldVars>>

IdleTask == [pc |-> "idle", job |-> NoJob, path |-> FALSE]

IdleSweep == [pc |-> "idle", printers |-> {}, todo |-> {},
              released |-> {}, failed |-> {}]

Task == [pc: {"idle", "lp", "accepted", "refused", "claim", "unlink", "cancel"},
         job: Job \cup {NoJob},
         path: BOOLEAN]    \* held_file_path as this handler read it

Sweep == [pc: {"idle", "run", "accepted"},
          printers: SUBSET Printer,  \* online printers still to be looked at
          todo: SUBSET Job,          \* rows selected and not yet submitted
          released: SUBSET Job,      \* rows to be written "forwarded"
          failed: SUBSET Job]        \* rows to be written "failed"

TypeOK ==
    /\ TableTypeOK
    /\ task \in [Request -> Task]
    /\ sweep \in [Sweeper -> Sweep]
    /\ expiring \subseteq Job
    /\ sent \in [Job -> 0..MaxSent]
    /\ crashes \in 0..MaxCrashes

HeldInit ==
    /\ task = [t \in Request |-> IdleTask]
    /\ sweep = [s \in Sweeper |-> IdleSweep]
    /\ expiring = {}
    /\ sent = [j \in Job |-> 0]
    /\ crashes = 0

-----------------------------------------------------------------------------
(* Handing a document to CUPS: submit_released_job runs lp on the file.    *)

HandOver(j) == sent' = [sent EXCEPT ![j] = IF @ < MaxSent THEN @ + 1 ELSE @]

\* lp can only queue a document that is there; it can refuse any, and it can
\* time out having queued one or not.
LpAccepts(j) == j \in spool /\ HandOver(j)
LpRefuses == UNCHANGED sent
LpTimesOut(j) == j \in spool /\ HandOver(j)

-----------------------------------------------------------------------------
(* Release by an admin or at a kiosk.                                      *)

StartRelease(t, j) ==
    /\ task[t].pc = "idle"
    /\ jobs[j].status = "held"
    /\ task' = [task EXCEPT ![t] = [pc |-> "lp", job |-> j, path |-> jobs[j].path]]
    /\ UNCHANGED <<tableVars, sweep, expiring, sent, crashes>>

AdminRelease(t, j) == StartRelease(t, j)

KioskRelease(t, j) ==
    /\ jobs[j].reason \in {"pin_release", "follow_me"}
    /\ StartRelease(t, j)

SubmitRelease(t) ==
    LET j == task[t].job IN
    /\ task[t].pc = "lp"
    /\ \/ LpAccepts(j) /\ task' = [task EXCEPT ![t].pc = "accepted"]
       \/ LpRefuses /\ task' = [task EXCEPT ![t].pc = "refused"]
       \/ LpTimesOut(j) /\ task' = [task EXCEPT ![t].pc = "refused"]
    /\ UNCHANGED <<tableVars, sweep, expiring, crashes>>

\* An UPDATE by primary key, whatever the row says by now; a row deleted in
\* the meantime makes the flush fail and nothing is written.
CommitRelease(t) ==
    LET j == task[t].job IN
    /\ task[t].pc = "accepted"
    /\ spool' = Unlink(spool, j, task[t].path)
    /\ jobs' = IF Exists(j)
               THEN [jobs EXCEPT ![j] = Disposed(@, "forwarded")]
               ELSE jobs
    /\ task' = [task EXCEPT ![t] = IdleTask]
    /\ UNCHANGED <<fleet, online, sweep, expiring, sent, crashes>>

\* Fault: a release that failed leaves the row for another try.
LeaveHeld(t) ==
    /\ task[t].pc = "refused"
    /\ task' = [task EXCEPT ![t] = IdleTask]
    /\ UNCHANGED <<tableVars, sweep, expiring, sent, crashes>>

CommitReleaseError(t) ==
    LET j == task[t].job IN
    /\ task[t].pc = "refused"
    /\ jobs' = IF Exists(j)
               THEN [jobs EXCEPT ![j] = Closed(@, "failed")]
               ELSE jobs
    /\ task' = [task EXCEPT ![t] = IdleTask]
    /\ UNCHANGED <<spool, fleet, online, sweep, expiring, sent, crashes>>

-----------------------------------------------------------------------------
(* Discard.  The page lists held jobs, and may be stale when its button is *)
(* pressed: the request names a row that is or was held.                   *)

\* Fault: the document is deleted before the claim.
DeleteFirst(t, j) ==
    /\ task[t].pc = "idle"
    /\ Exists(j) /\ jobs[j].status # "forwarding"
    /\ spool' = Unlink(spool, j, jobs[j].path)
    /\ task' = [task EXCEPT ![t] = [pc |-> "claim", job |-> j, path |-> jobs[j].path]]
    /\ UNCHANGED <<jobs, fleet, online, sweep, expiring, sent, crashes>>

ReadDiscard(t, j) ==
    /\ task[t].pc = "idle"
    /\ Exists(j) /\ jobs[j].status # "forwarding"
    /\ task' = [task EXCEPT ![t] = [pc |-> "claim", job |-> j, path |-> jobs[j].path]]
    /\ UNCHANGED <<tableVars, sweep, expiring, sent, crashes>>

\* Fault: the status is spelt the way cupsd spells it.
ClaimMisspelt(t) ==
    LET j == task[t].job IN
    /\ task[t].pc = "claim"
    /\ jobs[j].status = "held"
    /\ jobs' = [jobs EXCEPT ![j] = Disposed(@, "canceled")]
    /\ task' = [task EXCEPT ![t].pc = "unlink"]
    /\ UNCHANGED <<spool, fleet, online, sweep, expiring, sent, crashes>>

\* Fault: the claim does not look at the status again.
ClaimUnchecked(t) ==
    LET j == task[t].job IN
    /\ task[t].pc = "claim"
    /\ Exists(j)
    /\ jobs' = [jobs EXCEPT ![j] = Disposed(@, "cancelled")]
    /\ task' = [task EXCEPT ![t].pc = "unlink"]
    /\ UNCHANGED <<spool, fleet, online, sweep, expiring, sent, crashes>>

ClaimDiscard(t) ==
    LET j == task[t].job IN
    /\ task[t].pc = "claim"
    /\ jobs[j].status = "held"
    /\ jobs' = [jobs EXCEPT ![j] = Disposed(@, "cancelled")]
    /\ task' = [task EXCEPT ![t].pc = "unlink"]
    /\ UNCHANGED <<spool, fleet, online, sweep, expiring, sent, crashes>>

LoseDiscard(t) ==
    /\ task[t].pc = "claim"
    /\ jobs[task[t].job].status # "held"
    /\ task' = [task EXCEPT ![t] = IdleTask]
    /\ UNCHANGED <<tableVars, sweep, expiring, sent, crashes>>

\* Fault: the path is read after the claim has cleared it.
KeepDiscarded(t) ==
    /\ task[t].pc = "unlink"
    /\ task' = [task EXCEPT ![t] = IdleTask]
    /\ UNCHANGED <<tableVars, sweep, expiring, sent, crashes>>

UnlinkDiscarded(t) ==
    /\ task[t].pc = "unlink"
    /\ spool' = Unlink(spool, task[t].job, task[t].path)
    /\ task' = [task EXCEPT ![t] = IdleTask]
    /\ UNCHANGED <<jobs, fleet, online, sweep, expiring, sent, crashes>>

-----------------------------------------------------------------------------
(* Cancel.  cancel_job refuses a row that is forwarded or held.  What is   *)
(* left of a hold for it is a release that failed, whose row has a path    *)
(* still.  (A row that says cancelled already is written as it was.)       *)

ReadCancel(t, j) ==
    /\ task[t].pc = "idle"
    /\ jobs[j].status = "failed"
    /\ task' = [task EXCEPT ![t] = [pc |-> "cancel", job |-> j, path |-> jobs[j].path]]
    /\ UNCHANGED <<tableVars, sweep, expiring, sent, crashes>>

\* cupsd has the job and does not cancel it.
CancelFails(t) ==
    /\ task[t].pc = "cancel"
    /\ task' = [task EXCEPT ![t] = IdleTask]
    /\ UNCHANGED <<tableVars, sweep, expiring, sent, crashes>>

\* Whatever the row says by now.  The path stays in the row, and the document
\* in the spool.
WriteCancelled(t) ==
    LET j == task[t].job IN
    /\ task[t].pc = "cancel"
    /\ jobs' = IF Exists(j)
               THEN [jobs EXCEPT ![j] = Closed(@, "cancelled")]
               ELSE jobs
    /\ task' = [task EXCEPT ![t] = IdleTask]
    /\ UNCHANGED <<spool, fleet, online, sweep, expiring, sent, crashes>>

-----------------------------------------------------------------------------
(* Automatic release of the jobs that wait for a printer to come back.     *)

WaitingFor(p) ==
    {j \in RowsOn(p) : jobs[j].status = "held" /\ jobs[j].reason = "printer_offline"}

Oldest(S) == CHOOSE j \in S : \A k \in S : j <= k

Visit(s, printers) ==
    /\ sweep[s].pc = "idle"
    /\ printers # {}
    /\ sweep' = [sweep EXCEPT ![s].pc = "run", ![s].printers = printers]
    /\ UNCHANGED <<tableVars, task, expiring, sent, crashes>>

\* The loop goes through every printer in service it has just found online;
\* check-status asks about one.
StartPoll == Visit(Poll, {p \in online : fleet[p] = "active"})

StartCheck(s, p) == p \in online /\ fleet[p] # "deleted" /\ Visit(s, {p})

SelectWaiting(s) ==
    /\ sweep[s].pc = "run" /\ sweep[s].todo = {}
    /\ \E p \in sweep[s].printers :
        LET waiting == WaitingFor(p) IN
        sweep' = [sweep EXCEPT
                    ![s].printers = @ \ {p},
                    ![s].todo = {j \in waiting : jobs[j].path},
                    ![s].failed = @ \cup {j \in waiting : ~jobs[j].path}]
    /\ UNCHANGED <<tableVars, task, expiring, sent, crashes>>

SubmitOldest(s) ==
    LET j == Oldest(sweep[s].todo)
        Fail == sweep' = [sweep EXCEPT ![s].todo = @ \ {j}, ![s].failed = @ \cup {j}]
    IN
    /\ sweep[s].pc = "run" /\ sweep[s].todo # {}
    /\ \/ LpAccepts(j) /\ sweep' = [sweep EXCEPT ![s].pc = "accepted"]
       \/ LpRefuses /\ Fail
       \/ LpTimesOut(j) /\ Fail
    /\ UNCHANGED <<tableVars, task, expiring, crashes>>

UnlinkReleased(s) ==
    LET j == Oldest(sweep[s].todo) IN
    /\ sweep[s].pc = "accepted"
    /\ spool' = spool \ {j}
    /\ sweep' = [sweep EXCEPT ![s].pc = "run",
                              ![s].todo = @ \ {j},
                              ![s].released = @ \cup {j}]
    /\ UNCHANGED <<jobs, fleet, online, task, expiring, sent, crashes>>

\* Fault: everything that was tried is recorded as forwarded.
CommitAllForwarded(s) ==
    LET tried == sweep[s].released \cup sweep[s].failed IN
    /\ sweep[s].pc = "run" /\ sweep[s].todo = {} /\ sweep[s].printers = {}
    /\ jobs' = [j \in Job |-> IF j \in tried /\ Exists(j)
                              THEN Disposed(jobs[j], "forwarded") ELSE jobs[j]]
    /\ sweep' = [sweep EXCEPT ![s] = IdleSweep]
    /\ UNCHANGED <<spool, fleet, online, task, expiring, sent, crashes>>

\* Fault: the session is closed without a commit.
ForgetCommit(s) ==
    /\ sweep[s].pc = "run" /\ sweep[s].todo = {} /\ sweep[s].printers = {}
    /\ sweep' = [sweep EXCEPT ![s] = IdleSweep]
    /\ UNCHANGED <<tableVars, task, expiring, sent, crashes>>

\* One transaction for everything: a single deleted row fails the flush, and
\* none of the others is recorded.
CommitSweep(s) ==
    LET released == sweep[s].released
        failed == sweep[s].failed
    IN
    /\ sweep[s].pc = "run" /\ sweep[s].todo = {} /\ sweep[s].printers = {}
    /\ jobs' = IF \A j \in released \cup failed : Exists(j)
               THEN [j \in Job |->
                        IF j \in released THEN Disposed(jobs[j], "forwarded")
                        ELSE IF j \in failed THEN Closed(jobs[j], "failed")
                        ELSE jobs[j]]
               ELSE jobs
    /\ sweep' = [sweep EXCEPT ![s] = IdleSweep]
    /\ UNCHANGED <<spool, fleet, online, task, expiring, sent, crashes>>

-----------------------------------------------------------------------------
(* The purge loops of main.py.                                             *)

\* Fault: only the holds a person asked for expire.
ReadExpiredReleases ==
    LET S == {j \in Job : /\ jobs[j].status = "held" /\ jobs[j].age > 0
                          /\ jobs[j].reason \in {"pin_release", "follow_me"}}
    IN
    /\ expiring = {} /\ S # {}
    /\ expiring' = S
    /\ spool' = spool \ {j \in S : jobs[j].path}
    /\ UNCHANGED <<jobs, fleet, online, task, sweep, sent, crashes>>

\* The files go as the rows are read; the rows are written at the commit.
ReadExpired ==
    LET S == {j \in Job : jobs[j].status = "held" /\ jobs[j].age > 0} IN
    /\ expiring = {} /\ S # {}
    /\ expiring' = S
    /\ spool' = spool \ {j \in S : jobs[j].path}
    /\ UNCHANGED <<jobs, fleet, online, task, sweep, sent, crashes>>

CommitExpired ==
    /\ expiring # {}
    /\ jobs' = IF \A j \in expiring : Exists(j)
               THEN [j \in Job |-> IF j \in expiring
                                   THEN Disposed(jobs[j], "cancelled")
                                   ELSE jobs[j]]
               ELSE jobs
    /\ expiring' = {}
    /\ UNCHANGED <<spool, fleet, online, task, sweep, sent, crashes>>

\* Fault: the retention period is not applied.
PurgeAllFailed ==
    LET S == {j \in Job : jobs[j].status = "failed"} IN
    /\ S # {}
    /\ spool' = spool \ {j \in S : jobs[j].path}
    /\ jobs' = [j \in Job |-> IF j \in S THEN Disposed(jobs[j], "deleted")
                                         ELSE jobs[j]]
    /\ UNCHANGED <<fleet, online, handlerVars, sent, crashes>>

PurgeFailed ==
    LET S == {j \in Job : jobs[j].status = "failed" /\ jobs[j].age > 0} IN
    /\ S # {}
    /\ spool' = spool \ {j \in S : jobs[j].path}
    /\ jobs' = [j \in Job |-> IF j \in S THEN Disposed(jobs[j], "deleted")
                                         ELSE jobs[j]]
    /\ UNCHANGED <<fleet, online, handlerVars, sent, crashes>>

-----------------------------------------------------------------------------
(* The rest of the world.                                                  *)

\* Some handler still has row j in its hands.
InHand(j) ==
    \/ \E t \in Request : task[t].job = j /\ task[t].pc \in {"lp", "accepted", "refused"}
    \/ \E s \in Sweeper : j \in sweep[s].todo \cup sweep[s].released \cup sweep[s].failed
    \/ j \in expiring

Ages(j) ==
    /\ jobs' = [jobs EXCEPT ![j].age = 1]
    /\ UNCHANGED <<spool, fleet, online, heldVars>>

\* held_expires_at passes; a job held for an offline printer has none.
HoldExpires(j) ==
    /\ jobs[j].status = "held" /\ jobs[j].reason # "printer_offline"
    /\ jobs[j].age = 0
    /\ Ages(j)

\* 48 hours pass: far longer than any handler can have been running.
FailureAges(j) ==
    /\ jobs[j].status = "failed" /\ jobs[j].age = 0 /\ ~InHand(j)
    /\ Ages(j)

\* The recorded status of a printer changes; resolving and debouncing it is
\* another component's work.
StatusChanges(p) ==
    /\ fleet[p] # "deleted"
    /\ online' = IF p \in online THEN online \ {p} ELSE online \cup {p}
    /\ UNCHANGED <<jobs, spool, fleet, heldVars>>

ArchivePrinter(p) ==
    /\ fleet[p] = "active"
    /\ fleet' = [fleet EXCEPT ![p] = "archived"]
    /\ UNCHANGED <<jobs, spool, online, heldVars>>

UnarchivePrinter(p) ==
    /\ fleet[p] = "archived"
    /\ fleet' = [fleet EXCEPT ![p] = "active"]
    /\ UNCHANGED <<jobs, spool, online, heldVars>>

\* The rows go with the printer (ON DELETE CASCADE); the documents do not.
DeletePrinter(p) ==
    /\ fleet[p] # "deleted"
    /\ fleet' = [fleet EXCEPT ![p] = "deleted"]
    /\ online' = online \ {p}
    /\ jobs' = [j \in Job |-> IF j \in RowsOn(p) THEN Disposed(jobs[j], "deleted")
                                                 ELSE jobs[j]]
    /\ UNCHANGED <<spool, heldVars>>

\* The API process dies; sessions roll back and the work in hand is gone.
Crash ==
    /\ crashes < MaxCrashes
    /\ crashes' = crashes + 1
    /\ task' = [t \in Request |-> IdleTask]
    /\ sweep' = [s \in Sweeper |-> IdleSweep]
    /\ expiring' = {}
    /\ UNCHANGED <<tableVars, sent>>

\* An attempt at print job c gets the next row, and the rows of the attempts
\* before it are superseded.
Attempt(j, c, row) ==
    /\ IsNext(j)
    /\ fleet[QueueOf[c]] = "active"
    /\ jobs' = [k \in Job |-> IF k = j THEN row
                             ELSE IF k \in EarlierAttempts(c, j) THEN Supersede(jobs[k], j)
                             ELSE jobs[k]]
    /\ UNCHANGED <<fleet, online, heldVars>>

HeldRow(c, reason) ==
    [NoRow EXCEPT !.status = "held", !.reason = reason, !.cups = c, !.path = TRUE]

\* Fault: the path is not stored.
HoldArrivesPathless(j, c, reason) ==
    /\ Attempt(j, c, [HeldRow(c, reason) EXCEPT !.path = FALSE])
    /\ spool' = spool \cup {j}

\* A job is held.  This stands for the backend's create, spool and report run
\* without interruption; JobDelivery takes them apart.  The reason was decided
\* when the row was created, and a printer that was offline may be back.
HoldArrives(j, c, reason) ==
    /\ Attempt(j, c, HeldRow(c, reason))
    /\ spool' = spool \cup {j}

\* An attempt that is to be delivered at once; its own row is JobDelivery's.
AttemptArrives(j, c) ==
    /\ Attempt(j, c, [NoRow EXCEPT !.status = "forwarding", !.cups = c])
    /\ UNCHANGED spool

-----------------------------------------------------------------------------

RequestStep ==
    \E t \in Request :
        \/ \E j \in Job : AdminRelease(t, j) \/ KioskRelease(t, j)
                          \/ ReadDiscard(t, j) \/ ReadCancel(t, j)
        \/ SubmitRelease(t)
        \/ CommitRelease(t)
        \/ CommitReleaseError(t)
        \/ ClaimDiscard(t)
        \/ LoseDiscard(t)
        \/ UnlinkDiscarded(t)
        \/ CancelFails(t)
        \/ WriteCancelled(t)

SweepStep ==
    \/ StartPoll
    \/ \E s \in Check, p \in Printer : StartCheck(s, p)
    \/ \E s \in Sweeper : \/ SelectWaiting(s)
                          \/ SubmitOldest(s)
                          \/ UnlinkReleased(s)
                          \/ CommitSweep(s)

PurgeStep == ReadExpired \/ CommitExpired \/ PurgeFailed

WorldStep ==
    \/ \E j \in Job : HoldExpires(j) \/ FailureAges(j)
    \/ \E p \in Printer : \/ StatusChanges(p)
                          \/ ArchivePrinter(p)
                          \/ UnarchivePrinter(p)
                          \/ DeletePrinter(p)
    \/ Crash

HeldStep == RequestStep \/ SweepStep \/ PurgeStep \/ WorldStep

Init == TableInit /\ HeldInit

Next ==
    \/ HeldStep
    \/ \E j \in Job, c \in CupsJob :
        \/ \E r \in HoldReason : HoldArrives(j, c, r)
        \/ AttemptArrives(j, c)

Spec == Init /\ [][Next]_vars

(***************************************************************************)
(* Fairness.  A request, once started, runs to its end (lp itself is cut   *)
(* off after 30 seconds); the loops come round again after every sleep,    *)
(* whatever the last cycle raised; time passes.  Nothing obliges anybody   *)
(* to release, discard or cancel a job, or a printer to come back.         *)
(***************************************************************************)
RequestProceeds(t) ==
    \/ SubmitRelease(t) \/ CommitRelease(t) \/ CommitReleaseError(t)
    \/ ClaimDiscard(t) \/ LoseDiscard(t) \/ UnlinkDiscarded(t)
    \/ CancelFails(t) \/ WriteCancelled(t)

SweepProceeds(s) ==
    SelectWaiting(s) \/ SubmitOldest(s) \/ UnlinkReleased(s) \/ CommitSweep(s)

Fairness ==
    /\ \A t \in Request : WF_vars(RequestProceeds(t))
    /\ \A s \in Sweeper : WF_vars(SweepProceeds(s))
    /\ WF_vars(StartPoll)
    /\ WF_vars(ReadExpired) /\ WF_vars(CommitExpired) /\ WF_vars(PurgeFailed)
    /\ \A j \in Job : WF_vars(HoldExpires(j)) /\ WF_vars(FailureAges(j))

FairSpec == Spec /\ Fairness

-----------------------------------------------------------------------------
(* Safety                                                                  *)

\* Custody: the document of a held job that has not expired is in the spool,
\* unless it has already been handed to CUPS.  Discard, expiry and the purge
\* of failed rows race the releases, and none of them may take a document
\* whose owner is still waiting for it.
HeldDocumentSurvives ==
    \A j \in Job : jobs[j].status = "held" /\ j \notin spool
                    => sent[j] > 0 \/ jobs[j].age > 0

\* A held row always names its document: the branch of
\* release_jobs_waiting_for that closes a row "the document was lost" for
\* want of a path is never taken, whatever races it.
HeldHasPath == \A j \in Job : jobs[j].status = "held" => jobs[j].path

\* The history never says a document was forwarded that lp did not accept.
ForwardedWasSent ==
    \A j \in Job : jobs[j].status = "forwarded" => sent[j] > 0

\* A job nobody is handling and that still says "held" has not been handed to
\* CUPS: releasing it again does not print it twice.  A crash, or a printer
\* deleted under an automatic release (which loses the whole transaction),
\* are the only ways to break that.
HeldMeansUnsent ==
    \A j \in Job :
        jobs[j].status = "held" /\ sent[j] > 0
        => \/ InHand(j)
           \/ crashes > 0
           \/ \E p \in Printer : fleet[p] = "deleted"

\* A cancel has read the row and will write it.
Cancelling(j) == \E t \in Request : task[t].pc = "cancel" /\ task[t].job = j

\* A job that is out of "held" and that no handler has in hand from before.
Settled(j) ==
    /\ jobs[j].status \in {"forwarded", "failed", "cancelled"}
    /\ ~InHand(j) /\ ~Cancelling(j)

\* What is left of FirstMoverWins: a row that was closed is only closed a second
\* time by a release that had taken it up while it was held, or by a cancel that
\* had read it as failed.  Once there is none the job is settled for good:
\* nobody takes it up, prints it or changes its status, a discard that has yet
\* to claim it included, until retention or its printer takes the row.  Only a
\* later attempt at the job turns a failure into "cancelled", and says so in
\* the row (discard_hold, release_held_job, release_jobs_waiting_for,
\* cancel_job, _supersede_earlier_attempts, the purge loops).
SettledForGood ==
    [][\A j \in Job :
         Settled(j) => /\ \/ jobs'[j].status \in {jobs[j].status, "deleted"}
                          \/ /\ jobs[j].status = "failed" /\ jobs'[j].status = "cancelled"
                             /\ jobs'[j].superseded # NoJob
                       /\ sent'[j] = sent[j] /\ ~InHand(j)']_vars

-----------------------------------------------------------------------------
(* Claims of docstrings.                                                   *)

\* Whoever moves a row out of "held" first wins, and the loser touches nothing:
\* a row that was released, discarded or expired is not closed a second time.
FirstMoverWins ==
    [][\A j \in Job :
         jobs[j].status \in {"forwarded", "cancelled"}
         => jobs'[j].status \in {jobs[j].status, "deleted"}]_vars

-----------------------------------------------------------------------------
(* Liveness                                                                *)

BackForGood(p) == <>[](p \in online /\ fleet[p] = "active")

\* A job held for an offline printer leaves "held" once its printer is back
\* to stay: release_jobs_waiting_for looks at every online printer in every
\* cycle, not only at those that have just come back.
OfflineHoldGoes ==
    \A p \in Printer :
        BackForGood(p) => \A j \in Job : j \in WaitingFor(p) ~> j \notin WaitingFor(p)

\* Any other held job leaves "held" at the latest when it expires, crash or no
\* crash: nothing is held forever.
ExpiringHoldGoes ==
    \A j \in Job :
        (jobs[j].status = "held" /\ jobs[j].reason # "printer_offline")
        ~> jobs[j].status # "held"

\* The row of a failed release was cancelled, and its document is still named.
LeftBehind(j) == jobs[j].status = "cancelled" /\ jobs[j].path

\* Every document taken into custody is eventually removed from the spool, as
\* long as the API does not die in the middle of a request: the releases, the
\* discard and the two purge loops leave none behind, in whatever order they
\* run.  Only a failed release whose row is cancelled or superseded before it
\* is purged does: the purge "unlinks any leftover spooled file" of one, which
\* "would otherwise sit in /var/spool/printops-held forever", but it looks at
\* rows that say failed.
DocumentReclaimed ==
    \A p \in Printer :
        BackForGood(p) /\ [](crashes = 0) =>
            \A j \in Job : (j \in spool /\ j \in RowsOn(p))
                           ~> (j \notin spool \/ LeftBehind(j))
=============================================================================
