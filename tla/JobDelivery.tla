---------------------------- MODULE JobDelivery ----------------------------
(***************************************************************************)
(* Delivery of print jobs, and the record kept of it.                      *)
(*                                                                         *)
(* cupsd runs one backend process (infra/cups/backends/printops) for each  *)
(* attempt at a job.  The backend registers the attempt with the API       *)
(* (create_job), delivers the document or spools it, and reports what      *)
(* became of it (update_job); cupsd may signal it or kill it at any point. *)
(* Administrators cancel jobs and purge queues, and reconcile_stuck_jobs   *)
(* asks cupsd about the rows nobody reported on.                           *)
(*                                                                         *)
(* Database transactions are atomic; requests, lookups and the processes   *)
(* are not.  The POST that creates a row is handled before the next        *)
(* attempt at the same job starts, even when its reply is lost.            *)
(***************************************************************************)
EXTENDS JobTable

CONSTANTS
    Number,       \* the CUPS job number of each print job
    Reasons,      \* the hold reasons in use
    Admin,        \* cancel and purge requests in progress at one time
    MaxRestarts,  \* bound: how often cupsd runs some job again
    MaxKills,     \* bound: how often a backend is killed or crashes
    MaxClears,    \* bound: how often the CUPS spool is cleared
    MaxCrashes    \* bound: how often the API process dies

ASSUME JobDeliveryAssumption ==
    /\ Number \in [CupsJob -> Nat]
    /\ Reasons \subseteq HoldReason
    /\ {MaxRestarts, MaxKills, MaxClears, MaxCrashes} \subseteq Nat

VARIABLES
    cups,      \* cupsd's record of each print job
    backend,   \* the backend process running for each print job
    patches,   \* status reports the API has not handled yet
    printed,   \* rows whose attempt delivered the document to the printer
    admin,     \* what each cancel or purge request is doing
    recon,     \* what the reconcile sweep is doing
    bounds     \* restarts, kills, clears and crashes so far

cupsVars == <<cups, backend, printed>>
apiVars == <<admin, recon>>
deliveryVars == <<cupsVars, patches, apiVars, bounds>>
vars == <<tableVars, deliveryVars>>

-----------------------------------------------------------------------------
(* "restarting": cupsd has told the backend to stop and will run the job   *)
(* again when it has.  "gone": rolled out of the job history; "cleared":   *)
(* wiped with the spool, after which numbers start from 1 again.           *)

InFlight == {"pending", "processing", "restarting"}
Finished == {"completed", "aborted", "canceled"}
Known == InFlight \cup Finished

CupsState == Known \cup {"unsent", "gone", "cleared"}

(***************************************************************************)
(* A backend's pc.  The signal handler is installed just before "deliver". *)
(*   "create"   up to the answer to the POST that creates its row          *)
(*   "spool"    the row has a hold reason: the document is to be spooled   *)
(*   "hold"     waiting for the answer to the PATCH that says "held"       *)
(*   "deliver"  the real ipp backend is running                            *)
(*   "done"     it has exited; its page counts are looked up               *)
(*   "report"   waiting for the answer to the final PATCH                  *)
(*   "dying"    the signal handler waits for the answer to its own PATCH   *)
(*   "exit"     the process is ending, with exit code 0 if ok              *)
(***************************************************************************)
Backend == [pc: {"none", "create", "spool", "hold", "deliver", "done",
                 "report", "dying", "exit"},
            job: Job \cup {NoJob},
            ok: BOOLEAN]

NoBackend == [pc |-> "none", job |-> NoJob, ok |-> FALSE]

Patch == [job: Job, status: {"held", "forwarded", "failed", "cancelled"}]

AdminTask == [pc: {"idle", "ask", "cancel", "write", "purge"},
              job: Job \cup {NoJob},
              read: Status,                    \* the row's status when it was read
              printer: SUBSET Printer]         \* the queue being purged

IdleAdmin == [pc |-> "idle", job |-> NoJob, read |-> "absent", printer |-> {}]

\* verdict: what the sweep will write, "absent" where it leaves the row alone.
Recon == [todo: SUBSET Job,
          verdict: [Job -> Status],
          winner: [Job -> Job \cup {NoJob}]]

IdleRecon == [todo |-> {},
              verdict |-> [j \in Job |-> "absent"],
              winner |-> [j \in Job |-> NoJob]]

TypeOK ==
    /\ TableTypeOK
    /\ cups \in [CupsJob -> CupsState]
    /\ backend \in [CupsJob -> Backend]
    /\ patches \subseteq Patch
    /\ printed \subseteq Job
    /\ admin \in [Admin -> AdminTask]
    /\ recon \in Recon
    /\ bounds \in [restarts: 0..MaxRestarts, kills: 0..MaxKills,
                   clears: 0..MaxClears, crashes: 0..MaxCrashes]

DeliveryInit ==
    /\ cups = [c \in CupsJob |-> "unsent"]
    /\ backend = [c \in CupsJob |-> NoBackend]
    /\ patches = {} /\ printed = {}
    /\ admin = [a \in Admin |-> IdleAdmin]
    /\ recon = IdleRecon
    /\ bounds = [restarts |-> 0, kills |-> 0, clears |-> 0, crashes |-> 0]

-----------------------------------------------------------------------------
(* cupsd.                                                                  *)

Running(c) == backend[c].pc # "none"

\* Numbers are given out afresh only after the spool was cleared.
Submit(c) ==
    /\ cups[c] = "unsent" /\ fleet[QueueOf[c]] = "active"
    /\ \A d \in CupsJob \ {c} : Number[d] = Number[c] => cups[d] \in {"unsent", "cleared"}
    /\ cups' = [cups EXCEPT ![c] = "pending"]
    /\ UNCHANGED <<tableVars, backend, printed, patches, apiVars, bounds>>

\* One job at a time on each queue.
StartBackend(c) ==
    /\ cups[c] = "pending"
    /\ \A d \in CupsJob : QueueOf[d] = QueueOf[c] => ~Running(d)
    /\ cups' = [cups EXCEPT ![c] = "processing"]
    /\ backend' = [backend EXCEPT ![c].pc = "create"]
    /\ UNCHANGED <<tableVars, printed, patches, apiVars, bounds>>

\* An exit code of 0 completes the job; with any other cupsd aborts it or, for
\* the codes that ask for it, runs it again.  A job that was told to stop has
\* its next state already.
BackendExits(c) ==
    /\ backend[c].pc = "exit"
    /\ backend' = [backend EXCEPT ![c] = NoBackend]
    /\ \/ /\ cups[c] = "processing"
          /\ cups' = [cups EXCEPT ![c] = IF backend[c].ok THEN "completed" ELSE "aborted"]
          /\ UNCHANGED bounds
       \/ /\ cups[c] = "processing" /\ ~backend[c].ok
          /\ bounds.restarts < MaxRestarts
          /\ bounds' = [bounds EXCEPT !.restarts = @ + 1]
          /\ cups' = [cups EXCEPT ![c] = "pending"]
       \/ /\ cups[c] = "restarting"
          /\ cups' = [cups EXCEPT ![c] = "pending"]
          /\ UNCHANGED bounds
       \/ /\ cups[c] \notin {"processing", "restarting"}
          /\ UNCHANGED <<cups, bounds>>
    /\ UNCHANGED <<tableVars, printed, patches, apiVars>>

\* Any lpadmin on the queue restarts the job it is printing.
CupsRestarts(c) ==
    /\ cups[c] = "processing" /\ bounds.restarts < MaxRestarts
    /\ cups' = [cups EXCEPT ![c] = "restarting"]
    /\ bounds' = [bounds EXCEPT !.restarts = @ + 1]
    /\ UNCHANGED <<tableVars, backend, printed, patches, apiVars>>

\* Its owner cancels it, or cupsd does after three hours.
CupsCancels(c) ==
    /\ cups[c] \in InFlight
    /\ cups' = [cups EXCEPT ![c] = "canceled"]
    /\ UNCHANGED <<tableVars, backend, printed, patches, apiVars, bounds>>

RollOff(c) ==
    /\ cups[c] \in Finished /\ ~Running(c)
    /\ cups' = [cups EXCEPT ![c] = "gone"]
    /\ UNCHANGED <<tableVars, backend, printed, patches, apiVars, bounds>>

ClearSpool ==
    /\ bounds.clears < MaxClears
    /\ bounds' = [bounds EXCEPT !.clears = @ + 1]
    /\ cups' = [c \in CupsJob |-> IF cups[c] = "unsent" THEN "unsent" ELSE "cleared"]
    /\ backend' = [c \in CupsJob |-> NoBackend]
    /\ UNCHANGED <<tableVars, printed, patches, apiVars>>

\* lpadmin -x: the jobs on the queue go with it, and a backend is told to stop.
QueueRemoved(p) ==
    cups' = [c \in CupsJob |->
                IF QueueOf[c] # p \/ cups[c] \notin Known THEN cups[c]
                ELSE IF Running(c) THEN "canceled" ELSE "gone"]

-----------------------------------------------------------------------------
(* The backend.                                                            *)

\* cupsd has sent it SIGTERM, which is the next thing it attends to.
Signalled(c) ==
    /\ cups[c] \in {"restarting", "canceled"}
    /\ backend[c].pc \notin {"none", "dying", "exit"}

At(c, pc) == backend[c].pc = pc /\ ~Signalled(c)

Goes(c, pc) == backend' = [backend EXCEPT ![c].pc = pc]
Exits(c, ok) == backend' = [backend EXCEPT ![c].pc = "exit", ![c].ok = ok]

Reports(c, status) == patches' = patches \cup {[job |-> backend[c].job, status |-> status]}

\* No token, no answer about the printer, or the POST is refused: create_job
\* refuses for an archived printer and cannot insert a row for a deleted one.
GiveUp(c) ==
    /\ At(c, "create")
    /\ Exits(c, FALSE)
    /\ UNCHANGED <<tableVars, cups, printed, patches, apiVars, bounds>>

MayHold(c, reason) ==
    reason = "printer_offline" => QueueOf[c] \notin online

RowCreated(c, j, reason) ==
    /\ IsNext(j) /\ fleet[QueueOf[c]] = "active" /\ MayHold(c, reason)
    /\ jobs' = [k \in Job |->
                  IF k = j THEN [NoRow EXCEPT !.status = "forwarding", !.cups = c,
                                              !.reason = reason]
                  ELSE IF k \in EarlierAttempts(c, j) THEN Supersede(jobs[k], j)
                  ELSE jobs[k]]

CreateJob(c, j, reason) ==
    /\ At(c, "create")
    /\ RowCreated(c, j, reason)
    /\ backend' = [backend EXCEPT ![c].job = j,
                                  ![c].pc = IF reason = "none" THEN "deliver" ELSE "spool"]
    /\ UNCHANGED <<spool, fleet, online, cups, printed, patches, apiVars, bounds>>

\* The row is created, and the reply does not arrive or finds the process killed.
CreateUnanswered(c, j, reason) ==
    /\ backend[c].pc = "create"
    /\ RowCreated(c, j, reason)
    /\ Exits(c, FALSE)
    /\ UNCHANGED <<spool, fleet, online, cups, printed, patches, apiVars, bounds>>

SpoolHeldFile(c) ==
    /\ At(c, "spool")
    /\ spool' = spool \cup {backend[c].job}
    /\ Reports(c, "held")
    /\ Goes(c, "hold")
    /\ UNCHANGED <<jobs, fleet, online, cups, printed, apiVars, bounds>>

\* The disk is full, say; part of the document can be there all the same.
SpoolFails(c) ==
    /\ At(c, "spool")
    /\ spool' \in {spool, spool \cup {backend[c].job}}
    /\ Exits(c, FALSE)
    /\ UNCHANGED <<jobs, fleet, online, cups, printed, patches, apiVars, bounds>>

ChildExits(c) ==
    /\ At(c, "deliver")
    /\ \E ok \in BOOLEAN :
        /\ backend' = [backend EXCEPT ![c].pc = "done", ![c].ok = ok]
        /\ printed' = IF ok THEN printed \cup {backend[c].job} ELSE printed
    /\ UNCHANGED <<tableVars, cups, patches, apiVars, bounds>>

SendReport(c) ==
    /\ At(c, "done")
    /\ Reports(c, IF backend[c].ok THEN "forwarded" ELSE "failed")
    /\ Goes(c, "report")
    /\ UNCHANGED <<tableVars, cups, printed, apiVars, bounds>>

\* Before the handler is installed SIGTERM just kills the process.  The handler
\* kills the child and reports, also when the final report is already
\* on its way: _REPORTED is set by the handler alone.
SignalArrives(c) ==
    /\ Signalled(c)
    /\ \/ /\ backend[c].pc \in {"create", "spool", "hold"}
          /\ Exits(c, FALSE)
          /\ UNCHANGED patches
       \/ /\ backend[c].pc \in {"deliver", "done", "report"}
          /\ Reports(c, "cancelled")
          /\ Goes(c, "dying")
    /\ UNCHANGED <<tableVars, cups, printed, apiVars, bounds>>

\* SIGKILL, a crash of the process.
BackendDies(c) ==
    /\ backend[c].pc \notin {"none", "exit"}
    /\ bounds.kills < MaxKills
    /\ bounds' = [bounds EXCEPT !.kills = @ + 1]
    /\ Exits(c, FALSE)
    /\ UNCHANGED <<tableVars, cups, printed, patches, apiVars>>

\* A report is answered or refused, and the backend that waits for it goes on.
\* Refused, by an HTTP error or a closed port, fails a hold; the final report
\* is best-effort.
Tell(m, refused) ==
    \E c \in CupsJob :
        /\ backend[c].job = m.job
        /\ \/ At(c, "hold") /\ m.status = "held" /\ Exits(c, ~refused)
           \/ At(c, "report") /\ m.status # "cancelled" /\ Exits(c, backend[c].ok)
           \/ At(c, "dying") /\ m.status = "cancelled" /\ Exits(c, FALSE)

\* No answer in time, or a connection closed without one.  Around the final
\* PATCH only URLError is caught, and this is none.
NoAnswer(c) ==
    /\ At(c, "hold") \/ At(c, "report") \/ At(c, "dying")
    /\ Exits(c, FALSE)
    /\ UNCHANGED <<tableVars, cups, printed, patches, apiVars, bounds>>

-----------------------------------------------------------------------------
(* The API: status reports.                                                *)

Reported(row, status) ==
    IF status = "held" THEN [Closed(row, "held") EXCEPT !.path = TRUE]
                       ELSE Closed(row, status)

\* Whatever the row says by now.  The answer may not reach the backend, which
\* may be gone.
UpdateJob(m) ==
    /\ m \in patches /\ Exists(m.job)
    /\ patches' = patches \ {m}
    /\ jobs' = [jobs EXCEPT ![m.job] = Reported(@, m.status)]
    /\ Tell(m, FALSE) \/ UNCHANGED backend
    /\ UNCHANGED <<spool, fleet, online, cups, printed, apiVars, bounds>>

\* The row is gone, or the API is down or fails.
RefuseUpdate(m) ==
    /\ m \in patches
    /\ patches' = patches \ {m}
    /\ Tell(m, TRUE) \/ UNCHANGED backend
    /\ UNCHANGED <<tableVars, cups, printed, apiVars, bounds>>

-----------------------------------------------------------------------------
(* Cancelling one job, and purging a queue.                                *)

\* Fault: any job on the queue will do.
KnownOnQueue(p, n) == {c \in CupsJob : QueueOf[c] = p /\ cups[c] \in Known}

\* The job cupsd has on p's queue under a number.
KnownAs(p, n) == {c \in CupsJob : QueueOf[c] = p /\ Number[c] = n /\ cups[c] \in Known}

NumberOf(j) == Number[jobs[j].cups]

\* Fault: the state is spelt the way the jobs table spells it.
CanceledMisspelt(S) == [c \in CupsJob |-> IF c \in S /\ cups[c] \in InFlight
                                          THEN "cancelled" ELSE cups[c]]

Canceled(S) == [c \in CupsJob |-> IF c \in S /\ cups[c] \in InFlight
                                  THEN "canceled" ELSE cups[c]]

AdminStep(a, task) == admin' = [admin EXCEPT ![a] = task]

ReadCancel(a, j) ==
    /\ admin[a].pc = "idle"
    /\ Exists(j) /\ jobs[j].status \notin {"forwarded", "held"}
    /\ AdminStep(a, [IdleAdmin EXCEPT
                        !.job = j, !.read = jobs[j].status,
                        !.pc = IF jobs[j].status = "forwarding" THEN "cancel" ELSE "ask"])
    /\ UNCHANGED <<tableVars, cupsVars, patches, recon, bounds>>

\* _is_still_the_same_cups_job.  No answer counts as "no such job".
AskIdentity(a) ==
    LET c == jobs[admin[a].job].cups IN
    /\ admin[a].pc = "ask"
    /\ \/ /\ c \in CupsJob /\ c \in KnownAs(QueueOf[c], Number[c])
          /\ AdminStep(a, [admin[a] EXCEPT !.pc = "cancel"])
       \/ AdminStep(a, [admin[a] EXCEPT !.pc = "write"])
    /\ UNCHANGED <<tableVars, cupsVars, patches, recon, bounds>>

\* The cancel command is given the number and nothing else.
CancelCupsJob(a) ==
    LET n == Number[jobs[admin[a].job].cups] IN
    /\ admin[a].pc = "cancel"
    /\ cups' = Canceled({c \in CupsJob : Number[c] = n})
    /\ AdminStep(a, [admin[a] EXCEPT !.pc = "write"])
    /\ UNCHANGED <<tableVars, backend, printed, patches, recon, bounds>>

CancelFails(a) ==
    /\ admin[a].pc = "cancel"
    /\ AdminStep(a, IdleAdmin)
    /\ UNCHANGED <<tableVars, cupsVars, patches, recon, bounds>>

\* The session writes what changed since it read the row.
WriteCancelled(a) ==
    LET j == admin[a].job IN
    /\ admin[a].pc = "write"
    /\ jobs' = IF Exists(j) /\ admin[a].read # "cancelled"
               THEN [jobs EXCEPT ![j] = Closed(@, "cancelled")]
               ELSE jobs
    /\ AdminStep(a, IdleAdmin)
    /\ UNCHANGED <<spool, fleet, online, cupsVars, patches, recon, bounds>>

PurgeQueue(a, p) ==
    /\ admin[a].pc = "idle" /\ fleet[p] # "deleted"
    /\ cups' = Canceled({c \in CupsJob : QueueOf[c] = p})
    /\ AdminStep(a, [IdleAdmin EXCEPT !.pc = "purge", !.printer = {p}])
    /\ UNCHANGED <<tableVars, backend, printed, patches, recon, bounds>>

PurgeRows(a) ==
    /\ admin[a].pc = "purge"
    /\ jobs' = [j \in Job |->
                  IF /\ jobs[j].status = "forwarding"
                     /\ QueueOf[jobs[j].cups] \in admin[a].printer
                  THEN Closed(jobs[j], "cancelled") ELSE jobs[j]]
    /\ AdminStep(a, IdleAdmin)
    /\ UNCHANGED <<spool, fleet, online, cupsVars, patches, recon, bounds>>

-----------------------------------------------------------------------------
(* reconcile_stuck_jobs.                                                   *)

\* Fault: the printers match and the numbers are not compared.
LatestOnQueue(j) ==
    CHOOSE k \in Job :
        LET same == {i \in Job : Exists(i) /\ QueueOf[jobs[i].cups] = QueueOf[jobs[j].cups]}
        IN k \in same /\ \A i \in same : i <= k

\* The newest row with j's printer and CUPS job number.
Latest(j) ==
    CHOOSE k \in Job :
        LET same == {i \in Job : /\ Exists(i)
                                 /\ QueueOf[jobs[i].cups] = QueueOf[jobs[j].cups]
                                 /\ NumberOf(i) = NumberOf(j)}
        IN k \in same /\ \A i \in same : i <= k

\* A superseded candidate is closed without asking cupsd.
StartReconcile ==
    LET stuck == {j \in Job : jobs[j].status = "forwarding" /\ jobs[j].age > 0}
        old == {j \in stuck : Latest(j) # j}
    IN
    /\ recon = IdleRecon /\ stuck # {}
    /\ recon' = [todo |-> stuck \ old,
                 verdict |-> [j \in Job |-> IF j \in old THEN "cancelled" ELSE "absent"],
                 winner |-> [j \in Job |-> IF j \in old THEN Latest(j) ELSE NoJob]]
    /\ UNCHANGED <<tableVars, cupsVars, patches, admin, bounds>>

Asked(j, verdict) ==
    recon' = [recon EXCEPT !.todo = @ \ {j}, !.verdict[j] = verdict]

\* Fault: the codes for "aborted" and "completed" are mixed up.
ResolutionSwapped(state) ==
    CASE state = "aborted" -> "forwarded"
      [] state = "completed" -> "failed"
      [] state = "canceled" -> "cancelled"
      [] OTHER -> "absent"

\* Fault: whatever has not completed or failed is closed.
ResolutionImpatient(state) ==
    CASE state = "completed" -> "forwarded"
      [] state = "aborted" -> "failed"
      [] OTHER -> "cancelled"

\* _resolve, on what cupsd says of the number.
Resolution(state) ==
    CASE state = "completed" -> "forwarded"
      [] state = "aborted" -> "failed"
      [] state = "canceled" -> "cancelled"
      [] OTHER -> "absent"

\* Fault: a job cupsd knows nothing of is never written off.
LookUpForever(j) ==
    /\ j \in recon.todo /\ \A k \in recon.todo : j <= k
    /\ LET found == KnownAs(QueueOf[jobs[j].cups], NumberOf(j)) IN
       \/ \E c \in found : Asked(j, Resolution(cups[c]))
       \/ found = {} /\ Asked(j, "absent")
    /\ UNCHANGED <<tableVars, cupsVars, patches, admin, bounds>>

LookUp(j) ==
    /\ j \in recon.todo /\ \A k \in recon.todo : j <= k
    /\ LET found == KnownAs(QueueOf[jobs[j].cups], NumberOf(j)) IN
       \/ \E c \in found : Asked(j, Resolution(cups[c]))
       \/ found = {} /\ Asked(j, IF jobs[j].age = 2 THEN "cancelled" ELSE "absent")
    /\ UNCHANGED <<tableVars, cupsVars, patches, admin, bounds>>

LookUpUnanswered(j) ==
    /\ j \in recon.todo /\ \A k \in recon.todo : j <= k
    /\ Asked(j, "absent")
    /\ UNCHANGED <<tableVars, cupsVars, patches, admin, bounds>>

\* One transaction; a row deleted meanwhile makes it fail.
CommitReconcile ==
    LET resolved == {j \in Job : recon.verdict[j] # "absent"} IN
    /\ recon # IdleRecon /\ recon.todo = {}
    /\ jobs' = IF \A j \in resolved : Exists(j)
               THEN [j \in Job |->
                       IF j \notin resolved THEN jobs[j]
                       ELSE IF recon.winner[j] # NoJob THEN Supersede(jobs[j], recon.winner[j])
                       ELSE Closed(jobs[j], recon.verdict[j])]
               ELSE jobs
    /\ recon' = IdleRecon
    /\ UNCHANGED <<spool, fleet, online, cupsVars, patches, admin, bounds>>

-----------------------------------------------------------------------------
(* The rest of the world.                                                  *)

\* Half an hour passes, then two hours: longer than a request or a report
\* takes, but the child may go on for as long as it likes.  A sweep works with
\* the time it started at.
RowAges(j) ==
    /\ jobs[j].status = "forwarding" /\ jobs[j].age < 2
    /\ recon = IdleRecon
    /\ \A m \in patches : m.job # j
    /\ \A c \in CupsJob : backend[c].job = j => backend[c].pc = "deliver"
    /\ jobs' = [jobs EXCEPT ![j].age = @ + 1]
    /\ UNCHANGED <<spool, fleet, online, deliveryVars>>

\* remove_queue first, on a best-effort basis, then the row.
ArchivePrinter(p) ==
    /\ fleet[p] = "active"
    /\ fleet' = [fleet EXCEPT ![p] = "archived"]
    /\ QueueRemoved(p) \/ UNCHANGED cups
    /\ UNCHANGED <<jobs, spool, online, backend, printed, patches, apiVars, bounds>>

UnarchivePrinter(p) ==
    /\ fleet[p] = "archived"
    /\ fleet' = [fleet EXCEPT ![p] = "active"]
    /\ UNCHANGED <<jobs, spool, online, deliveryVars>>

DeletePrinter(p) ==
    /\ fleet[p] # "deleted"
    /\ fleet' = [fleet EXCEPT ![p] = "deleted"]
    /\ online' = online \ {p}
    /\ jobs' = [j \in Job |-> IF j \in RowsOn(p) THEN Disposed(jobs[j], "deleted")
                                                 ELSE jobs[j]]
    /\ QueueRemoved(p) \/ UNCHANGED cups
    /\ UNCHANGED <<spool, backend, printed, patches, apiVars, bounds>>

\* The API process dies, and with it every request it was handling.
ApiDies ==
    /\ bounds.crashes < MaxCrashes
    /\ bounds' = [bounds EXCEPT !.crashes = @ + 1]
    /\ patches' = {}
    /\ admin' = [a \in Admin |-> IdleAdmin]
    /\ recon' = IdleRecon
    /\ UNCHANGED <<tableVars, cupsVars>>

-----------------------------------------------------------------------------

CupsStep ==
    \E c \in CupsJob :
        \/ Submit(c) \/ StartBackend(c) \/ BackendExits(c)
        \/ CupsRestarts(c) \/ CupsCancels(c) \/ RollOff(c)

BackendStep ==
    \E c \in CupsJob :
        \/ GiveUp(c)
        \/ \E j \in Job, r \in Reasons \cup {"none"} :
              CreateJob(c, j, r) \/ CreateUnanswered(c, j, r)
        \/ SpoolHeldFile(c) \/ SpoolFails(c)
        \/ ChildExits(c) \/ SendReport(c)
        \/ SignalArrives(c) \/ BackendDies(c) \/ NoAnswer(c)

ReportStep == \E m \in patches : UpdateJob(m) \/ RefuseUpdate(m)

AdminRequest ==
    \E a \in Admin :
        \/ \E j \in Job : ReadCancel(a, j)
        \/ AskIdentity(a) \/ CancelCupsJob(a) \/ CancelFails(a) \/ WriteCancelled(a)
        \/ \E p \in Printer : PurgeQueue(a, p)
        \/ PurgeRows(a)

ReconcileStep ==
    \/ StartReconcile
    \/ \E j \in Job : LookUp(j) \/ LookUpUnanswered(j)
    \/ CommitReconcile

WorldStep ==
    \/ \E j \in Job : RowAges(j)
    \/ \E p \in Printer : \/ ArchivePrinter(p)
                          \/ UnarchivePrinter(p)
                          \/ DeletePrinter(p)
    \/ ClearSpool
    \/ ApiDies

DeliveryStep ==
    \/ CupsStep \/ BackendStep \/ ReportStep
    \/ AdminRequest \/ ReconcileStep \/ WorldStep

Init == TableInit /\ DeliveryInit

Next == DeliveryStep

Spec == Init /\ [][Next]_vars

(***************************************************************************)
(* Fairness.  cupsd runs what is pending (a stopped queue is resumed by    *)
(* queue_recovery.py) and signals what it wants stopped; a backend does    *)
(* not stand still, and the real ipp backend exits at the latest when      *)
(* cupsd cancels a job that has been stuck for three hours; requests and   *)
(* the sweep run to their end, the sweep comes round every ten minutes,    *)
(* and cupsd answers its questions often enough.                           *)
(***************************************************************************)
BackendProceeds(c) ==
    \/ GiveUp(c) \/ SpoolHeldFile(c) \/ SpoolFails(c) \/ ChildExits(c)
    \/ SendReport(c) \/ NoAnswer(c) \/ BackendExits(c)
    \/ \E j \in Job, r \in Reasons \cup {"none"} : CreateJob(c, j, r)

AdminProceeds(a) ==
    \/ AskIdentity(a) \/ CancelCupsJob(a) \/ CancelFails(a)
    \/ WriteCancelled(a) \/ PurgeRows(a)

Fairness ==
    /\ \A c \in CupsJob : /\ WF_vars(StartBackend(c))
                          /\ WF_vars(BackendProceeds(c))
                          /\ WF_vars(SignalArrives(c))
    /\ WF_vars(ReportStep)
    /\ \A a \in Admin : WF_vars(AdminProceeds(a))
    /\ WF_vars(StartReconcile) /\ WF_vars(CommitReconcile)
    /\ \A j \in Job : /\ WF_vars(LookUp(j) \/ LookUpUnanswered(j))
                      /\ SF_vars(LookUp(j))
                      /\ SF_vars(RowAges(j))

FairSpec == Spec /\ Fairness

-----------------------------------------------------------------------------
(* Safety                                                                  *)

AttemptsAt(c) == {j \in Job : Exists(j) /\ jobs[j].cups = c}

Counted(c, status) ==
    {j \in AttemptsAt(c) : jobs[j].status = status /\ jobs[j].superseded = NoJob}

\* What is counted was printed, and once: the reports count the forwarded rows
\* that are not superseded, and a print job never has more of those than the
\* times its document went to the printer, however its attempts were
\* restarted, killed, cancelled, reported late or reconciled.
CountedOnce ==
    \A c \in CupsJob :
        Cardinality(Counted(c, "forwarded")) <= Cardinality(AttemptsAt(c) \cap printed)

\* The failure count is one per job and not one per attempt: whichever of
\* create_job, a late report and the sweep comes last, the trail of one print
\* job shows at most one failed delivery.
OneFailurePerJob ==
    \A c \in CupsJob : Cardinality(Counted(c, "failed") \ printed) <= 1

\* A superseded row points forward, to a later attempt at the same job, so
\* following the trail ends at a row that says how the job ended.
TrailLeadsOn ==
    \A j \in Job :
        Exists(j) /\ jobs[j].superseded # NoJob
        => /\ j < jobs[j].superseded
           /\ jobs[j].cups = jobs[jobs[j].superseded].cups

\* The sweep writes nothing off on a guess: the row of a delivery cupsd has in
\* flight is left as it is, however old, even though what the sweep knows of it
\* was asked before it commits.
InFlightLeftAlone ==
    [][CommitReconcile =>
         \A c \in CupsJob :
             cups[c] = "processing" /\ backend[c].job # NoJob
             => jobs'[backend[c].job] = jobs[backend[c].job]]_vars

\* Nothing about row j is under way: no report, no backend that will send one,
\* no sweep that considers it, no request to cancel it.
Undisputed(j) ==
    /\ \A m \in patches : m.job # j
    /\ \A c \in CupsJob : backend[c].job = j => backend[c].pc \in {"create", "exit"}
    /\ j \notin recon.todo /\ recon.verdict[j] = "absent"
    /\ \A a \in Admin : admin[a].job = j => admin[a].pc = "idle"

\* What is left of ReportedOnce and SweepRespectsReports: the history says
\* "forwarded" for good of a job that was so reported, except for a writer that
\* was under way when the report came.  Neither a later attempt at the job, nor
\* a new sweep, nor a request that begins, nor a purge of its queue touches the
\* row (_supersede_earlier_attempts, reconcile_stuck_jobs, cancel_job, purge_jobs,
\* update_job).
ForwardedForGood ==
    [][\A j \in Job :
         jobs[j].status = "forwarded" /\ Undisputed(j)
         => jobs'[j].status = "deleted" \/ (jobs'[j] = jobs[j] /\ Undisputed(j)')]_vars

-----------------------------------------------------------------------------
(* Claims of comments and docstrings.                                      *)

\* A print that succeeded is not failed by a status report that did not.
PrintedIsNotFailed ==
    \A j \in printed : jobs[j].status # "failed"

\* A job is not reported twice, once as forwarded and once as cancelled.
ReportedOnce ==
    [][\A j \in Job : jobs[j].status = "forwarded"
                      => jobs'[j].status \in {"forwarded", "deleted"}]_vars

\* There is no room for a race between the sweep and a job that finishes
\* normally: the sweep does not overwrite a report of success.
SweepRespectsReports ==
    [][CommitReconcile =>
         \A j \in Job : jobs[j].status = "forwarded" => jobs'[j] = jobs[j]]_vars

-----------------------------------------------------------------------------
(* Liveness                                                                *)

\* Every row leaves "forwarding", whichever way its backend went: by its
\* report, by a later attempt, or by the sweep.
ForwardingResolves ==
    \A j \in Job : jobs[j].status = "forwarding" ~> jobs[j].status # "forwarding"
=============================================================================
