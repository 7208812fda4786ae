--------------------------- MODULE PrinterStatus ---------------------------
(***************************************************************************)
(* What PrintOps records about one printer, and how it starts the          *)
(* printer's CUPS queue again after cupsd stopped it (printers/status.py,  *)
(* printers/queue_recovery.py).                                            *)
(*                                                                         *)
(* The status loop and the check-status endpoint run the same code, each   *)
(* in a database session of its own: a check works on the row it loaded    *)
(* and writes the columns it changed when it commits.  The backoff of      *)
(* resumes is one dictionary in memory, shared by both.                    *)
(*                                                                         *)
(* Time passes in ticks of the shortest period the code waits for.         *)
(***************************************************************************)
EXTENDS Integers, FiniteSetsExt

CONSTANTS
    Checker,          \* checks in progress at one time
    Cooldown,         \* RESUME_COOLDOWN, in ticks
    MaxBackoff,       \* MAX_RESUME_BACKOFF, in ticks
    MaxDoublings,     \* _MAX_BACKOFF_DOUBLINGS
    HealthyPeriod,    \* HEALTHY_RESET_PERIOD, in ticks
    MaxRestarts       \* bound: how often the API process starts again

ASSUME PrinterStatusAssumption ==
    /\ {Cooldown, MaxBackoff, MaxDoublings, HealthyPeriod} \subseteq Nat \ {0}
    /\ Cooldown <= MaxBackoff
    /\ MaxRestarts \in Nat

VARIABLES
    device,     \* the printer itself
    stopped,    \* cupsd has stopped its queue
    printer,    \* its row
    attempt,    \* queue_recovery's memory of the last resume
    check,      \* what each check is doing
    restarts    \* of the API process so far

statusVars == <<device, stopped, printer, attempt, check, restarts>>

MissesBeforeOffline == 2    \* CONSECUTIVE_PROBE_FAILURES_BEFORE_OFFLINE

PrinterStatusValue == {"unknown", "online", "error", "offline"}

Attempt == [age: 0..MaxBackoff,        \* ticks since the attempt
            failures: 0..MaxDoublings, \* more make no difference
            awaiting: BOOLEAN,         \* no verdict on it yet
            away: BOOLEAN,             \* the device was seen away since
            online: -1..HealthyPeriod] \* ticks it has been back, -1: it is not

\* An attempt that was never seen away has no ticks online, so this is none.
NoAttempt == [age |-> MaxBackoff, failures |-> 0, awaiting |-> FALSE,
              away |-> FALSE, online |-> HealthyPeriod]

PrinterRow == [status: PrinterStatusValue, misses: 0..MissesBeforeOffline]

\* loaded: the row as the session read it; row: as the check has left it.
Check == [pc: {"idle", "ask", "act", "resume", "commit"},
          loaded: PrinterRow, row: PrinterRow,
          manual: BOOLEAN,             \* started by a person, not by the loop
          answered: BOOLEAN,           \* the device answered this check's probe
          told: BOOLEAN]               \* lpstat said that the queue is stopped

NewRow == [status |-> "unknown", misses |-> 0]

IdleCheck == [pc |-> "idle", loaded |-> NewRow, row |-> NewRow, manual |-> FALSE,
              answered |-> FALSE, told |-> FALSE]

StatusTypeOK ==
    /\ device \in {"healthy", "faulty", "away"}
    /\ stopped \in BOOLEAN
    /\ printer \in PrinterRow
    /\ attempt \in Attempt
    /\ check \in [Checker -> Check]
    /\ restarts \in 0..MaxRestarts

StatusInit ==
    /\ device = "healthy"
    /\ stopped = FALSE
    /\ printer = NewRow
    /\ attempt = NoAttempt
    /\ check = [c \in Checker |-> IdleCheck]
    /\ restarts = 0

-----------------------------------------------------------------------------
(* The backoff.                                                            *)

Remembered == attempt # NoAttempt

Backoff(failures) == Min({Cooldown * 2^failures, MaxBackoff})

ResumeDue(a) == a = NoAttempt \/ a.age >= Backoff(a.failures)

\* The verdict on a resume is counted once.
NoteStillStopped(a) ==
    IF a # NoAttempt /\ a.awaiting
    THEN [a EXCEPT !.failures = Min({@ + 1, MaxDoublings}), !.awaiting = FALSE]
    ELSE a

NoteDeviceAway(a) ==
    IF a = NoAttempt THEN a ELSE [a EXCEPT !.away = TRUE, !.online = -1]

\* A device that was away and has been back for long enough starts afresh.
NoteDeviceBack(a) ==
    IF a = NoAttempt \/ ~a.away THEN a
    ELSE IF a.online = -1 THEN [a EXCEPT !.online = 0]
    ELSE IF a.online < HealthyPeriod THEN a
    ELSE NoAttempt

Attempted(a) ==
    [age |-> 0, failures |-> IF a = NoAttempt THEN 0 ELSE a.failures,
     awaiting |-> TRUE, away |-> FALSE, online |-> -1]

-----------------------------------------------------------------------------
(* A check.                                                                *)

\* What the check found out is forgotten when it has been acted on.
Goes(c, pc, status) ==
    check' = [check EXCEPT ![c].pc = pc, ![c].row.status = status,
                           ![c].manual = FALSE, ![c].answered = FALSE, ![c].told = FALSE]

Probed(c, answered, row) ==
    /\ check[c].pc = "idle"
    /\ \E manual \in BOOLEAN :
           check' = [check EXCEPT ![c] =
                        [pc |-> "ask", loaded |-> printer, row |-> row,
                         manual |-> manual, answered |-> answered, told |-> FALSE]]
    /\ UNCHANGED <<device, stopped, printer, attempt, restarts>>

DeriveStatus == IF device = "healthy" THEN "online" ELSE "error"

ProbeAnswered(c) ==
    device # "away" /\ Probed(c, TRUE, [status |-> DeriveStatus, misses |-> 0])

\* The path may lose a probe of a printer that is there.
ProbeMissed(c) ==
    LET misses == Min({printer.misses + 1, MissesBeforeOffline})
        status == IF misses = MissesBeforeOffline THEN "offline" ELSE printer.status
    IN Probed(c, FALSE, [status |-> status, misses |-> misses])

DeviceReady(c) == check[c].answered /\ check[c].row.status = "online"

\* _apply_queue_stall: an answered check may call a printer that looks well, but
\* whose queue does not move, an error.  Pages not printed and a lossy path
\* leave the status alone.
Diagnosed(c) == {check[c].row.status} \cup (IF DeviceReady(c) THEN {"error"} ELSE {})

\* A scheduler with no room left is not asked.
SkipRecovery(c) ==
    /\ check[c].pc = "ask"
    /\ Goes(c, "commit", check[c].row.status)
    /\ UNCHANGED <<device, stopped, printer, attempt, restarts>>

\* lpstat runs in a thread: what it says may be old when it is acted on, and no
\* answer is treated like a queue that runs.
AskQueue(c) ==
    /\ check[c].pc = "ask"
    /\ \E told \in {stopped, FALSE} :
           check' = [check EXCEPT ![c].pc = "act", ![c].told = told]
    /\ UNCHANGED <<device, stopped, printer, attempt, restarts>>

NothingStopped(c) ==
    /\ check[c].pc = "act" /\ ~check[c].told
    /\ attempt' = NoAttempt
    /\ \E status \in Diagnosed(c) : Goes(c, "commit", status)
    /\ UNCHANGED <<device, stopped, printer, restarts>>

\* One missed probe holds the resume back but is not yet an absence.
DeviceNotReady(c) ==
    /\ check[c].pc = "act" /\ check[c].told /\ ~DeviceReady(c)
    /\ attempt' = IF check[c].row.status # "online"
                  THEN NoteStillStopped(NoteDeviceAway(attempt))
                  ELSE attempt
    /\ Goes(c, "commit", check[c].row.status)
    /\ UNCHANGED <<device, stopped, printer, restarts>>

MarkPaused(c) == Goes(c, "commit", "error")

\* Fault: a look that resumes nothing counts as an attempt.
NotDueAgain(c) ==
    LET a == NoteDeviceBack(attempt)
    IN /\ check[c].pc = "act" /\ check[c].told /\ DeviceReady(c)
       /\ ~check[c].manual /\ ~ResumeDue(a)
       /\ attempt' = Attempted(NoteStillStopped(a))
       /\ MarkPaused(c)
       /\ UNCHANGED <<device, stopped, printer, restarts>>

NotDueYet(c) ==
    LET a == NoteDeviceBack(attempt)
    IN /\ check[c].pc = "act" /\ check[c].told /\ DeviceReady(c)
       /\ ~check[c].manual /\ ~ResumeDue(a)
       /\ attempt' = NoteStillStopped(a)
       /\ MarkPaused(c)
       /\ UNCHANGED <<device, stopped, printer, restarts>>

StartResume(c) ==
    LET a == NoteDeviceBack(attempt)
    IN /\ check[c].pc = "act" /\ check[c].told /\ DeviceReady(c)
       /\ check[c].manual \/ ResumeDue(a)
       /\ attempt' = Attempted(a)
       /\ Goes(c, "resume", "online")
       /\ UNCHANGED <<device, stopped, printer, restarts>>

ResumeSucceeds(c) ==
    /\ check[c].pc = "resume"
    /\ stopped' = FALSE
    /\ Goes(c, "commit", check[c].row.status)
    /\ UNCHANGED <<device, printer, attempt, restarts>>

\* A script that timed out may have started the queue all the same.
ResumeFails(c) ==
    /\ check[c].pc = "resume"
    /\ stopped' \in {stopped, FALSE}
    /\ MarkPaused(c)
    /\ UNCHANGED <<device, printer, attempt, restarts>>

\* The UPDATE names the columns that have another value than was loaded.
CommitCheck(c) ==
    LET seen == check[c]
        written(f) == IF seen.row[f] # seen.loaded[f] THEN seen.row[f] ELSE printer[f]
    IN /\ seen.pc = "commit"
       /\ printer' = [f \in {"status", "misses"} |-> written(f)]
       /\ check' = [check EXCEPT ![c] = IdleCheck]
       /\ UNCHANGED <<device, stopped, attempt, restarts>>

CheckStep(c) ==
    \/ ProbeAnswered(c) \/ ProbeMissed(c)
    \/ SkipRecovery(c) \/ AskQueue(c)
    \/ NothingStopped(c) \/ DeviceNotReady(c) \/ NotDueYet(c)
    \/ StartResume(c) \/ ResumeSucceeds(c) \/ ResumeFails(c)
    \/ CommitCheck(c)

-----------------------------------------------------------------------------
(* Everything else.                                                        *)

DeviceChanges ==
    /\ device' \in {"healthy", "faulty", "away"} \ {device}
    /\ UNCHANGED <<stopped, printer, attempt, check, restarts>>

\* cupsd stops a queue when a backend fails badly enough.
QueueStops ==
    /\ ~stopped
    /\ stopped' = TRUE
    /\ UNCHANGED <<device, printer, attempt, check, restarts>>

Tick ==
    /\ Remembered
    /\ attempt' = [attempt EXCEPT !.age = Min({@ + 1, MaxBackoff}),
                                  !.online = IF @ = -1 THEN @ ELSE Min({@ + 1, HealthyPeriod})]
    /\ UNCHANGED <<device, stopped, printer, check, restarts>>

\* The memory of attempts goes with the process, and so do the checks.
ApiRestarts ==
    /\ attempt' = NoAttempt
    /\ check' = [c \in Checker |-> IdleCheck]
    /\ restarts < MaxRestarts /\ restarts' = restarts + 1
    /\ UNCHANGED <<device, stopped, printer>>

StatusNext ==
    \/ \E c \in Checker : CheckStep(c)
    \/ DeviceChanges \/ QueueStops \/ Tick \/ ApiRestarts

StatusSpec == StatusInit /\ [][StatusNext]_statusVars

-----------------------------------------------------------------------------
(* Fairness.  The loop comes round, cupsd is asked again and again and      *)
(* answers, the path lets a probe through again and again, and the script   *)
(* that starts the queue does not fail for ever.  Nobody has to press       *)
(* "Check Status": a check by the loop is enough.                           *)

CheckProceeds(c) ==
    \/ SkipRecovery(c) \/ AskQueue(c)
    \/ NothingStopped(c) \/ DeviceNotReady(c) \/ NotDueYet(c) \/ StartResume(c)
    \/ ResumeSucceeds(c) \/ ResumeFails(c) \/ CommitCheck(c)

LoopIsAnswered(c) == ProbeAnswered(c) /\ ~check'[c].manual

\* Also in a check whose probe was answered: the two are independent.
CupsdAnswers(c) ==
    AskQueue(c) /\ check'[c].told = stopped /\ check[c].answered /\ ~check[c].manual

StatusFairness ==
    /\ WF_statusVars(Tick)
    /\ \A c \in Checker :
           /\ WF_statusVars(CheckProceeds(c))
           /\ SF_statusVars(LoopIsAnswered(c))
           /\ SF_statusVars(CupsdAnswers(c))
           /\ SF_statusVars(ResumeSucceeds(c))

StatusFairSpec == StatusSpec /\ StatusFairness

-----------------------------------------------------------------------------
(* Properties.                                                             *)

\* A stopped queue is started again when its printer is well for good: no
\* backoff, no reading of the row that an earlier check left behind, and no
\* verdict on an earlier resume keeps it off for ever (resume_due,
\* _apply_queue_recovery).
QueueComesBack == <>[](device = "healthy") => []<>~stopped
=============================================================================
