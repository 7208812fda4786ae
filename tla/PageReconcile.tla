---------------------------- MODULE PageReconcile ----------------------------
(***************************************************************************)
(* Pages that were sent to a printer and that its own page counter never   *)
(* recorded: the counter loop (main.py, printers/snmp_counters.py), the    *)
(* sweep that follows each round of it (printers/page_reconcile.py), and   *)
(* the warning that the status poll makes of its verdict.                  *)
(*                                                                         *)
(* Time is counted in rounds of the loop.  What happens after the moment   *)
(* that round t calls now, and before that of the next, happens at t.      *)
(*                                                                         *)
(* A job here is one whose row the sweep selects: not superseded, not      *)
(* released at another printer, with a number of pages.                    *)
(***************************************************************************)
EXTENDS Integers, FiniteSetsExt

CONSTANTS
    SentJob,         \* jobs for this printer
    MaxJobPages,     \* bound: pages of a job
    Window,          \* WINDOW, in rounds
    StaleAfter,      \* STALE_AFTER, in rounds
    MinShortfall,    \* MIN_SHORTFALL
    NumRounds,       \* bound: rounds of the loop
    MaxWalkUps       \* bound: pages that are not of a job

ASSUME PageReconcileAssumption ==
    /\ {MaxJobPages, Window, StaleAfter, MinShortfall, NumRounds} \subseteq Nat \ {0}
    /\ MaxWalkUps \in Nat
    /\ IsFiniteSet(SentJob)

VARIABLES
    count,       \* the page counter of the device
    countReadings,\* the readings that are kept
    round,       \* the time, and what the loop is doing
    sentJobs,    \* each job, at the device and in its row
    verdict,     \* pages_not_printed
    walkUps,     \* pages so far that are not of a job
    blurred      \* history: a job was not all printed, counted and reported
                 \* between one reading and the next

pageReconcileVars == <<count, countReadings, round, sentJobs, verdict, walkUps, blurred>>

RoundTime == 0..NumRounds

MaxCount == MaxJobPages * Cardinality(SentJob) + MaxWalkUps

CountReading == [at: RoundTime, count: 0..MaxCount]

Round == [pc: {"idle", "ask", "sweep"}, at: RoundTime]

\* due: by how much the job moves the counter, if all of it is printed.
\* dropped: the device has done with it.  completed: completed_at of its row.
NotCompleted == -1
SentJobState == [pages: 0..MaxJobPages, duplex: BOOLEAN, due: 0..MaxJobPages,
                 printed: 0..MaxJobPages, dropped: BOOLEAN,
                 completed: RoundTime \cup {NotCompleted}]

NotSent == [pages |-> 0, duplex |-> FALSE, due |-> 0, printed |-> 0,
            dropped |-> FALSE, completed |-> NotCompleted]

\* assessed: assessed_at.
Verdict == [shortfall: 0..MaxCount, assessed: RoundTime]

NoVerdict == [shortfall |-> 0, assessed |-> 0]

PageReconcileTypeOK ==
    /\ count \in 0..MaxCount
    /\ countReadings \subseteq CountReading
    /\ round \in Round
    /\ sentJobs \in [SentJob -> SentJobState]
    /\ verdict \in Verdict
    /\ walkUps \in 0..MaxWalkUps
    /\ blurred \in BOOLEAN

PageReconcileInit ==
    /\ count = 0 /\ countReadings = {}
    /\ round = [pc |-> "idle", at |-> 0]
    /\ sentJobs = [j \in SentJob |-> NotSent]
    /\ verdict = NoVerdict
    /\ walkUps = 0 /\ blurred = FALSE

-----------------------------------------------------------------------------
(* The verdict.                                                            *)

\* Some devices count sheets and some count sides.
LeastExpected(j) == IF j.duplex THEN (j.pages + 1) \div 2 ELSE j.pages

\* Fault: a job counts from the reading before it finished.
FinishedAround(from, to) ==
    {j \in SentJob : from.at <= sentJobs[j].completed + 1 /\ sentJobs[j].completed < to.at
                     /\ sentJobs[j].completed # NotCompleted}

\* The jobs of the window that ends at the first reading after they finished.
FinishedBetween(from, to) ==
    {j \in SentJob : from.at <= sentJobs[j].completed /\ sentJobs[j].completed < to.at}

\* Less than half of what was sent, and fewer by more than an odd page; a counter
\* that went down says nothing.
WindowShortfall(from, to) ==
    LET counted  == to.count - from.count
        expected == MapThenSumSet(LAMBDA j : LeastExpected(sentJobs[j]),
                                  FinishedBetween(from, to))
    IN IF counted < 0 \/ expected - counted < MinShortfall \/ 2 * counted >= expected
       THEN 0 ELSE expected - counted

ReadingsInWindow == {r \in countReadings : r.at >= round.at - Window}

Consecutive(S) ==
    {w \in S \X S : w[1].at < w[2].at /\ ~\E r \in S : w[1].at < r.at /\ r.at < w[2].at}

Assess(S) == MapThenSumSet(LAMBDA w : WindowShortfall(w[1], w[2]), Consecutive(S))

NewestReading(S) == CHOOSE r \in S : \A q \in S : q.at <= r.at

\* Fault: dated by the clock.
SweepNow ==
    /\ round.pc = "sweep"
    /\ round' = [round EXCEPT !.pc = "idle"]
    /\ verdict' = IF Cardinality(ReadingsInWindow) < 2 THEN verdict
                  ELSE IF Assess(ReadingsInWindow) = 0 THEN NoVerdict
                  ELSE [shortfall |-> Assess(ReadingsInWindow), assessed |-> round.at]
    /\ UNCHANGED <<count, countReadings, sentJobs, walkUps, blurred>>

\* Dated by the newest reading it rests on; one who cannot be measured is left
\* as it is.
SweepUnprintedPages ==
    /\ round.pc = "sweep"
    /\ round' = [round EXCEPT !.pc = "idle"]
    /\ verdict' = IF Cardinality(ReadingsInWindow) < 2 THEN verdict
                  ELSE IF Assess(ReadingsInWindow) = 0 THEN NoVerdict
                  ELSE [shortfall |-> Assess(ReadingsInWindow),
                        assessed |-> NewestReading(ReadingsInWindow).at]
    /\ UNCHANGED <<count, countReadings, sentJobs, walkUps, blurred>>

-----------------------------------------------------------------------------
(* The loop (_snmp_counter_poll_loop, _poll_counters_sync).                *)

\* A job that is begun, or reported, and not both done with and reported.
UnderWay == {j \in SentJob : /\ sentJobs[j].printed > 0 \/ sentJobs[j].completed # NotCompleted
                             /\ ~sentJobs[j].dropped \/ sentJobs[j].completed = NotCompleted}

StartRound ==
    /\ round.pc = "idle" /\ round.at < NumRounds
    /\ round' = [pc |-> "ask", at |-> round.at + 1]
    /\ blurred' = (blurred \/ UnderWay # {})
    /\ UNCHANGED <<count, countReadings, sentJobs, verdict, walkUps>>

\* The reading bears the time from before it was asked for.
CounterAnswers ==
    /\ round.pc = "ask"
    /\ countReadings' = countReadings \cup {[at |-> round.at, count |-> count]}
    /\ round' = [round EXCEPT !.pc = "sweep"]
    /\ UNCHANGED <<count, sentJobs, verdict, walkUps, blurred>>

CounterIsSilent ==
    /\ round.pc = "ask"
    /\ round' = [round EXCEPT !.pc = "sweep"]
    /\ UNCHANGED <<count, countReadings, sentJobs, verdict, walkUps, blurred>>

\* The round or its commit fails, or SNMP polling is switched off: what it read is
\* not committed, or was not asked for.
RoundFails ==
    /\ round.pc # "idle"
    /\ round' = [round EXCEPT !.pc = "idle"]
    /\ countReadings' = {r \in countReadings : r.at # round.at}
    /\ UNCHANGED <<count, sentJobs, verdict, walkUps, blurred>>

\* A sweep that raises is logged, and the round's readings are committed all the
\* same: the verdict is the last one's.
SweepFails ==
    /\ round.pc = "sweep"
    /\ round' = [round EXCEPT !.pc = "idle"]
    /\ UNCHANGED <<count, countReadings, sentJobs, verdict, walkUps, blurred>>

\* _apply_pages_not_printed, recorded_reason.
Warned == verdict # NoVerdict /\ round.at - verdict.assessed <= StaleAfter

-----------------------------------------------------------------------------
(* The printer.                                                            *)

JobSent(j) ==
    /\ sentJobs[j] = NotSent
    /\ \E pages \in 1..MaxJobPages, duplex \in BOOLEAN :
           LET job == [NotSent EXCEPT !.pages = pages, !.duplex = duplex]
           IN \E due \in {pages, LeastExpected(job)} :
                  sentJobs' = [sentJobs EXCEPT ![j] = [job EXCEPT !.due = due]]
    /\ UNCHANGED <<count, countReadings, round, verdict, walkUps, blurred>>

\* blurred: a page that is counted between the reading's time and the reading, or
\* after its job was reported as done.
PagePrinted(j) ==
    /\ sentJobs[j].printed < sentJobs[j].due /\ ~sentJobs[j].dropped
    /\ count' = count + 1
    /\ sentJobs' = [sentJobs EXCEPT ![j].printed = @ + 1,
                                    ![j].dropped = sentJobs[j].printed + 1 = sentJobs[j].due]
    /\ blurred' = (blurred \/ round.pc = "ask" \/ sentJobs[j].completed # NotCompleted)
    /\ UNCHANGED <<countReadings, round, verdict, walkUps>>

\* It accepts the rest, and prints nothing.
JobDropped(j) ==
    /\ sentJobs[j].pages > 0 /\ ~sentJobs[j].dropped
    /\ sentJobs' = [sentJobs EXCEPT ![j].dropped = TRUE]
    /\ UNCHANGED <<count, countReadings, round, verdict, walkUps, blurred>>

\* update_job writes forwarded, at the time of the report.  A device may have
\* taken a job long before it prints it.
JobForwarded(j) ==
    /\ sentJobs[j].pages > 0 /\ sentJobs[j].completed = NotCompleted
    /\ sentJobs' = [sentJobs EXCEPT ![j].completed = round.at]
    /\ UNCHANGED <<count, countReadings, round, verdict, walkUps, blurred>>

WalkUp ==
    /\ walkUps < MaxWalkUps /\ walkUps' = walkUps + 1
    /\ count' = count + 1
    /\ UNCHANGED <<countReadings, round, sentJobs, verdict, blurred>>

PageReconcileNext ==
    \/ StartRound \/ CounterAnswers \/ CounterIsSilent \/ RoundFails
    \/ SweepUnprintedPages \/ SweepFails
    \/ \E j \in SentJob : JobSent(j) \/ PagePrinted(j) \/ JobDropped(j) \/ JobForwarded(j)
    \/ WalkUp

PageReconcileSpec == PageReconcileInit /\ [][PageReconcileNext]_pageReconcileVars

-----------------------------------------------------------------------------
(* Properties.                                                             *)

\* Counts that jobs were good for, and that the device never made.
Unprinted == MapThenSumSet(LAMBDA j : IF sentJobs[j].dropped
                                      THEN sentJobs[j].due - sentJobs[j].printed ELSE 0,
                           SentJob)

\* A warning rests on a reading that is not older than STALE_AFTER: a printer
\* that nobody can see any more is not warned about for as long as its last
\* readings stay in the window (sweep_unprinted_pages, recorded_reason).
WarningIsFresh ==
    Warned => \E r \in countReadings : round.at - r.at <= StaleAfter

\* Where every job was printed, counted and reported between two readings, the
\* pages that are called lost were lost, through failed rounds, missing readings
\* and pages of others (assess).
AlarmIsEarned == ~blurred => verdict.shortfall <= Unprinted
=============================================================================
