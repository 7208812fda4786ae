---------------------------- MODULE InkCoverage ----------------------------
(***************************************************************************)
(* Measuring the ink of printed jobs from the documents that cupsd keeps   *)
(* (coverage/worker.py, coverage/spool.py, the coverage loop of main.py).  *)
(*                                                                         *)
(* Each cycle of the loop takes a batch of jobs that have no coverage row  *)
(* and records one for each.  Jobs are known by cupsd's number, which is   *)
(* given out again when the spool was cleared.                             *)
(*                                                                         *)
(* Time is counted in intervals of the loop.  A job is of one document;    *)
(* there is one loop, so that no two cycles overlap.                       *)
(***************************************************************************)
EXTENDS Integers, FiniteSetsExt

CONSTANTS
    NumInkJobs,     \* bound: jobs, in the order of created_at
    SETTLE,         \* in intervals of the loop
    HORIZON,
    BATCH,
    MATCH_WINDOW,
    LastTime,       \* bound: the latest time there is
    MaxCleared      \* bound: how often the spool is cleared

ASSUME InkCoverageAssumption ==
    /\ {NumInkJobs, SETTLE, HORIZON, BATCH, MATCH_WINDOW, LastTime} \subseteq Nat
    /\ 1 <= SETTLE /\ SETTLE <= HORIZON
    /\ MaxCleared \in Nat

VARIABLES
    clock,
    spooledJobs,    \* each job: its number, its document, its row
    nextNumber,     \* cupsd's next job number
    coverage,       \* job_coverage
    batch,          \* jobs that the cycle in progress has still to measure
    cycled,         \* history: a cycle has begun and ended in this interval
    kept,           \* history: the loop came round in every interval, and no
                    \* measurement failed without leaving a row
    crowded,        \* history: jobs that came when too many were waiting
    clears

inkCoverageVars ==
    <<clock, spooledJobs, nextNumber, coverage, batch, cycled, kept, crowded, clears>>

InkJob == 1..NumInkJobs

CoverageTime == 0..LastTime

NotYet == -1

\* written: when its document was spooled.  stored: the document is there.
\* created: created_at of its row.
SpooledJob == [number: 0..NumInkJobs, written: CoverageTime \cup {NotYet}, stored: BOOLEAN,
               created: CoverageTime \cup {NotYet}]

NotSpooled == [number |-> 0, written |-> NotYet, stored |-> FALSE, created |-> NotYet]

\* from: history, the job whose document was measured, 0 for none.
CoverageRow == [state: {"none", "measured", "unsupported", "failed", "expired"},
                from: 0..NumInkJobs]

NoCoverage == [state |-> "none", from |-> 0]

InkCoverageTypeOK ==
    /\ clock \in CoverageTime
    /\ spooledJobs \in [InkJob -> SpooledJob]
    /\ nextNumber \in 1..NumInkJobs + 1
    /\ coverage \in [InkJob -> CoverageRow]
    /\ batch \subseteq InkJob
    /\ cycled \in BOOLEAN /\ kept \in BOOLEAN
    /\ crowded \subseteq InkJob
    /\ clears \in 0..MaxCleared

InkCoverageInit ==
    /\ clock = 0 /\ nextNumber = 1 /\ clears = 0
    /\ spooledJobs = [j \in InkJob |-> NotSpooled]
    /\ coverage = [j \in InkJob |-> NoCoverage]
    /\ batch = {} /\ cycled = FALSE /\ kept = TRUE /\ crowded = {}

-----------------------------------------------------------------------------
(* cupsd and the job API.                                                  *)

JobSpooled(j) ==
    /\ spooledJobs[j] = NotSpooled
    /\ spooledJobs' = [spooledJobs EXCEPT ![j] =
           [number |-> nextNumber, written |-> clock, stored |-> TRUE, created |-> NotYet]]
    /\ nextNumber' = nextNumber + 1
    /\ UNCHANGED <<clock, coverage, batch, cycled, kept, crowded, clears>>

Logged == {j \in InkJob : spooledJobs[j].created # NotYet}

Unrecorded == {j \in Logged : coverage[j] = NoCoverage}

\* A job that waits its turn is logged later than it was spooled, and jobs of
\* several printers in another order.  The cycles until it is too old have room
\* for so many jobs and no more.
JobLogged(j) ==
    /\ spooledJobs[j].written # NotYet /\ j \notin Logged /\ 1..j - 1 \subseteq Logged
    /\ spooledJobs' = [spooledJobs EXCEPT ![j].created = clock]
    /\ crowded' = IF Cardinality(Unrecorded) < BATCH * (HORIZON - SETTLE + 1)
                  THEN crowded ELSE crowded \cup {j}
    /\ UNCHANGED <<clock, nextNumber, coverage, batch, cycled, kept, clears>>

\* "CUPS keeps job data for PreserveJobFiles", as long as HORIZON.
DocumentExpires(j) ==
    /\ spooledJobs[j].stored /\ clock - spooledJobs[j].written >= HORIZON
    /\ spooledJobs' = [spooledJobs EXCEPT ![j].stored = FALSE]
    /\ UNCHANGED <<clock, nextNumber, coverage, batch, cycled, kept, crowded, clears>>

SpoolCleared ==
    /\ clears < MaxCleared /\ clears' = clears + 1
    /\ spooledJobs' = [j \in InkJob |-> [spooledJobs[j] EXCEPT !.stored = FALSE]]
    /\ nextNumber' = 1
    /\ UNCHANGED <<clock, coverage, batch, cycled, kept, crowded>>

-----------------------------------------------------------------------------
(* The loop (_coverage_measure_loop).                                      *)

Age(j) == clock - spooledJobs[j].created

UnmeasuredJobs == {j \in Unrecorded : SETTLE <= Age(j) /\ Age(j) <= HORIZON}

\* Fault: the newest first.
NewestFirst(S) ==
    {j \in S : Cardinality({i \in S : i > j}) < BATCH}

OldestFirst(S) ==
    {j \in S : Cardinality({i \in S : i < j}) < BATCH}

StartCycle ==
    /\ batch = {} /\ ~cycled
    /\ batch' = OldestFirst(UnmeasuredJobs)
    /\ cycled' = TRUE
    /\ UNCHANGED <<clock, spooledJobs, nextNumber, coverage, kept, crowded, clears>>

\* document_paths: whatever has the number by now.
DocumentOf(j) ==
    {i \in InkJob : spooledJobs[i].stored /\ spooledJobs[i].number = spooledJobs[j].number}

\* "Matching on the id and nothing else would eventually attribute one person's
\* document to another."
PlausibleFor(i, j) ==
    LET apart == spooledJobs[i].written - spooledJobs[j].created
    IN -MATCH_WINDOW <= apart /\ apart <= MATCH_WINDOW

Measured(documents) ==
    IF documents = {} THEN {[state |-> "expired", from |-> 0]}
    ELSE [state: {"measured", "unsupported", "failed"}, from: documents]

\* Fault: the number is enough.
AnyOutcomes(j) == Measured(DocumentOf(j))

Outcomes(j) == Measured({i \in DocumentOf(j) : PlausibleFor(i, j)})

MeasureJob(j) ==
    /\ j \in batch
    /\ coverage' \in {[coverage EXCEPT ![j] = row] : row \in Outcomes(j)}
    /\ batch' = batch \ {j}
    /\ UNCHANGED <<clock, spooledJobs, nextNumber, cycled, kept, crowded, clears>>

\* No row is written, and the job is retried next cycle; when the process dies
\* in the middle of a cycle, the rest of the batch is too.
MeasuringFails(j) ==
    /\ j \in batch
    /\ batch' \in {batch \ {j}, {}}
    /\ kept' = FALSE
    /\ UNCHANGED <<clock, spooledJobs, nextNumber, coverage, cycled, crowded, clears>>

\* An interval without a cycle: the process was down, or the last cycle took
\* longer than that.
IntervalEnds ==
    /\ clock < LastTime /\ clock' = clock + 1
    /\ kept' = (kept /\ cycled /\ batch = {})
    /\ cycled' = (batch # {})
    /\ UNCHANGED <<spooledJobs, nextNumber, coverage, batch, crowded, clears>>

InkCoverageNext ==
    \/ \E j \in InkJob : \/ JobSpooled(j) \/ JobLogged(j) \/ DocumentExpires(j)
                            \/ MeasureJob(j) \/ MeasuringFails(j)
    \/ StartCycle \/ SpoolCleared \/ IntervalEnds

InkCoverageSpec == InkCoverageInit /\ [][InkCoverageNext]_inkCoverageVars

-----------------------------------------------------------------------------
(* Properties.                                                             *)

\* "The jobs simply disappear from the query": a job is too old to be measured
\* and has no row only if the loop missed an interval, if a measurement failed,
\* or if more jobs were waiting when it came than the cycles until then could
\* take.  No later job takes its turn (unmeasured_jobs, _coverage_measure_loop).
GapIsExplained ==
    kept => \A j \in Unrecorded \ crowded : Age(j) <= HORIZON

\* The ink of a document is recorded for the job it was printed by; for another
\* one only if the spool was cleared between the two, the number was given out
\* again, and that within MATCH_WINDOW (document_paths, plausible_for).
MeasuredIsOwn ==
    \A j \in Logged : LET i == coverage[j].from IN
        i \notin {0, j} => /\ clears > 0 /\ spooledJobs[i].number = spooledJobs[j].number
                           /\ spooledJobs[i].written - spooledJobs[j].created <= MATCH_WINDOW
=============================================================================
