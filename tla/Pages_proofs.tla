----------------------------- MODULE Pages_proofs -----------------------------
(***************************************************************************)
(* Proofs about counting what was printed: the ink of printed jobs         *)
(* (InkCoverage), and the pages that a printer counted (PageReconcile),    *)
(* for any number of jobs, any settings of the loops, any number of        *)
(* rounds and of cleared spools.                                           *)
(***************************************************************************)
EXTENDS InkCoverage, PageReconcile, Sums

-----------------------------------------------------------------------------
(***************************************************************************)
(* InkCoverage. A measurement is of the job's own document because         *)
(* nothing it was matched by changes afterwards (a job's number and        *)
(* times are written once), and because cupsd gives no number out twice    *)
(* until its spool is cleared (NumbersApart).                              *)
(***************************************************************************)

WasSpooled(j) == spooledJobs[j].written # NotYet

\* The parts of the type invariant that the argument needs.
InkTyped ==
    /\ clock \in Nat /\ nextNumber \in Nat /\ clears \in Nat
    /\ spooledJobs \in [InkJob -> [number: Nat, written: Nat \cup {NotYet}, stored: BOOLEAN,
                                   created: Nat \cup {NotYet}]]
    /\ coverage \in [InkJob -> CoverageRow]

\* What is logged or stored was spooled.
SpooledFirst ==
    \A j \in InkJob : spooledJobs[j].stored \/ spooledJobs[j].created # NotYet => WasSpooled(j)

\* What is measured was logged, and what it was measured from was spooled.
MeasuredWasLogged ==
    /\ batch \subseteq Logged
    /\ \A j \in InkJob : coverage[j].from # 0 => j \in Logged /\ WasSpooled(coverage[j].from)

\* Until the spool is cleared no two jobs have one number.
NumbersApart ==
    clears = 0 =>
        /\ \A j \in InkJob : WasSpooled(j) => spooledJobs[j].number < nextNumber
        /\ \A i, j \in InkJob :
              WasSpooled(i) /\ WasSpooled(j) /\ spooledJobs[i].number = spooledJobs[j].number => i = j

InkInv == InkTyped /\ SpooledFirst /\ MeasuredWasLogged /\ NumbersApart /\ MeasuredIsOwn

-----------------------------------------------------------------------------
LEMMA InkStarts == InkCoverageInit => InkInv
<1> SUFFICES ASSUME InkCoverageInit PROVE InkInv
  OBVIOUS
<1>1. /\ \A j \in InkJob : /\ ~WasSpooled(j) /\ ~spooledJobs[j].stored
                           /\ spooledJobs[j].created = NotYet /\ coverage[j].from = 0
      /\ batch = {}
  BY DEF InkCoverageInit, NotSpooled, NoCoverage, WasSpooled
<1>2. InkTyped
  BY InkCoverageAssumption
     DEF InkCoverageInit, InkTyped, NotSpooled, NoCoverage, CoverageRow, InkJob, CoverageTime
<1> QED
  BY <1>1, <1>2
     DEF InkInv, SpooledFirst, MeasuredWasLogged, NumbersApart, MeasuredIsOwn, Logged

-----------------------------------------------------------------------------
\* What of a job a step leaves alone: what was written stays, and nothing is
\* stored that was not.
JobStays(j) ==
    /\ spooledJobs'[j].number = spooledJobs[j].number
    /\ spooledJobs'[j].written = spooledJobs[j].written
    /\ spooledJobs[j].created # NotYet => spooledJobs'[j].created = spooledJobs[j].created
    /\ spooledJobs'[j].created # NotYet => WasSpooled(j)
    /\ spooledJobs'[j].stored => spooledJobs[j].stored

LEMMA StaysKeeps ==
    ASSUME InkInv, InkTyped', UNCHANGED coverage, \A j \in InkJob : JobStays(j),
           clears' \in Nat, (clears' = clears /\ nextNumber' = nextNumber) \/ clears' > 0,
           clears' > 0 \/ clears = 0,
           batch' \subseteq Logged
    PROVE  InkInv'
<1>1. SpooledFirst'
  BY DEF InkInv, SpooledFirst, JobStays, WasSpooled
<1>2. \A j \in InkJob : WasSpooled(j)' <=> WasSpooled(j)
  BY DEF JobStays, WasSpooled
<1>3. Logged \subseteq Logged'
  BY DEF JobStays, Logged
<1>4. \A j \in InkJob : coverage[j].from \in InkJob \cup {0}
  BY DEF InkInv, InkTyped, CoverageRow, InkJob
<1>5. MeasuredWasLogged'
  BY <1>2, <1>3, <1>4 DEF InkInv, MeasuredWasLogged
<1>6. NumbersApart'
  BY <1>2 DEF InkInv, NumbersApart, JobStays
<1>7. MeasuredIsOwn'
  <2>1. ASSUME NEW j \in Logged', coverage[j].from \notin {0, j}
        PROVE  LET i == coverage[j].from IN
               /\ clears' > 0 /\ spooledJobs'[i].number = spooledJobs'[j].number
               /\ spooledJobs'[i].written - spooledJobs'[j].created <= MATCH_WINDOW
    <3> DEFINE i == coverage[j].from
    <3>1. j \in InkJob /\ i \in InkJob
      BY <1>4, <2>1 DEF Logged
    <3>2. j \in Logged
      BY <2>1, <3>1 DEF InkInv, MeasuredWasLogged
    <3>3. /\ clears > 0 /\ spooledJobs[i].number = spooledJobs[j].number
          /\ spooledJobs[i].written - spooledJobs[j].created <= MATCH_WINDOW
      BY <2>1, <3>2 DEF InkInv, MeasuredIsOwn
    <3>4. /\ spooledJobs'[i].number = spooledJobs[i].number
          /\ spooledJobs'[i].written = spooledJobs[i].written
          /\ spooledJobs'[j].number = spooledJobs[j].number
          /\ spooledJobs'[j].created = spooledJobs[j].created
      BY <3>1, <3>2 DEF JobStays, Logged
    <3>5. clears' > 0
      BY <3>3
    <3> QED BY <3>3, <3>4, <3>5
  <2> QED BY <2>1 DEF MeasuredIsOwn
<1> QED
  BY <1>1, <1>5, <1>6, <1>7 DEF InkInv

-----------------------------------------------------------------------------
LEMMA SpoolKeeps == ASSUME InkInv, NEW j \in InkJob, JobSpooled(j) PROVE InkInv'
<1> DEFINE new == [number |-> nextNumber, written |-> clock, stored |-> TRUE,
                   created |-> NotYet]
<1>1. /\ spooledJobs[j] = NotSpooled /\ spooledJobs' = [spooledJobs EXCEPT ![j] = new]
      /\ nextNumber' = nextNumber + 1
      /\ UNCHANGED <<clock, coverage, batch, clears>>
  BY DEF JobSpooled
<1>2. /\ new \in [number: Nat, written: Nat \cup {NotYet}, stored: BOOLEAN,
                  created: Nat \cup {NotYet}]
      /\ new.number = nextNumber /\ new.written = clock /\ new.created = NotYet
      /\ clock # NotYet
  BY DEF InkInv, InkTyped, NotYet
<1> HIDE DEF new
<1>3. InkTyped'
  BY <1>1, <1>2 DEF InkInv, InkTyped
<1>4. ~WasSpooled(j) /\ spooledJobs[j].created = NotYet /\ j \notin Logged
  BY <1>1 DEF NotSpooled, WasSpooled, Logged
<1>5. /\ spooledJobs'[j] = new
      /\ \A k \in InkJob : k # j => spooledJobs'[k] = spooledJobs[k]
  BY <1>1 DEF InkInv, InkTyped
<1>6. /\ WasSpooled(j)'
      /\ \A k \in InkJob : k # j => (WasSpooled(k)' <=> WasSpooled(k))
  BY <1>2, <1>5 DEF WasSpooled
<1>7. SpooledFirst'
  BY <1>5, <1>6 DEF InkInv, SpooledFirst
<1>8. Logged' = Logged
  BY <1>2, <1>4, <1>5 DEF Logged
<1>9. ASSUME NEW k \in InkJob, coverage[k].from # 0
      PROVE  /\ k \in Logged /\ k # j
             /\ coverage[k].from \in InkJob /\ coverage[k].from # j
             /\ WasSpooled(coverage[k].from)
  <2>1. coverage[k].from \in InkJob
    <3>1. coverage[k] \in CoverageRow
      BY DEF InkInv, InkTyped
    <3>2. coverage[k].from \in 0..NumInkJobs
      BY <3>1 DEF CoverageRow
    <3> QED BY <1>9, <3>2, InkCoverageAssumption DEF InkJob
  <2> QED BY <1>4, <1>9, <2>1 DEF InkInv, MeasuredWasLogged
<1>10. MeasuredWasLogged'
  BY <1>1, <1>6, <1>8, <1>9 DEF InkInv, MeasuredWasLogged
<1>11. NumbersApart'
  <2> SUFFICES ASSUME clears = 0 PROVE NumbersApart'
    BY <1>1 DEF NumbersApart
  <2>1. ASSUME NEW k \in InkJob, WasSpooled(k)' PROVE spooledJobs'[k].number < nextNumber'
    <3>1. CASE k = j
      BY <1>1, <1>2, <1>5, <3>1 DEF InkInv, InkTyped
    <3>2. CASE k # j
      <4>1. spooledJobs[k].number < nextNumber /\ spooledJobs[k].number \in Nat
        BY <1>6, <2>1, <3>2 DEF InkInv, NumbersApart, InkTyped
      <4>2. nextNumber \in Nat
        BY DEF InkInv, InkTyped
      <4>3. spooledJobs[k].number < nextNumber + 1
        BY <4>1, <4>2
      <4> QED BY <1>1, <1>5, <3>2, <4>3
    <3> QED BY <3>1, <3>2
  <2>2. ASSUME NEW k \in InkJob, k # j, WasSpooled(k)
        PROVE  spooledJobs'[k].number # spooledJobs'[j].number
    <3>1. spooledJobs[k].number < nextNumber /\ spooledJobs[k].number \in Nat
      BY <2>2 DEF InkInv, NumbersApart, InkTyped
    <3>2. nextNumber \in Nat
      BY DEF InkInv, InkTyped
    <3>3. spooledJobs[k].number # nextNumber
      BY <3>1, <3>2
    <3> QED BY <1>2, <1>5, <2>2, <3>3
  <2>3. ASSUME NEW i \in InkJob, NEW k \in InkJob, WasSpooled(i)', WasSpooled(k)',
               spooledJobs'[i].number = spooledJobs'[k].number
        PROVE  i = k
    <3>1. CASE i # j /\ k # j
      BY <1>5, <1>6, <2>3, <3>1 DEF InkInv, NumbersApart
    <3>2. CASE i = j \/ k = j
      BY <1>6, <2>2, <2>3, <3>2
    <3> QED BY <3>1, <3>2
  <2> QED BY <2>1, <2>3 DEF NumbersApart
<1>12. MeasuredIsOwn'
  <2>1. ASSUME NEW k \in Logged, coverage[k].from \notin {0, k}
        PROVE  LET i == coverage[k].from IN
               /\ clears' > 0 /\ spooledJobs'[i].number = spooledJobs'[k].number
               /\ spooledJobs'[i].written - spooledJobs'[k].created <= MATCH_WINDOW
    <3>1. k \in InkJob /\ k # j /\ coverage[k].from \in InkJob /\ coverage[k].from # j
      BY <1>9, <2>1 DEF Logged
    <3> QED BY <1>1, <1>5, <2>1, <3>1 DEF InkInv, MeasuredIsOwn
  <2> QED BY <1>1, <1>8, <2>1 DEF MeasuredIsOwn
<1> QED
  BY <1>3, <1>7, <1>10, <1>11, <1>12 DEF InkInv

\* Logging, and what removes documents.
LEMMA SpooledMoves ==
    ASSUME InkInv,
           SpoolCleared \/ \E j \in InkJob : JobLogged(j) \/ DocumentExpires(j)
    PROVE  InkInv'
<1> USE DEF InkInv
<1>1. UNCHANGED <<clock, coverage, batch>>
  BY DEF JobLogged, DocumentExpires, SpoolCleared
<1>2. /\ clears' \in Nat /\ nextNumber' \in Nat /\ (clears' > 0 \/ clears = 0)
      /\ (clears' = clears /\ nextNumber' = nextNumber) \/ clears' > 0
  BY InkCoverageAssumption DEF JobLogged, DocumentExpires, SpoolCleared, InkTyped
<1>3. ASSUME NEW k \in InkJob PROVE JobStays(k)
  BY DEF JobLogged, DocumentExpires, SpoolCleared, JobStays, InkTyped, Logged, SpooledFirst, WasSpooled
<1>4. InkTyped'
  <2> DEFINE R == [number: Nat, written: Nat \cup {NotYet}, stored: BOOLEAN,
                   created: Nat \cup {NotYet}]
  <2>1. ASSUME NEW r \in R
        PROVE  [r EXCEPT !.stored = FALSE] \in R /\ [r EXCEPT !.created = clock] \in R
    BY DEF InkTyped
  <2>2. spooledJobs \in [InkJob -> R]
    BY DEF InkTyped
  <2> HIDE DEF R
  <2>3. spooledJobs' \in [InkJob -> R]
    <3>1. CASE \E j \in InkJob : JobLogged(j)
      <4>1. PICK j \in InkJob :
               spooledJobs' = [spooledJobs EXCEPT ![j].created = clock]
        BY <3>1 DEF JobLogged
      <4>2. [spooledJobs[j] EXCEPT !.created = clock] \in R
        BY <2>1, <2>2
      <4> QED BY <2>2, <4>1, <4>2
    <3>2. CASE \E j \in InkJob : DocumentExpires(j)
      <4>1. PICK j \in InkJob :
               spooledJobs' = [spooledJobs EXCEPT ![j].stored = FALSE]
        BY <3>2 DEF DocumentExpires
      <4>2. [spooledJobs[j] EXCEPT !.stored = FALSE] \in R
        BY <2>1, <2>2
      <4> QED BY <2>2, <4>1, <4>2
    <3>3. CASE SpoolCleared
      BY <2>1, <2>2, <3>3 DEF SpoolCleared
    <3> QED BY <3>1, <3>2, <3>3
  <2> QED BY <1>1, <1>2, <2>3 DEF InkTyped, R
<1>5. batch' \subseteq Logged
  BY <1>1 DEF MeasuredWasLogged
<1> QED
  BY <1>1, <1>2, <1>3, <1>4, <1>5, StaysKeeps

\* The loop, as long as it records nothing.
LEMMA LoopKeeps ==
    ASSUME InkInv, StartCycle \/ IntervalEnds \/ \E j \in InkJob : MeasuringFails(j)
    PROVE  InkInv'
<1> USE DEF InkInv
<1>1. UNCHANGED <<spooledJobs, nextNumber, coverage, clears>> /\ clock' \in Nat
  BY DEF StartCycle, IntervalEnds, MeasuringFails, InkTyped
<1>2. batch' \subseteq Logged
  BY DEF StartCycle, IntervalEnds, MeasuringFails, MeasuredWasLogged,
         OldestFirst, UnmeasuredJobs, Unrecorded
<1>3. InkTyped'
  BY <1>1 DEF InkTyped
<1>4. \A j \in InkJob : JobStays(j)
  BY <1>1 DEF JobStays, SpooledFirst
<1>5. clears \in Nat /\ (clears > 0 \/ clears = 0)
  BY DEF InkTyped
<1> QED
  BY <1>1, <1>2, <1>3, <1>4, <1>5, StaysKeeps

LEMMA MeasureKeeps == ASSUME InkInv, NEW j \in InkJob, MeasureJob(j) PROVE InkInv'
<1> USE DEF InkInv
<1>1. /\ j \in batch /\ batch' = batch \ {j}
      /\ UNCHANGED <<clock, spooledJobs, nextNumber, clears>>
  BY DEF MeasureJob
<1>2. j \in Logged /\ WasSpooled(j)
  BY <1>1 DEF MeasuredWasLogged, SpooledFirst, Logged
<1>3. PICK row \in Outcomes(j) : coverage' = [coverage EXCEPT ![j] = row]
  BY DEF MeasureJob
<1>4. /\ row \in CoverageRow
      /\ row.from # 0 => row.from \in DocumentOf(j) /\ PlausibleFor(row.from, j)
  <2> DEFINE documents == {i \in DocumentOf(j) : PlausibleFor(i, j)}
  <2>1. documents \subseteq 0..NumInkJobs
    BY InkCoverageAssumption DEF DocumentOf, InkJob
  <2>2. row \in Measured(documents)
    BY <1>3 DEF Outcomes
  <2>3. row.from # 0 => row.from \in documents
    <3> HIDE DEF documents
    <3> QED BY <2>2 DEF Measured
  <2>4. row \in CoverageRow
    <3> HIDE DEF documents
    <3>1. 0 \in 0..NumInkJobs
      BY InkCoverageAssumption
    <3>2. CASE documents = {}
      BY <2>2, <3>1, <3>2 DEF Measured, CoverageRow
    <3>3. CASE documents # {}
      BY <2>1, <2>2, <3>3 DEF Measured, CoverageRow
    <3> QED BY <3>2, <3>3
  <2> QED BY <2>3, <2>4
<1>5. row.from # 0 => /\ row.from \in InkJob /\ WasSpooled(row.from)
                      /\ spooledJobs[row.from].number = spooledJobs[j].number
  BY <1>4 DEF DocumentOf, SpooledFirst
<1>6. /\ coverage'[j] = row
      /\ \A k \in InkJob : k # j => coverage'[k] = coverage[k]
  BY <1>3 DEF InkTyped
<1>7. InkTyped'
  BY <1>1, <1>3, <1>4 DEF InkTyped
<1>8. SpooledFirst' /\ NumbersApart' /\ Logged' = Logged
  BY <1>1 DEF SpooledFirst, NumbersApart, WasSpooled, Logged
<1>9. MeasuredWasLogged'
  <2>1. ASSUME NEW k \in InkJob, coverage'[k].from # 0
        PROVE  k \in Logged /\ spooledJobs[coverage'[k].from].written # NotYet
    <3>1. CASE k = j
      BY <1>2, <1>5, <1>6, <2>1, <3>1 DEF WasSpooled
    <3>2. CASE k # j
      BY <1>6, <2>1, <3>2 DEF MeasuredWasLogged, WasSpooled
    <3> QED BY <3>1, <3>2
  <2>2. batch' \subseteq Logged
    BY <1>1 DEF MeasuredWasLogged
  <2> QED BY <1>1, <1>8, <2>1, <2>2 DEF MeasuredWasLogged, WasSpooled
<1>10. MeasuredIsOwn'
  <2>1. ASSUME NEW k \in Logged, NEW i, i = coverage'[k].from, i \notin {0, k}
        PROVE  /\ clears > 0 /\ spooledJobs[i].number = spooledJobs[k].number
               /\ spooledJobs[i].written - spooledJobs[k].created <= MATCH_WINDOW
    <3>1. CASE k = j
      <4>1. /\ i \in InkJob /\ WasSpooled(i) /\ PlausibleFor(i, j)
            /\ spooledJobs[i].number = spooledJobs[j].number
        BY <1>4, <1>5, <1>6, <2>1, <3>1
      <4>2. clears # 0
        BY <1>2, <2>1, <3>1, <4>1 DEF NumbersApart
      <4>3. clears > 0
        BY <4>2 DEF InkTyped
      <4> QED BY <3>1, <4>1, <4>3 DEF PlausibleFor
    <3>2. CASE k # j
      <4>1. coverage'[k] = coverage[k]
        BY <1>6, <3>2 DEF Logged
      <4> QED BY <2>1, <4>1 DEF MeasuredIsOwn
    <3> QED BY <3>1, <3>2
  <2> QED BY <1>1, <1>8, <2>1 DEF MeasuredIsOwn
<1> QED
  BY <1>7, <1>8, <1>9, <1>10

-----------------------------------------------------------------------------
\* The invariant above holds (coverage/worker.py, coverage/spool.py).
THEOREM InkInvHolds == InkCoverageSpec => []InkInv
<1>1. InkCoverageInit => InkInv
  BY InkStarts
<1>2. InkInv /\ [InkCoverageNext]_inkCoverageVars => InkInv'
  <2> SUFFICES ASSUME InkInv, [InkCoverageNext]_inkCoverageVars PROVE InkInv'
    OBVIOUS
  <2>1. CASE \E j \in InkJob : JobSpooled(j)
    BY <2>1, SpoolKeeps
  <2>2. CASE \E j \in InkJob : JobLogged(j) \/ DocumentExpires(j)
    BY <2>2, SpooledMoves
  <2>3. CASE \E j \in InkJob : MeasureJob(j)
    BY <2>3, MeasureKeeps
  <2>4. CASE StartCycle \/ IntervalEnds \/ \E j \in InkJob : MeasuringFails(j)
    BY <2>4, LoopKeeps
  <2>5. CASE SpoolCleared
    BY <2>5, SpooledMoves
  <2>6. CASE UNCHANGED inkCoverageVars
    BY <2>6
       DEF inkCoverageVars, InkInv, InkTyped, SpooledFirst, MeasuredWasLogged, NumbersApart,
           MeasuredIsOwn, Logged, WasSpooled
  <2> QED BY <2>1, <2>2, <2>3, <2>4, <2>5, <2>6 DEF InkCoverageNext
<1> QED
  BY <1>1, <1>2, PTL DEF InkCoverageSpec

\* The ink of a document is recorded for another job than its own only if the
\* spool was cleared between the two, the number was given out again, and that
\* within the match window (document_paths, plausible_for).
THEOREM MeasuredHolds == InkCoverageSpec => []MeasuredIsOwn
<1>1. InkInv => MeasuredIsOwn
  BY DEF InkInv
<1> QED
  BY <1>1, InkInvHolds, PTL

-----------------------------------------------------------------------------
(* No job is passed over.                                                  *)

\* Rows are created in the order of the jobs.
RowsInOrder ==
    \A j \in Logged : /\ spooledJobs[j].created <= clock
                      /\ \A i \in 1..j - 1 : i \in Logged /\ spooledJobs[i].created <= spooledJobs[j].created

\* Jobs up to j that a cycle may still take.
WaitingBefore(j) == {i \in Unrecorded : i <= j /\ Age(i) <= HORIZON}

\* The cycles that have begun since job j was old enough for one.
TurnsTaken(j) ==
    IF Age(j) < SETTLE THEN 0
    ELSE IF cycled THEN Age(j) - SETTLE + 1 ELSE Age(j) - SETTLE

\* The cycles that are left to job j have room for those that wait, and for it.
RoomIsLeft ==
    kept => \A j \in Unrecorded \ crowded :
        /\ Age(j) <= HORIZON
        /\ Cardinality(WaitingBefore(j) \ batch) <= BATCH * (HORIZON - SETTLE + 1 - TurnsTaken(j))

GapInv ==
    /\ InkInv
    /\ cycled \in BOOLEAN /\ kept \in BOOLEAN
    /\ batch \subseteq Unrecorded
    /\ RowsInOrder
    /\ RoomIsLeft

-----------------------------------------------------------------------------
LEMMA LeastJob ==
    ASSUME NEW S, S \subseteq Nat, S # {} PROVE \E x \in S : \A y \in S : x <= y
<1>1. PICK x \in S : \A y \in S : <<y, x>> \notin OpToRel(<, Nat)
  BY NatLessThanWellFounded, WFMin
<1>2. \A y \in S : ~(y < x)
  BY <1>1 DEF OpToRel
<1>3. \A y \in S : x <= y
  BY <1>2
<1> QED BY <1>3

\* A batch leaves nobody, or as many fewer as it has room for.
LEMMA BatchTakesItsShare ==
    ASSUME NEW U, U \subseteq Nat, IsFiniteSet(U), NEW R,
           R = {i \in U : ~(Cardinality({k \in U : k < i}) < BATCH)}
    PROVE  /\ IsFiniteSet(R) /\ Cardinality(R) <= Cardinality(U)
           /\ R = {} \/ Cardinality(R) <= Cardinality(U) - BATCH
<1>1. IsFiniteSet(R) /\ Cardinality(R) <= Cardinality(U)
  BY FS_Subset
<1>2. ASSUME R # {} PROVE Cardinality(R) <= Cardinality(U) - BATCH
  <2>1. PICK m \in R : \A y \in R : m <= y
    BY <1>2, LeastJob
  <2> DEFINE T == {k \in U : k < m}
  <2>2. T \in SUBSET U /\ T \cap R = {}
    <3>1. \A k \in T : k \in Nat /\ k < m
      OBVIOUS
    <3>2. m \in Nat
      BY <2>1
    <3>3. \A k \in R : k \in Nat
      OBVIOUS
    <3>4. \A k \in T : k \notin R
      BY <2>1, <3>1, <3>2, <3>3
    <3> QED BY <3>4
  <2>3. IsFiniteSet(T) /\ ~(Cardinality(T) < BATCH)
    BY <2>1, <2>2, FS_Subset
  <2> HIDE DEF T
  <2>4. Cardinality(T \cup R) = Cardinality(T) + Cardinality(R)
    <3>1. Cardinality(T \cup R) = Cardinality(T) + Cardinality(R) - Cardinality(T \cap R)
      BY <1>1, <2>3, FS_Union
    <3>2. Cardinality(T \cap R) = 0
      BY <2>2, FS_EmptySet
    <3> QED BY <1>1, <2>3, <3>1, <3>2, FS_CardinalityType
  <2>5. Cardinality(T \cup R) <= Cardinality(U)
    BY <2>2, FS_Subset
  <2> QED BY <1>1, <2>3, <2>4, <2>5, FS_CardinalityType, InkCoverageAssumption
<1> QED BY <1>1, <1>2

\* What is known of a logged job.
LEMMA LoggedTyped ==
    ASSUME GapInv, NEW j \in Logged
    PROVE  /\ j \in InkJob /\ j \in Nat /\ spooledJobs[j].created \in Nat /\ clock \in Nat
           /\ Age(j) \in Nat /\ Age(j) = clock - spooledJobs[j].created
<1>1. j \in InkJob /\ spooledJobs[j].created # NotYet
  BY DEF Logged
<1>2. spooledJobs[j].created \in Nat /\ clock \in Nat
  BY <1>1 DEF GapInv, InkInv, InkTyped
<1>3. spooledJobs[j].created <= clock
  BY DEF GapInv, RowsInOrder
<1> QED BY <1>1, <1>2, <1>3 DEF Age, InkJob

LEMMA WaitingIsFinite ==
    ASSUME NEW j, NEW S, S \subseteq WaitingBefore(j) \/ S \subseteq Unrecorded
    PROVE  IsFiniteSet(S) /\ S \subseteq Nat /\ Cardinality(S) \in Nat
<1>1. IsFiniteSet(InkJob) /\ InkJob \subseteq Nat
  <2>1. NumInkJobs \in Int /\ 1 \in Int
    BY InkCoverageAssumption
  <2>2. IsFiniteSet(1..NumInkJobs)
    BY <2>1, FS_Interval
  <2> QED BY <2>2 DEF InkJob
<1>2. S \subseteq InkJob
  BY DEF WaitingBefore, Unrecorded, Logged
<1> QED BY <1>1, <1>2, FS_Subset, FS_CardinalityType

LEMMA TurnsTyped ==
    ASSUME GapInv, NEW j \in Logged PROVE TurnsTaken(j) \in Nat
  BY LoggedTyped, InkCoverageAssumption DEF TurnsTaken, GapInv

LEMMA Shares ==
    ASSUME NEW n \in Int
    PROVE  /\ BATCH * n \in Int /\ BATCH * (n - 1) = BATCH * n - BATCH
           /\ n >= 0 => BATCH * n >= 0
  BY InkCoverageAssumption

\* Fewer wait, and no cycle has begun.
LEMMA FewerWait ==
    ASSUME GapInv, NEW j \in Unrecorded \ crowded, kept,
           Age(j)' = Age(j), TurnsTaken(j)' = TurnsTaken(j),
           (WaitingBefore(j) \ batch)' \subseteq WaitingBefore(j) \ batch
    PROVE  /\ Age(j)' <= HORIZON
           /\ Cardinality(WaitingBefore(j) \ batch)'
                 <= BATCH * (HORIZON - SETTLE + 1 - TurnsTaken(j)')
<1> DEFINE S == WaitingBefore(j) \ batch
           T == (WaitingBefore(j) \ batch)'
           room == BATCH * (HORIZON - SETTLE + 1 - TurnsTaken(j))
<1>1. Age(j) <= HORIZON /\ Cardinality(S) <= room
  BY DEF GapInv, RoomIsLeft
<1>2. IsFiniteSet(S) /\ Cardinality(S) \in Nat
  BY WaitingIsFinite
<1>3. T \subseteq S
  OBVIOUS
<1>4. TurnsTaken(j) \in Nat
  BY TurnsTyped DEF Unrecorded
<1>5. room \in Int
  BY <1>4, Shares, InkCoverageAssumption
<1> HIDE DEF S, T, room
<1>6. Cardinality(T) \in Nat /\ Cardinality(T) <= Cardinality(S)
  BY <1>2, <1>3, FS_Subset, FS_CardinalityType
<1>7. Cardinality(T) <= room
  BY <1>1, <1>2, <1>5, <1>6
<1> QED BY <1>1, <1>7 DEF T, room

LEMMA GapStarts == InkCoverageInit => GapInv
<1> SUFFICES ASSUME InkCoverageInit PROVE GapInv
  OBVIOUS
<1>1. Logged = {} /\ Unrecorded = {}
  BY DEF InkCoverageInit, Logged, Unrecorded, NotSpooled
<1>2. RowsInOrder /\ RoomIsLeft
  BY <1>1 DEF RowsInOrder, RoomIsLeft
<1> QED BY <1>2, InkStarts DEF InkCoverageInit, GapInv

\* A step that writes no row of either table, and lets no time pass.
LEMMA SameRows ==
    ASSUME GapInv, InkInv', kept' = kept, clock' = clock, cycled' = cycled, crowded' = crowded,
           batch' = batch, coverage' = coverage,
           \A j \in InkJob : spooledJobs'[j].created = spooledJobs[j].created
    PROVE  GapInv'
<1>1. Logged' = Logged
  BY DEF Logged
<1>2. Unrecorded' = Unrecorded
  BY <1>1 DEF Unrecorded
<1>3. \A j \in Logged : Age(j)' = Age(j) /\ j \in InkJob
  BY DEF Age, Logged
<1>4. RowsInOrder'
  <2>1. \A j \in Logged : 1..j - 1 \subseteq InkJob
    BY LoggedTyped, InkCoverageAssumption DEF InkJob
  <2> QED BY <1>1, <1>3, <2>1 DEF GapInv, RowsInOrder
<1>5. ASSUME NEW j \in Unrecorded \ crowded, kept
      PROVE  /\ Age(j)' <= HORIZON
             /\ Cardinality(WaitingBefore(j) \ batch)'
                   <= BATCH * (HORIZON - SETTLE + 1 - TurnsTaken(j)')
  <2>1. j \in Logged /\ Unrecorded \subseteq Logged
    BY DEF Unrecorded
  <2>2. TurnsTaken(j)' = TurnsTaken(j)
    BY <1>3, <2>1 DEF TurnsTaken
  <2>3. WaitingBefore(j)' = WaitingBefore(j)
    BY <1>2, <1>3, <2>1 DEF WaitingBefore
  <2> QED BY <1>3, <1>5, <2>1, <2>2, <2>3, FewerWait
<1>6. RoomIsLeft'
  BY <1>2, <1>5 DEF RoomIsLeft
<1> QED BY <1>2, <1>4, <1>6 DEF GapInv

LEMMA SpoolGapKeeps ==
    ASSUME GapInv, InkInv', SpoolCleared \/ \E j \in InkJob : JobSpooled(j) \/ DocumentExpires(j)
    PROVE  GapInv'
<1>1. UNCHANGED <<kept, clock, cycled, crowded, batch, coverage>>
  BY DEF SpoolCleared, JobSpooled, DocumentExpires
<1>2. \A j \in InkJob : spooledJobs'[j].created = spooledJobs[j].created
  BY DEF SpoolCleared, JobSpooled, DocumentExpires, GapInv, InkInv, InkTyped, NotSpooled
<1> QED BY <1>1, <1>2, SameRows

\* Who comes is behind all that wait, and finds room or is one of the crowd.
LEMMA LoggedGapKeeps ==
    ASSUME GapInv, InkInv', NEW j \in InkJob, JobLogged(j) PROVE GapInv'
<1>1. /\ j \notin Logged /\ 1..j - 1 \subseteq Logged
      /\ UNCHANGED <<clock, coverage, batch, cycled, kept>>
      /\ crowded' = IF Cardinality(Unrecorded) < BATCH * (HORIZON - SETTLE + 1)
                    THEN crowded ELSE crowded \cup {j}
  BY DEF JobLogged
<1>2. /\ spooledJobs'[j].created = clock
      /\ \A k \in InkJob : k # j => spooledJobs'[k] = spooledJobs[k]
  BY DEF JobLogged, GapInv, InkInv, InkTyped
<1>3. clock \in Nat /\ InkJob \subseteq Nat
  BY InkCoverageAssumption DEF GapInv, InkInv, InkTyped, InkJob
<1>4. Logged' = Logged \cup {j}
  <2>1. spooledJobs'[j].created # NotYet
    BY <1>2, <1>3 DEF NotYet
  <2> QED BY <1>2, <2>1 DEF Logged
<1>5. ASSUME NEW k \in Logged
      PROVE  k \in InkJob /\ k # j /\ k < j /\ spooledJobs'[k].created = spooledJobs[k].created
  <2>1. k \in InkJob /\ k \in Nat /\ j \in 1..NumInkJobs /\ k \in 1..NumInkJobs /\ k # j
    BY <1>1, <1>3 DEF Logged, InkJob
  <2>2. ~(j \in 1..k - 1)
    BY <1>1 DEF GapInv, RowsInOrder
  <2>3. k < j
    BY <2>1, <2>2, InkCoverageAssumption
  <2> QED BY <1>2, <2>1, <2>3
<1>6. RowsInOrder'
  <2>1. ASSUME NEW k \in Logged' PROVE
           /\ spooledJobs'[k].created <= clock'
           /\ \A i \in 1..k - 1 : i \in Logged' /\ spooledJobs'[i].created <= spooledJobs'[k].created
    <3>1. CASE k = j
      <4>1. \A i \in 1..j - 1 : i \in Logged /\ spooledJobs'[i].created <= clock
        BY <1>1, <1>5 DEF GapInv, RowsInOrder
      <4> QED BY <1>1, <1>2, <1>3, <1>4, <3>1, <4>1
    <3>2. CASE k # j
      BY <1>1, <1>4, <1>5, <3>2 DEF GapInv, RowsInOrder
    <3> QED BY <3>1, <3>2
  <2> QED BY <2>1 DEF RowsInOrder
<1>7. Unrecorded \subseteq Unrecorded' /\ Unrecorded' \subseteq Unrecorded \cup {j}
  BY <1>1, <1>4 DEF Unrecorded
<1>8. \A k \in Logged : Age(k)' = Age(k)
  BY <1>1, <1>5 DEF Age
<1>9. ASSUME NEW k \in Unrecorded \ crowded, kept
      PROVE  /\ Age(k)' <= HORIZON
             /\ Cardinality(WaitingBefore(k) \ batch)'
                   <= BATCH * (HORIZON - SETTLE + 1 - TurnsTaken(k)')
  <2>1. k \in Logged /\ Unrecorded \subseteq Logged
    BY DEF Unrecorded
  <2>2. TurnsTaken(k)' = TurnsTaken(k)
    BY <1>1, <1>8, <2>1 DEF TurnsTaken
  <2>3. ~(j <= k)
    <3>1. k < j /\ k \in Nat /\ j \in Nat
      BY <1>3, <1>5, <2>1
    <3> QED BY <3>1
  <2>4. WaitingBefore(k)' \subseteq WaitingBefore(k)
    BY <1>7, <1>8, <2>1, <2>3 DEF WaitingBefore
  <2> QED BY <1>1, <1>8, <1>9, <2>1, <2>2, <2>4, FewerWait
<1>10. ASSUME j \notin crowded'
       PROVE  /\ Age(j)' <= HORIZON
              /\ Cardinality(WaitingBefore(j) \ batch)'
                    <= BATCH * (HORIZON - SETTLE + 1 - TurnsTaken(j)')
  <2> DEFINE room == BATCH * (HORIZON - SETTLE + 1)
             T == (WaitingBefore(j) \ batch)'
  <2>1. Cardinality(Unrecorded) < room
    BY <1>1, <1>10
  <2>2. IsFiniteSet(Unrecorded) /\ Cardinality(Unrecorded) \in Nat
    BY WaitingIsFinite
  <2>3. Age(j)' = 0
    BY <1>1, <1>2, <1>3 DEF Age
  <2>4. TurnsTaken(j)' = 0
    BY <2>3, InkCoverageAssumption DEF TurnsTaken
  <2>5. T \subseteq Unrecorded \cup {j}
    BY <1>7 DEF WaitingBefore
  <2>6. room \in Int /\ HORIZON - SETTLE + 1 - 0 = HORIZON - SETTLE + 1 /\ 0 <= HORIZON
    BY Shares, InkCoverageAssumption
  <2> HIDE DEF room, T
  <2>7. /\ IsFiniteSet(Unrecorded \cup {j})
        /\ Cardinality(Unrecorded \cup {j}) <= Cardinality(Unrecorded) + 1
    <3>1. /\ IsFiniteSet(Unrecorded \cup {j})
          /\ Cardinality(Unrecorded \cup {j}) =
                IF j \in Unrecorded THEN Cardinality(Unrecorded) ELSE Cardinality(Unrecorded) + 1
      BY <2>2, FS_AddElement
    <3> QED BY <2>2, <3>1
  <2>8. Cardinality(T) \in Nat /\ Cardinality(T) <= Cardinality(Unrecorded \cup {j})
    BY <2>5, <2>7, FS_Subset, FS_CardinalityType
  <2>9. Cardinality(T) <= room
    BY <2>1, <2>2, <2>6, <2>7, <2>8, FS_CardinalityType
  <2> QED BY <2>3, <2>4, <2>6, <2>9 DEF room, T
<1>11. RoomIsLeft'
  <2> SUFFICES ASSUME kept, NEW k \in Unrecorded' \ crowded'
               PROVE  /\ Age(k)' <= HORIZON
                      /\ Cardinality(WaitingBefore(k) \ batch)'
                            <= BATCH * (HORIZON - SETTLE + 1 - TurnsTaken(k)')
    BY <1>1 DEF RoomIsLeft
  <2>1. CASE k = j
    BY <1>10, <2>1
  <2>2. CASE k # j
    BY <1>1, <1>7, <1>9, <2>2
  <2> QED BY <2>1, <2>2
<1> QED
  BY <1>1, <1>6, <1>7, <1>11 DEF GapInv

\* Every job that waits in front of one that is old enough is old enough too.
LEMMA CycleGapKeeps ==
    ASSUME GapInv, InkInv', StartCycle PROVE GapInv'
<1>1. /\ batch = {} /\ cycled = FALSE /\ cycled' = TRUE
      /\ batch' = OldestFirst(UnmeasuredJobs)
      /\ UNCHANGED <<clock, spooledJobs, coverage, kept, crowded>>
  BY DEF StartCycle, GapInv
<1>2. Logged' = Logged /\ Unrecorded' = Unrecorded /\ \A j : Age(j)' = Age(j)
  BY <1>1 DEF Logged, Unrecorded, Age
<1>3. RowsInOrder'
  BY <1>1, <1>2 DEF GapInv, RowsInOrder
<1>4. batch' \subseteq Unrecorded'
  BY <1>1, <1>2 DEF OldestFirst, UnmeasuredJobs
<1>5. ASSUME NEW j \in Unrecorded \ crowded, kept
      PROVE  /\ Age(j)' <= HORIZON
             /\ Cardinality(WaitingBefore(j) \ batch)'
                   <= BATCH * (HORIZON - SETTLE + 1 - TurnsTaken(j)')
  <2>0. j \in Logged /\ Unrecorded \subseteq Logged
    BY DEF Unrecorded
  <2>1. WaitingBefore(j)' = WaitingBefore(j)
    BY <1>2 DEF WaitingBefore
  <2>2. Age(j) \in Nat /\ Age(j) <= HORIZON
    BY <1>5, <2>0, LoggedTyped DEF GapInv, RoomIsLeft
  <2>3. CASE Age(j) < SETTLE
    <3>1. TurnsTaken(j)' = TurnsTaken(j)
      BY <1>2, <2>3 DEF TurnsTaken
    <3> QED BY <1>1, <1>2, <1>5, <2>1, <3>1, FewerWait
  <2>4. CASE ~(Age(j) < SETTLE)
    <3> DEFINE U == WaitingBefore(j)
               R == {i \in U : ~(Cardinality({k \in U : k < i}) < BATCH)}
               left == HORIZON - SETTLE + 1 - TurnsTaken(j)
    <3>1. Cardinality(U) <= BATCH * left
      <4>1. U \ batch = U
        BY <1>1
      <4> QED BY <1>5, <4>1 DEF GapInv, RoomIsLeft
    <3>2. /\ TurnsTaken(j) = Age(j) - SETTLE /\ TurnsTaken(j)' = TurnsTaken(j) + 1
          /\ left \in Nat /\ left >= 1
          /\ HORIZON - SETTLE + 1 - TurnsTaken(j)' = left - 1
      <4>1. TurnsTaken(j) = Age(j) - SETTLE /\ TurnsTaken(j)' = Age(j) - SETTLE + 1
        BY <1>1, <1>2, <2>4 DEF TurnsTaken
      <4> QED BY <2>2, <2>4, <4>1, InkCoverageAssumption
    <3>3. U = {i \in UnmeasuredJobs : i <= j}
      <4>1. ASSUME NEW i \in Unrecorded, i <= j PROVE SETTLE <= Age(i)
        <5>1. i \in Logged /\ i \in Nat /\ j \in Nat /\ i \in InkJob
          BY <2>0, LoggedTyped
        <5>2. i = j \/ i \in 1..j - 1
          BY <4>1, <5>1 DEF InkJob
        <5>3. spooledJobs[i].created <= spooledJobs[j].created
          BY <2>0, <5>1, <5>2, LoggedTyped DEF GapInv, RowsInOrder
        <5> QED BY <2>0, <2>2, <2>4, <5>1, <5>3, LoggedTyped, InkCoverageAssumption
      <4> QED BY <4>1 DEF WaitingBefore, UnmeasuredJobs
    <3>4. U \ batch' = R
      <4>1. UnmeasuredJobs \subseteq Nat /\ j \in Nat
        BY <2>0, LoggedTyped DEF UnmeasuredJobs
      <4>2. ASSUME NEW i \in U
            PROVE  {k \in U : k < i} = {k \in UnmeasuredJobs : k < i}
        <5>1. i <= j /\ i \in Nat /\ j \in Nat
          BY <3>3, <4>1, <4>2
        <5>2. ASSUME NEW k \in UnmeasuredJobs, k < i PROVE k <= j
          BY <4>1, <5>1, <5>2
        <5> HIDE DEF U
        <5> QED BY <3>3, <5>2
      <4>3. \A i \in U : i \in batch' <=> Cardinality({k \in UnmeasuredJobs : k < i}) < BATCH
        BY <1>1, <3>3 DEF OldestFirst
      <4> HIDE DEF U
      <4> QED BY <4>2, <4>3
    <3>5. IsFiniteSet(U) /\ U \subseteq Nat /\ Cardinality(U) \in Nat
      BY WaitingIsFinite
    <3> HIDE DEF U, R, left
    <3>6. /\ Cardinality(R) \in Nat
          /\ R = {} \/ Cardinality(R) <= Cardinality(U) - BATCH
      BY <3>5, BatchTakesItsShare, FS_CardinalityType DEF R
    <3>7. /\ BATCH * left \in Int /\ BATCH * (left - 1) = BATCH * left - BATCH
          /\ BATCH * (left - 1) >= 0
      BY <3>2, Shares
    <3>8. Cardinality(R) <= BATCH * (left - 1)
      <4>1. CASE R = {}
        BY <3>7, <4>1, FS_EmptySet
      <4>2. CASE R # {}
        BY <3>1, <3>5, <3>6, <3>7, <4>2, InkCoverageAssumption
      <4> QED BY <4>1, <4>2
    <3>9. (WaitingBefore(j) \ batch)' = R
      BY <2>1, <3>4 DEF U
    <3> QED BY <1>2, <2>2, <3>2, <3>8, <3>9
  <2> QED BY <2>3, <2>4
<1>6. RoomIsLeft'
  BY <1>1, <1>2, <1>5 DEF RoomIsLeft
<1> QED
  BY <1>1, <1>3, <1>4, <1>6 DEF GapInv

LEMMA MeasureGapKeeps ==
    ASSUME GapInv, InkInv', NEW j \in InkJob, MeasureJob(j) \/ MeasuringFails(j)
    PROVE  GapInv'
<1>1. UNCHANGED <<clock, spooledJobs, cycled, crowded>>
  BY DEF MeasureJob, MeasuringFails
<1>2. Logged' = Logged /\ \A k : Age(k)' = Age(k)
  BY <1>1 DEF Logged, Age
<1>3. RowsInOrder'
  BY <1>1, <1>2 DEF GapInv, RowsInOrder
<1>4. CASE MeasureJob(j)
  <2>1. j \in batch /\ batch' = batch \ {j} /\ kept' = kept
    BY <1>4 DEF MeasureJob
  <2>2. PICK row \in Outcomes(j) : coverage' = [coverage EXCEPT ![j] = row]
    BY <1>4 DEF MeasureJob
  <2>3. row # NoCoverage
    BY <2>2 DEF Outcomes, Measured, NoCoverage
  <2>4. coverage'[j] = row /\ \A k \in InkJob : k # j => coverage'[k] = coverage[k]
    BY <2>2 DEF GapInv, InkInv, InkTyped
  <2>5. Unrecorded' = Unrecorded \ {j}
    BY <1>2, <2>3, <2>4 DEF Unrecorded, Logged
  <2>6. batch' \subseteq Unrecorded'
    BY <2>1, <2>5 DEF GapInv
  <2>7. ASSUME NEW k \in Unrecorded \ crowded, kept
        PROVE  /\ Age(k)' <= HORIZON
               /\ Cardinality(WaitingBefore(k) \ batch)'
                     <= BATCH * (HORIZON - SETTLE + 1 - TurnsTaken(k)')
    <3>1. TurnsTaken(k)' = TurnsTaken(k)
      BY <1>1, <1>2 DEF TurnsTaken
    <3>2. (WaitingBefore(k) \ batch)' \subseteq WaitingBefore(k) \ batch
      BY <1>2, <2>1, <2>5 DEF WaitingBefore
    <3> QED BY <1>2, <2>7, <3>1, <3>2, FewerWait
  <2>8. RoomIsLeft'
    BY <1>1, <2>1, <2>5, <2>7 DEF RoomIsLeft
  <2> QED BY <1>1, <1>3, <2>1, <2>6, <2>8 DEF GapInv
<1>5. CASE MeasuringFails(j)
  <2>1. kept' = FALSE /\ batch' \subseteq batch /\ coverage' = coverage
    BY <1>5 DEF MeasuringFails
  <2>2. batch' \subseteq Unrecorded'
    BY <1>2, <2>1 DEF GapInv, Unrecorded
  <2> QED BY <1>1, <1>3, <2>1, <2>2 DEF GapInv, RoomIsLeft
<1> QED BY <1>4, <1>5

\* The interval in which a job would become too old had a cycle that took it.
LEMMA IntervalGapKeeps ==
    ASSUME GapInv, InkInv', IntervalEnds PROVE GapInv'
<1>1. /\ clock' = clock + 1 /\ kept' = (kept /\ cycled /\ batch = {}) /\ cycled' = (batch # {})
      /\ UNCHANGED <<spooledJobs, coverage, batch, crowded>>
  BY DEF IntervalEnds
<1>2. Logged' = Logged /\ Unrecorded' = Unrecorded
  BY <1>1 DEF Logged, Unrecorded
<1>3. \A k \in Logged : Age(k)' = Age(k) + 1
  BY <1>1, LoggedTyped DEF Age
<1>4. RowsInOrder'
  BY <1>1, <1>2, LoggedTyped DEF GapInv, RowsInOrder
<1>5. ASSUME kept', NEW j \in Unrecorded \ crowded
      PROVE  /\ Age(j)' <= HORIZON
             /\ Cardinality(WaitingBefore(j) \ batch)'
                   <= BATCH * (HORIZON - SETTLE + 1 - TurnsTaken(j)')
  <2> DEFINE S == WaitingBefore(j) \ batch
             T == (WaitingBefore(j) \ batch)'
             left == HORIZON - SETTLE + 1 - TurnsTaken(j)
  <2>0. /\ j \in Logged /\ Unrecorded \subseteq Logged
        /\ kept /\ cycled = TRUE /\ batch = {} /\ cycled' = FALSE
    BY <1>1, <1>5 DEF Unrecorded, GapInv
  <2>1. Age(j) \in Nat /\ Age(j) <= HORIZON /\ Cardinality(S) <= BATCH * left
    BY <1>5, <2>0, LoggedTyped DEF GapInv, RoomIsLeft
  <2>2. IsFiniteSet(S) /\ Cardinality(S) \in Nat
    BY WaitingIsFinite
  <2>3. j \in S
    BY <2>0, <2>1, LoggedTyped DEF WaitingBefore
  <2>4. Age(j) < HORIZON
    <3>1. Cardinality(S) # 0
      BY <2>2, <2>3, FS_EmptySet
    <3>2. ASSUME Age(j) = HORIZON PROVE FALSE
      <4>1. TurnsTaken(j) = HORIZON - SETTLE + 1
        BY <2>0, <3>2, InkCoverageAssumption DEF TurnsTaken
      <4>2. left = 0
        BY <4>1, InkCoverageAssumption
      <4>3. BATCH * left = 0
        BY <4>2, InkCoverageAssumption
      <4> HIDE DEF S, left
      <4> QED BY <2>1, <2>2, <3>1, <4>3
    <3> QED BY <2>1, <3>2, InkCoverageAssumption
  <2>5. TurnsTaken(j)' = TurnsTaken(j)
    <3>1. Age(j)' = Age(j) + 1
      BY <1>3, <2>0
    <3>2. CASE Age(j) < SETTLE
      BY <2>0, <2>1, <3>1, <3>2, InkCoverageAssumption DEF TurnsTaken
    <3>3. CASE ~(Age(j) < SETTLE)
      BY <2>0, <2>1, <3>1, <3>3, InkCoverageAssumption DEF TurnsTaken
    <3> QED BY <3>2, <3>3
  <2>6. T \subseteq S
    <3>1. \A i \in Unrecorded : Age(i)' <= HORIZON => Age(i) <= HORIZON
      BY <1>3, <2>0, LoggedTyped, InkCoverageAssumption
    <3> QED BY <1>1, <1>2, <3>1 DEF WaitingBefore
  <2>7. left \in Int /\ BATCH * left \in Int
    <3>1. TurnsTaken(j) \in Nat
      BY <2>0, TurnsTyped
    <3>2. left \in Int
      BY <3>1, InkCoverageAssumption
    <3> HIDE DEF left
    <3> QED BY <3>2, Shares
  <2> HIDE DEF S, T, left
  <2>8. Cardinality(T) \in Nat /\ Cardinality(T) <= Cardinality(S)
    BY <2>2, <2>6, FS_Subset, FS_CardinalityType
  <2>9. Cardinality(T) <= BATCH * left
    BY <2>1, <2>2, <2>7, <2>8
  <2>10. Age(j)' <= HORIZON
    BY <1>3, <2>0, <2>1, <2>4, InkCoverageAssumption
  <2> QED BY <2>5, <2>9, <2>10 DEF T, left
<1>6. RoomIsLeft'
  BY <1>1, <1>2, <1>5 DEF RoomIsLeft
<1> QED
  BY <1>1, <1>2, <1>4, <1>6 DEF GapInv

LEMMA GapIsKept == GapInv /\ InkInv' /\ [InkCoverageNext]_inkCoverageVars => GapInv'
<1> SUFFICES ASSUME GapInv, InkInv', [InkCoverageNext]_inkCoverageVars PROVE GapInv'
  OBVIOUS
<1>1. CASE SpoolCleared \/ \E j \in InkJob : JobSpooled(j) \/ DocumentExpires(j)
  BY <1>1, SpoolGapKeeps
<1>2. ASSUME NEW j \in InkJob, JobLogged(j) PROVE GapInv'
  BY <1>2, LoggedGapKeeps
<1>3. ASSUME NEW j \in InkJob, MeasureJob(j) \/ MeasuringFails(j) PROVE GapInv'
  BY <1>3, MeasureGapKeeps
<1>4. CASE StartCycle
  BY <1>4, CycleGapKeeps
<1>5. CASE IntervalEnds
  BY <1>5, IntervalGapKeeps
<1>6. CASE UNCHANGED inkCoverageVars
  BY <1>6, SameRows DEF inkCoverageVars
<1> QED
  BY <1>1, <1>2, <1>3, <1>4, <1>5, <1>6 DEF InkCoverageNext

\* A job is never too old to be measured and without a row unless the loop
\* missed an interval, a measurement failed, or more jobs were waiting when it
\* came than the cycles until then could take: whatever the sizes of the batch
\* and of the window are, no later job takes its turn (unmeasured_jobs,
\* _coverage_measure_loop).
THEOREM GapsAreExplained == InkCoverageSpec => []GapIsExplained
<1>1. InkCoverageSpec => []GapInv
  BY GapStarts, GapIsKept, InkInvHolds, PTL DEF InkCoverageSpec
<1>2. GapInv => GapIsExplained
  BY DEF GapInv, RoomIsLeft, GapIsExplained
<1> QED BY <1>1, <1>2, PTL

-----------------------------------------------------------------------------
(***************************************************************************)
(* The ranges of InkCoverage. The next number stays within bounds          *)
(* because cupsd has given out no more of them than jobs came              *)
(* (NumbersAreFew).                                                        *)
(***************************************************************************)

\* cupsd has given out no more numbers than jobs came.
EverSpooled == {j \in InkJob : WasSpooled(j)}

NumbersAreFew == nextNumber <= Cardinality(EverSpooled) + 1

InkTypeInv == InkCoverageTypeOK /\ NumbersAreFew

LEMMA EverSpooledIsFinite ==
    /\ IsFiniteSet(InkJob) /\ Cardinality(InkJob) = NumInkJobs /\ NumInkJobs \in Nat
    /\ IsFiniteSet(EverSpooled) /\ Cardinality(EverSpooled) \in Nat
    /\ EverSpooled \subseteq InkJob
<1>1. NumInkJobs \in Nat
  BY InkCoverageAssumption
<1>2. IsFiniteSet(InkJob) /\ Cardinality(InkJob) = NumInkJobs
  <2>1. IsFiniteSet(1..NumInkJobs) /\ Cardinality(1..NumInkJobs) = IF 1 > NumInkJobs THEN 0 ELSE NumInkJobs - 1 + 1
    BY <1>1, FS_Interval
  <2> QED BY <1>1, <2>1 DEF InkJob
<1>3. EverSpooled \subseteq InkJob
  BY DEF EverSpooled
<1>4. IsFiniteSet(EverSpooled) /\ Cardinality(EverSpooled) \in Nat
  BY <1>2, <1>3, FS_Subset, FS_CardinalityType
<1> QED BY <1>1, <1>2, <1>3, <1>4

LEMMA InkTypesStart == InkCoverageInit => InkTypeInv
<1> SUFFICES ASSUME InkCoverageInit PROVE InkTypeInv
  OBVIOUS
<1>1. /\ NumInkJobs \in Nat /\ LastTime \in Nat /\ MaxCleared \in Nat
  BY InkCoverageAssumption
<1>2. 0 \in CoverageTime /\ 0 \in 0..NumInkJobs /\ 1 \in 1..NumInkJobs + 1 /\ 0 \in 0..MaxCleared
  BY <1>1 DEF CoverageTime
<1>3. NotSpooled \in SpooledJob /\ NoCoverage \in CoverageRow
  BY <1>2 DEF NotSpooled, SpooledJob, NoCoverage, CoverageRow
<1>4. InkCoverageTypeOK
  BY <1>2, <1>3 DEF InkCoverageInit, InkCoverageTypeOK
<1>5. NumbersAreFew
  <2>1. nextNumber = 1
    BY DEF InkCoverageInit
  <2> QED BY <2>1, EverSpooledIsFinite DEF NumbersAreFew
<1> QED BY <1>4, <1>5 DEF InkTypeInv

\* Whether a job was spooled does not change, and neither does the next number.
LEMMA NumbersStay ==
    ASSUME NumbersAreFew, nextNumber' \in Nat, nextNumber' <= nextNumber, nextNumber \in Nat,
           \A j \in InkJob : spooledJobs'[j].written = spooledJobs[j].written
    PROVE  NumbersAreFew'
<1>1. EverSpooled' = EverSpooled
  BY DEF EverSpooled, WasSpooled
<1> QED BY <1>1, EverSpooledIsFinite DEF NumbersAreFew

LEMMA SpooledTypes ==
    ASSUME InkTypeInv, NEW j \in InkJob, JobSpooled(j) PROVE InkTypeInv'
<1> USE DEF InkTypeInv
<1> DEFINE new == [number |-> nextNumber, written |-> clock, stored |-> TRUE, created |-> NotYet]
<1>1. /\ spooledJobs[j] = NotSpooled /\ spooledJobs' = [spooledJobs EXCEPT ![j] = new]
      /\ nextNumber' = nextNumber + 1
      /\ UNCHANGED <<clock, coverage, batch, cycled, kept, crowded, clears>>
  BY DEF JobSpooled
<1>2. /\ NumInkJobs \in Nat /\ LastTime \in Nat /\ nextNumber \in 1..NumInkJobs + 1
      /\ clock \in CoverageTime /\ clock \in Nat
  BY InkCoverageAssumption DEF InkCoverageTypeOK, CoverageTime
<1>3. j \notin EverSpooled
  BY <1>1 DEF EverSpooled, WasSpooled, NotSpooled
<1>4. Cardinality(EverSpooled \cup {j}) = Cardinality(EverSpooled) + 1
      /\ IsFiniteSet(EverSpooled \cup {j})
  BY <1>3, EverSpooledIsFinite, FS_AddElement
<1>5. EverSpooled' = EverSpooled \cup {j}
  <2>1. \A i \in InkJob : spooledJobs'[i].written # NotYet <=> i = j \/ spooledJobs[i].written # NotYet
    BY <1>1, <1>2 DEF InkCoverageTypeOK, NotYet
  <2> QED BY <2>1 DEF EverSpooled, WasSpooled
<1>6. Cardinality(EverSpooled \cup {j}) <= NumInkJobs
  <2>1. EverSpooled \cup {j} \subseteq InkJob
    BY EverSpooledIsFinite
  <2> QED BY <2>1, EverSpooledIsFinite, FS_Subset
<1>7. nextNumber <= NumInkJobs /\ nextNumber + 1 <= Cardinality(EverSpooled \cup {j}) + 1
  BY <1>2, <1>4, <1>6, EverSpooledIsFinite DEF NumbersAreFew
<1>8. NumbersAreFew'
  BY <1>1, <1>5, <1>7 DEF NumbersAreFew
<1>9. new \in SpooledJob
  <2>1. nextNumber \in 0..NumInkJobs
    BY <1>2, <1>7
  <2> QED BY <1>2, <2>1 DEF SpooledJob
<1>10. nextNumber' \in 1..NumInkJobs + 1
  BY <1>1, <1>2, <1>7
<1> HIDE DEF new
<1>11. spooledJobs' \in [InkJob -> SpooledJob]
  BY <1>1, <1>9 DEF InkCoverageTypeOK
<1>12. InkCoverageTypeOK'
  BY <1>1, <1>10, <1>11 DEF InkCoverageTypeOK
<1> QED BY <1>8, <1>12

\* A job that is logged, and documents that go.
LEMMA StoredTypes ==
    ASSUME InkTypeInv, SpoolCleared \/ \E j \in InkJob : JobLogged(j) \/ DocumentExpires(j)
    PROVE  InkTypeInv'
<1> USE DEF InkTypeInv
<1>1. /\ clock \in CoverageTime /\ spooledJobs \in [InkJob -> SpooledJob]
      /\ nextNumber \in 1..NumInkJobs + 1 /\ NumInkJobs \in Nat /\ MaxCleared \in Nat
      /\ crowded \subseteq InkJob /\ clears \in 0..MaxCleared
  BY InkCoverageAssumption DEF InkCoverageTypeOK
<1>2. /\ spooledJobs' \in [InkJob -> SpooledJob]
      /\ \A i \in InkJob : spooledJobs'[i].written = spooledJobs[i].written
  <2>1. ASSUME NEW j \in InkJob, JobLogged(j)
        PROVE  spooledJobs' = [spooledJobs EXCEPT ![j].created = clock]
    BY <2>1 DEF JobLogged
  <2>2. ASSUME NEW j \in InkJob, DocumentExpires(j)
        PROVE  spooledJobs' = [spooledJobs EXCEPT ![j].stored = FALSE]
    BY <2>2 DEF DocumentExpires
  <2>3. ASSUME SpoolCleared
        PROVE  spooledJobs' = [i \in InkJob |-> [spooledJobs[i] EXCEPT !.stored = FALSE]]
    BY <2>3 DEF SpoolCleared
  <2>a. ASSUME NEW old \in SpooledJob
        PROVE  /\ [old EXCEPT !.stored = FALSE] \in SpooledJob
               /\ [old EXCEPT !.stored = FALSE].written = old.written
    BY DEF SpooledJob
  <2>b. ASSUME NEW old \in SpooledJob
        PROVE  /\ [old EXCEPT !.created = clock] \in SpooledJob
               /\ [old EXCEPT !.created = clock].written = old.written
    BY <1>1 DEF SpooledJob
  <2>4. ASSUME NEW j \in InkJob, JobLogged(j) PROVE <1>2
    <3>1. spooledJobs[j] \in SpooledJob
      BY <1>1
    <3> DEFINE new == [spooledJobs[j] EXCEPT !.created = clock]
    <3>2. new \in SpooledJob /\ new.written = spooledJobs[j].written
      BY <2>b, <3>1
    <3>3. spooledJobs' = [spooledJobs EXCEPT ![j] = new]
      BY <2>1, <2>4
    <3> HIDE DEF new
    <3> QED BY <1>1, <3>2, <3>3
  <2>5. ASSUME NEW j \in InkJob, DocumentExpires(j) PROVE <1>2
    <3>1. \A i \in InkJob : spooledJobs[i] \in SpooledJob
      BY <1>1
    <3>2. \A i \in InkJob : spooledJobs'[i] = IF i = j THEN [spooledJobs[i] EXCEPT !.stored = FALSE]
                                              ELSE spooledJobs[i]
      BY <1>1, <2>2, <2>5
    <3>3. \A i \in InkJob : spooledJobs'[i] \in SpooledJob
                            /\ spooledJobs'[i].written = spooledJobs[i].written
      BY <2>a, <3>1, <3>2
    <3>4. spooledJobs' = [i \in InkJob |-> spooledJobs'[i]]
      BY <1>1, <2>2, <2>5
    <3> QED BY <3>3, <3>4
  <2>6. ASSUME SpoolCleared PROVE <1>2
    <3>1. ASSUME NEW i \in InkJob
          PROVE  spooledJobs'[i] \in SpooledJob /\ spooledJobs'[i].written = spooledJobs[i].written
      <4>1. spooledJobs[i] \in SpooledJob /\ spooledJobs'[i] = [spooledJobs[i] EXCEPT !.stored = FALSE]
        BY <1>1, <2>3, <2>6
      <4> QED BY <2>a, <4>1
    <3>2. spooledJobs' = [i \in InkJob |-> spooledJobs'[i]]
      BY <2>3, <2>6
    <3> QED BY <3>1, <3>2
  <2> QED BY <2>4, <2>5, <2>6
<1>3. /\ nextNumber' \in 1..NumInkJobs + 1 /\ nextNumber' <= nextNumber
      /\ clears' \in 0..MaxCleared
  <2>1. ASSUME SpoolCleared PROVE <1>3
    BY <1>1, <2>1 DEF SpoolCleared
  <2>2. ASSUME NEW j \in InkJob, JobLogged(j) \/ DocumentExpires(j) PROVE <1>3
    BY <1>1, <2>2 DEF JobLogged, DocumentExpires
  <2> QED BY <2>1, <2>2
<1>4. crowded' \subseteq InkJob
  BY <1>1 DEF SpoolCleared, JobLogged, DocumentExpires
<1>5. UNCHANGED <<clock, coverage, batch, cycled, kept>>
  BY DEF SpoolCleared, JobLogged, DocumentExpires
<1>6. NumbersAreFew'
  BY <1>1, <1>2, <1>3, NumbersStay
<1> QED
  BY <1>2, <1>3, <1>4, <1>5, <1>6 DEF InkCoverageTypeOK

LEMMA LoopTypes ==
    ASSUME InkTypeInv, \/ StartCycle \/ IntervalEnds
                       \/ \E j \in InkJob : MeasureJob(j) \/ MeasuringFails(j)
    PROVE  InkTypeInv'
<1> USE DEF InkTypeInv
<1>1. /\ UNCHANGED <<spooledJobs, nextNumber, crowded, clears>>
      /\ nextNumber \in 1..NumInkJobs + 1 /\ NumInkJobs \in Nat /\ LastTime \in Nat
  BY InkCoverageAssumption
     DEF InkCoverageTypeOK, StartCycle, IntervalEnds, MeasureJob, MeasuringFails
<1>2. NumbersAreFew'
  BY <1>1, NumbersStay
<1>3. clock' \in CoverageTime
  BY <1>1 DEF StartCycle, IntervalEnds, MeasureJob, MeasuringFails, InkCoverageTypeOK, CoverageTime
<1>4. batch' \subseteq InkJob
  <2>1. OldestFirst(UnmeasuredJobs) \subseteq InkJob
    BY DEF OldestFirst, UnmeasuredJobs, Unrecorded, Logged
  <2> QED
    BY <2>1 DEF StartCycle, IntervalEnds, MeasureJob, MeasuringFails, InkCoverageTypeOK
<1>5. cycled' \in BOOLEAN /\ kept' \in BOOLEAN
  BY DEF StartCycle, IntervalEnds, MeasureJob, MeasuringFails, InkCoverageTypeOK
<1>6. coverage' \in [InkJob -> CoverageRow]
  <2>1. ASSUME NEW j \in InkJob, MeasureJob(j) PROVE coverage' \in [InkJob -> CoverageRow]
    <3>1. PICK row \in Outcomes(j) : coverage' = [coverage EXCEPT ![j] = row]
      BY <2>1 DEF MeasureJob
    <3>2. row \in CoverageRow
      <4> DEFINE D == {i \in DocumentOf(j) : PlausibleFor(i, j)}
      <4>1. D \subseteq 0..NumInkJobs /\ 0 \in 0..NumInkJobs
        BY <1>1 DEF DocumentOf, InkJob
      <4>2. row \in Measured(D)
        BY <3>1 DEF Outcomes
      <4> HIDE DEF D
      <4>3. CASE D = {}
        <5>1. row = [state |-> "expired", from |-> 0]
          BY <4>2, <4>3 DEF Measured
        <5> QED BY <4>1, <5>1 DEF CoverageRow
      <4>4. CASE D # {}
        <5>1. row \in [state: {"measured", "unsupported", "failed"}, from: D]
          BY <4>2, <4>4 DEF Measured
        <5> QED BY <4>1, <5>1 DEF CoverageRow
      <4> QED BY <4>3, <4>4
    <3> QED BY <3>1, <3>2 DEF InkCoverageTypeOK
  <2> QED
    BY <2>1 DEF StartCycle, IntervalEnds, MeasuringFails, InkCoverageTypeOK
<1> QED
  BY <1>1, <1>2, <1>3, <1>4, <1>5, <1>6 DEF InkCoverageTypeOK

\* The loop, the spool and the rows keep their ranges: in particular cupsd gives
\* out no more numbers than jobs come, from whatever it starts over
\* (unmeasured_jobs, document_paths).
THEOREM InkCoverageTyped == InkCoverageSpec => []InkCoverageTypeOK
<1>1. InkTypeInv /\ [InkCoverageNext]_inkCoverageVars => InkTypeInv'
  <2> SUFFICES ASSUME InkTypeInv, [InkCoverageNext]_inkCoverageVars PROVE InkTypeInv'
    OBVIOUS
  <2>1. CASE UNCHANGED inkCoverageVars
    BY <2>1 DEF inkCoverageVars, InkTypeInv, InkCoverageTypeOK, NumbersAreFew, EverSpooled, WasSpooled
  <2>2. CASE InkCoverageNext
    BY <2>2, SpooledTypes, StoredTypes, LoopTypes DEF InkCoverageNext
  <2> QED BY <2>1, <2>2
<1>2. InkTypeInv => InkCoverageTypeOK
  BY DEF InkTypeInv
<1> QED
  BY <1>1, <1>2, InkTypesStart, PTL DEF InkCoverageSpec

-----------------------------------------------------------------------------
(***************************************************************************)
(* PageReconcile. A verdict rests on a reading that is kept: a round       *)
(* that fails takes away its own only, and a verdict comes at the end of   *)
(* its round (VerdictRests).                                               *)
(***************************************************************************)

\* The reading that a verdict is dated by is kept: a round that fails takes away
\* its own only, and a verdict comes at the end of its round.
VerdictRests ==
    /\ verdict # NoVerdict => \E r \in countReadings : r.at = verdict.assessed
    /\ verdict.assessed \in Nat
    /\ round.pc # "idle" => verdict.assessed < round.at

ReadingsAreDated ==
    /\ round \in Round
    /\ \A r \in countReadings : r.at \in 0..NumRounds
    /\ \A r \in countReadings : r.at <= round.at
    /\ round.pc = "ask" => \A r \in countReadings : r.at < round.at

PageReconcileInv == ReadingsAreDated /\ VerdictRests
-----------------------------------------------------------------------------
\* Of finitely many readings one is the newest.
LEMMA NewestIsThere ==
    ASSUME NEW S, S # {}, \A r \in S : r.at \in 0..NumRounds
    PROVE  NewestReading(S) \in S
  <1> DEFINE Left == {NumRounds - r.at : r \in S}
  <1>1. NumRounds \in Nat
    BY PageReconcileAssumption
  <1>2. Left \subseteq Nat /\ Left # {}
    <2>1. \A r \in S : NumRounds - r.at \in Nat
      BY <1>1
    <2> QED
      BY <2>1
  <1>3. PICK x \in Left : \A y \in Left : <<y, x>> \notin OpToRel(<, Nat)
    <2> HIDE DEF Left
    <2> QED
      BY <1>2, NatLessThanWellFounded, WFMin
  <1>4. \A y \in Left : ~(y < x)
    <2> HIDE DEF Left
    <2> QED
      BY <1>2, <1>3 DEF OpToRel
  <1>5. PICK r \in S : x = NumRounds - r.at
    OBVIOUS
  <1>6. ASSUME NEW q \in S PROVE q.at <= r.at
    <2>1. ~(NumRounds - q.at < NumRounds - r.at)
      BY <1>4, <1>5
    <2> QED
      BY <1>1, <2>1
  <1> QED
    BY <1>6 DEF NewestReading

LEMMA PageReconcileStarts == PageReconcileInit => PageReconcileInv
  <1>1. 0 \in RoundTime
    BY PageReconcileAssumption DEF RoundTime
  <1> QED
    BY <1>1 DEF PageReconcileInit, PageReconcileInv, ReadingsAreDated, VerdictRests,
                NoVerdict, Round

LEMMA SweepKeepsIt == PageReconcileInv /\ SweepUnprintedPages => PageReconcileInv'
  <1> SUFFICES ASSUME PageReconcileInv, SweepUnprintedPages PROVE PageReconcileInv'
    OBVIOUS
  <1>1. /\ round.pc = "sweep" /\ round' = [round EXCEPT !.pc = "idle"]
        /\ countReadings' = countReadings
    BY DEF SweepUnprintedPages
  <1>2. round \in Round
    BY DEF PageReconcileInv, ReadingsAreDated
  <1>3. round' \in Round /\ round'.pc = "idle" /\ round'.at = round.at
    BY <1>1, <1>2 DEF Round
  <1>4. ReadingsAreDated'
    BY <1>1, <1>3 DEF PageReconcileInv, ReadingsAreDated
  <1>5. VerdictRests'
    <2>1. CASE verdict' = verdict
      BY <1>1, <1>3, <2>1 DEF PageReconcileInv, VerdictRests
    <2>2. CASE verdict' = NoVerdict
      BY <1>3, <2>2 DEF NoVerdict, VerdictRests
    <2>3. CASE /\ ~(Cardinality(ReadingsInWindow) < 2)
               /\ verdict'.assessed = NewestReading(ReadingsInWindow).at
      <3>1. ReadingsInWindow # {}
        BY <2>3, FS_EmptySet
      <3>2. ReadingsInWindow \subseteq countReadings
        BY DEF ReadingsInWindow
      <3>3. NewestReading(ReadingsInWindow) \in countReadings
        BY <3>1, <3>2, NewestIsThere DEF PageReconcileInv, ReadingsAreDated
      <3>4. verdict'.assessed \in Nat
        BY <2>3, <3>3 DEF PageReconcileInv, ReadingsAreDated
      <3> QED
        BY <1>1, <1>3, <2>3, <3>3, <3>4 DEF VerdictRests
    <2>4. \/ verdict' = verdict \/ verdict' = NoVerdict
          \/ /\ ~(Cardinality(ReadingsInWindow) < 2)
             /\ verdict' = [shortfall |-> Assess(ReadingsInWindow),
                            assessed |-> NewestReading(ReadingsInWindow).at]
      BY DEF SweepUnprintedPages
    <2> QED
      BY <2>1, <2>2, <2>3, <2>4
  <1> QED
    BY <1>4, <1>5 DEF PageReconcileInv

LEMMA RoundKeepsIt ==
    ASSUME PageReconcileInv,
           StartRound \/ CounterAnswers \/ CounterIsSilent \/ RoundFails \/ SweepFails
    PROVE  PageReconcileInv'
  <1> USE DEF PageReconcileInv
  <1>1. round \in Round /\ verdict' = verdict /\ NumRounds \in Nat
    BY PageReconcileAssumption
    DEF ReadingsAreDated, StartRound, CounterAnswers, CounterIsSilent, RoundFails, SweepFails
  <1>2. CASE StartRound
    <2>1. /\ round.pc = "idle" /\ round.at < NumRounds
          /\ round' = [pc |-> "ask", at |-> round.at + 1] /\ countReadings' = countReadings
      BY <1>2 DEF StartRound
    <2>2. round' \in Round /\ round.at \in Nat
      BY <1>1, <2>1 DEF Round, RoundTime
    <2>3. \A r \in countReadings : r.at < round.at + 1
      BY <2>2 DEF ReadingsAreDated
    <2>4. verdict.assessed < round.at + 1
      BY <2>2, <2>3 DEF ReadingsAreDated, VerdictRests, NoVerdict
    <2> QED
      BY <1>1, <2>1, <2>2, <2>3, <2>4 DEF ReadingsAreDated, VerdictRests
  <1>3. CASE CounterAnswers
    <2>1. /\ round.pc = "ask" /\ round' = [round EXCEPT !.pc = "sweep"]
          /\ countReadings' = countReadings \cup {[at |-> round.at, count |-> count]}
      BY <1>3 DEF CounterAnswers
    <2>2. round' \in Round /\ round'.pc = "sweep" /\ round'.at = round.at
      BY <1>1, <2>1 DEF Round
    <2>3. round.at \in 0..NumRounds
      BY <1>1 DEF Round, RoundTime
    <2> QED
      BY <1>1, <2>1, <2>2, <2>3 DEF ReadingsAreDated, VerdictRests
  <1>4. CASE CounterIsSilent
    <2>1. /\ round.pc = "ask" /\ round' = [round EXCEPT !.pc = "sweep"]
          /\ countReadings' = countReadings
      BY <1>4 DEF CounterIsSilent
    <2>2. round' \in Round /\ round'.pc = "sweep" /\ round'.at = round.at
      BY <1>1, <2>1 DEF Round
    <2> QED
      BY <1>1, <2>1, <2>2 DEF ReadingsAreDated, VerdictRests
  <1>5. CASE RoundFails
    <2>1. /\ round.pc # "idle" /\ round' = [round EXCEPT !.pc = "idle"]
          /\ countReadings' = {r \in countReadings : r.at # round.at}
      BY <1>5 DEF RoundFails
    <2>2. round' \in Round /\ round'.pc = "idle" /\ round'.at = round.at
      BY <1>1, <2>1 DEF Round
    <2>3. verdict.assessed # round.at
      BY <1>1, <2>1 DEF VerdictRests, Round, RoundTime
    <2> QED
      BY <1>1, <2>1, <2>2, <2>3 DEF ReadingsAreDated, VerdictRests
  <1>6. CASE SweepFails
    <2>1. /\ round' = [round EXCEPT !.pc = "idle"] /\ round.pc = "sweep"
          /\ countReadings' = countReadings
      BY <1>6 DEF SweepFails
    <2>2. round' \in Round /\ round'.pc = "idle" /\ round'.at = round.at
      BY <1>1, <2>1 DEF Round
    <2> QED
      BY <1>1, <2>1, <2>2 DEF ReadingsAreDated, VerdictRests
  <1> QED
    BY <1>2, <1>3, <1>4, <1>5, <1>6

LEMMA PageReconcileIsKept ==
    PageReconcileInv /\ [PageReconcileNext]_pageReconcileVars => PageReconcileInv'
  <1> SUFFICES ASSUME PageReconcileInv, [PageReconcileNext]_pageReconcileVars
               PROVE  PageReconcileInv'
    OBVIOUS
  <1>1. CASE UNCHANGED <<round, countReadings, verdict>>
    BY <1>1 DEF PageReconcileInv, ReadingsAreDated, VerdictRests
  <1>2. CASE \/ WalkUp \/ UNCHANGED pageReconcileVars
             \/ \E j \in SentJob : \/ JobSent(j) \/ PagePrinted(j)
                                   \/ JobDropped(j) \/ JobForwarded(j)
    BY <1>1, <1>2
    DEF JobSent, PagePrinted, JobDropped, JobForwarded, WalkUp, pageReconcileVars
  <1> QED
    BY <1>2, SweepKeepsIt, RoundKeepsIt DEF PageReconcileNext

\* A verdict rests on a reading that is kept, whatever rounds fail
\* (sweep_unprinted_pages).
THEOREM PageReconcileInvHolds == PageReconcileSpec => []PageReconcileInv
  BY PageReconcileStarts, PageReconcileIsKept, PTL DEF PageReconcileSpec

\* A printer is warned about on the strength of a reading that is kept and not
\* older than STALE_AFTER, for any jobs, window and number of rounds, whatever
\* rounds fail (sweep_unprinted_pages, recorded_reason).
THEOREM WarningsAreFresh == PageReconcileSpec => []WarningIsFresh
  <1>1. PageReconcileInv => WarningIsFresh
    BY DEF PageReconcileInv, VerdictRests, WarningIsFresh, Warned
  <1> QED
    BY <1>1, PageReconcileInvHolds, PTL

-----------------------------------------------------------------------------
(***************************************************************************)
(* What a verdict calls lost. As long as nothing was blurred, a reading    *)
(* and a later one are apart by at least what was printed of the jobs      *)
(* that were reported between them (CountedBetween). That is so of a       *)
(* reading that is just taken, because the device has counted at least     *)
(* what was printed since each reading of the jobs that were not           *)
(* reported before it (CountedSince), and because a job that was           *)
(* reported before the round had been done with, and any other had         *)
(* printed nothing when the round began (RoundsAreClean). The windows      *)
(* between consecutive readings share no job, so that what they are        *)
(* short of adds up to no more than what was lost.                         *)
(***************************************************************************)

\* What the sums are of: the pages a job has printed, the least it may have, and
\* those it is known to have lost.
PrintedPages == [j \in SentJob |-> sentJobs[j].printed]

LeastPages == [j \in SentJob |-> LeastExpected(sentJobs[j])]

LostPages == [j \in SentJob |-> IF sentJobs[j].dropped
                                THEN sentJobs[j].due - sentJobs[j].printed ELSE 0]

\* Jobs that were not reported as done before r.
NotBefore(r) == {j \in SentJob : \/ sentJobs[j].completed = NotCompleted
                                 \/ r.at <= sentJobs[j].completed}

JobsAreTrue ==
    /\ sentJobs \in [SentJob -> SentJobState]
    /\ \A j \in SentJob : /\ sentJobs[j].printed <= sentJobs[j].due
                          /\ LeastExpected(sentJobs[j]) <= sentJobs[j].due
                          /\ sentJobs[j].completed <= round.at

\* The device counts the pages of jobs, and others.
CountIsTrue ==
    /\ walkUps \in 0..MaxWalkUps
    /\ count = Total(PrintedPages, SentJob) + walkUps

ReadingsAreApart ==
    /\ IsFiniteSet(countReadings)
    /\ countReadings \subseteq CountReading
    /\ \A r, q \in countReadings : r.at = q.at => r = q

VerdictIsTyped == verdict \in Verdict /\ blurred \in BOOLEAN

\* Where nothing was blurred: a job that was reported before this round has been
\* done with, and one that was not has printed nothing when the round begins.
RoundsAreClean ==
    ~blurred =>
        \A j \in SentJob :
            /\ sentJobs[j].completed # NotCompleted /\ sentJobs[j].completed < round.at
                   => sentJobs[j].dropped
            /\ round.pc = "ask" /\ j \in NotBefore(round) => sentJobs[j].printed = 0

\* Between a reading and the device now, or a later reading, is at least what was
\* printed of the jobs that were reported in between.
CountedSince ==
    ~blurred => \A r \in countReadings :
                    Total(PrintedPages, NotBefore(r)) <= count - r.count

CountedBetween ==
    ~blurred => \A r, q \in countReadings :
                    r.at < q.at =>
                        Total(PrintedPages, FinishedBetween(r, q)) <= q.count - r.count

VerdictIsCovered == ~blurred => verdict.shortfall <= Total(LostPages, SentJob)

AlarmInv ==
    /\ JobsAreTrue /\ CountIsTrue /\ ReadingsAreApart /\ VerdictIsTyped
    /\ RoundsAreClean /\ CountedSince /\ CountedBetween
    /\ VerdictIsCovered
-----------------------------------------------------------------------------
LEMMA LeastIsTyped ==
    ASSUME NEW job, job.pages \in Nat, job.duplex \in BOOLEAN
    PROVE  LeastExpected(job) \in Nat /\ LeastExpected(job) <= job.pages
  BY DEF LeastExpected

LEMMA JobTypes ==
    ASSUME JobsAreTrue
    PROVE  /\ IsFiniteSet(SentJob) /\ MaxJobPages \in Nat /\ NumRounds \in Nat
           /\ \A j \in SentJob :
                  /\ sentJobs[j] \in SentJobState
                  /\ sentJobs[j].completed \in Int
                  /\ PrintedPages[j] \in Nat /\ PrintedPages[j] = sentJobs[j].printed
                  /\ LeastPages[j] \in Nat /\ LeastPages[j] = LeastExpected(sentJobs[j])
                  /\ LostPages[j] \in Nat
                  /\ PrintedPages[j] <= sentJobs[j].due /\ LeastPages[j] <= sentJobs[j].due
                  /\ sentJobs[j].due \in 0..MaxJobPages
                  /\ LostPages[j] = IF sentJobs[j].dropped
                                    THEN sentJobs[j].due - sentJobs[j].printed ELSE 0
  <1>1. /\ IsFiniteSet(SentJob) /\ MaxJobPages \in Nat /\ NumRounds \in Nat
    BY PageReconcileAssumption
  <1>2. ASSUME NEW j \in SentJob
        PROVE  /\ sentJobs[j] \in SentJobState /\ sentJobs[j].completed \in Int
               /\ sentJobs[j].due \in 0..MaxJobPages /\ sentJobs[j].printed \in 0..MaxJobPages
               /\ sentJobs[j].pages \in Nat /\ sentJobs[j].duplex \in BOOLEAN
               /\ sentJobs[j].printed <= sentJobs[j].due
               /\ LeastExpected(sentJobs[j]) <= sentJobs[j].due
    BY <1>1 DEF JobsAreTrue, SentJobState, RoundTime, NotCompleted
  <1>3. ASSUME NEW j \in SentJob
        PROVE  LeastExpected(sentJobs[j]) \in Nat
    BY <1>2, LeastIsTyped
  <1> QED
    BY <1>1, <1>2, <1>3 DEF PrintedPages, LeastPages, LostPages

\* The sums of the model are totals.
LEMMA UnprintedIs == JobsAreTrue => Unprinted = Total(LostPages, SentJob)
  <1> SUFFICES ASSUME JobsAreTrue PROVE Unprinted = Total(LostPages, SentJob)
    OBVIOUS
  <1> DEFINE f == LostPages
             U == SentJob
             Adds(iter) == iter = [s \in SUBSET U |->
                   IF s = {} THEN 0
                   ELSE (IF sentJobs[Pick(s)].dropped
                         THEN sentJobs[Pick(s)].due - sentJobs[Pick(s)].printed ELSE 0)
                        + iter[s \ {Pick(s)}]]
  <1>1. IsFiniteSet(U)
    BY JobTypes
  <1>2. \A iter : AddsUp(iter, f, U) <=> Adds(iter)
    <2>1. \A s \in SUBSET U : s # {} =>
              f[Pick(s)] = IF sentJobs[Pick(s)].dropped
                           THEN sentJobs[Pick(s)].due - sentJobs[Pick(s)].printed ELSE 0
      BY Picked DEF LostPages
    <2> HIDE DEF f, U
    <2> QED BY <2>1 DEF AddsUp
  <1>3. Unprinted = (CHOOSE iter : Adds(iter))[U]
    BY DEF Unprinted, MapThenSumSet, MapThenFoldSet, Pick
  <1> HIDE DEF Adds, f, U
  <1>4. Adds(CHOOSE iter : Adds(iter))
    BY <1>1, <1>2, SumExists
  <1>5. Unprinted = Total(f, U)
    BY <1>1, <1>2, <1>3, <1>4, SumIs
  <1> QED
    BY <1>5 DEF f, U

Expected(from, to) ==
    MapThenSumSet(LAMBDA j : LeastExpected(sentJobs[j]), FinishedBetween(from, to))

LEMMA ExpectedIs ==
    ASSUME JobsAreTrue, NEW from, NEW to
    PROVE  Expected(from, to) = Total(LeastPages, FinishedBetween(from, to))
  <1> DEFINE f == LeastPages
             U == FinishedBetween(from, to)
             Adds(iter) == iter = [s \in SUBSET U |->
                   IF s = {} THEN 0
                   ELSE LeastExpected(sentJobs[Pick(s)]) + iter[s \ {Pick(s)}]]
  <1>1. IsFiniteSet(U) /\ U \in SUBSET SentJob
    BY JobTypes, FS_Subset DEF FinishedBetween
  <1>2. \A iter : AddsUp(iter, f, U) <=> Adds(iter)
    <2>1. \A s \in SUBSET U : s # {} => f[Pick(s)] = LeastExpected(sentJobs[Pick(s)])
      BY <1>1, Picked DEF LeastPages
    <2> HIDE DEF f, U
    <2> QED BY <2>1 DEF AddsUp
  <1>3. Expected(from, to) = (CHOOSE iter : Adds(iter))[U]
    BY DEF Expected, MapThenSumSet, MapThenFoldSet, Pick
  <1> HIDE DEF Adds, f, U
  <1>4. Adds(CHOOSE iter : Adds(iter))
    BY <1>1, <1>2, SumExists
  <1>5. Expected(from, to) = Total(f, U)
    BY <1>1, <1>2, <1>3, <1>4, SumIs
  <1> QED
    BY <1>5 DEF f, U

Shortfalls(S) == [w \in Consecutive(S) |-> WindowShortfall(w[1], w[2])]

LEMMA AssessIs ==
    ASSUME NEW S, IsFiniteSet(S)
    PROVE  /\ IsFiniteSet(Consecutive(S))
           /\ Assess(S) = Total(Shortfalls(S), Consecutive(S))
  <1> DEFINE f == Shortfalls(S)
             U == Consecutive(S)
             Adds(iter) == iter = [s \in SUBSET U |->
                   IF s = {} THEN 0
                   ELSE WindowShortfall(Pick(s)[1], Pick(s)[2]) + iter[s \ {Pick(s)}]]
  <1>1. IsFiniteSet(U)
    BY FS_Product, FS_Subset DEF Consecutive
  <1>2. \A iter : AddsUp(iter, f, U) <=> Adds(iter)
    <2>1. \A s \in SUBSET U : s # {} => f[Pick(s)] = WindowShortfall(Pick(s)[1], Pick(s)[2])
      BY Picked DEF Shortfalls
    <2> HIDE DEF f, U
    <2> QED BY <2>1 DEF AddsUp
  <1>3. Assess(S) = (CHOOSE iter : Adds(iter))[U]
    BY DEF Assess, MapThenSumSet, MapThenFoldSet, Pick
  <1> HIDE DEF Adds, f, U
  <1>4. Adds(CHOOSE iter : Adds(iter))
    BY <1>1, <1>2, SumExists
  <1>5. Assess(S) = Total(f, U)
    BY <1>1, <1>2, <1>3, <1>4, SumIs
  <1> QED
    BY <1>1, <1>5 DEF f, U

LEMMA ReadingTypes ==
    ASSUME ReadingsAreDated, ReadingsAreApart
    PROVE  /\ \A r \in countReadings : r.at \in Nat /\ r.count \in Int /\ r.at <= round.at
           /\ MaxCount \in Nat /\ round.at \in 0..NumRounds
           /\ MaxJobPages * Cardinality(SentJob) <= MaxCount
  <1>1. MaxJobPages \in Nat /\ Cardinality(SentJob) \in Nat /\ MaxWalkUps \in Nat
    BY PageReconcileAssumption, FS_CardinalityType
  <1>2. MaxJobPages * Cardinality(SentJob) \in Nat
    BY <1>1
  <1>3. MaxCount \in Nat /\ MaxJobPages * Cardinality(SentJob) <= MaxCount
    BY <1>1, <1>2 DEF MaxCount
  <1>4. round.at \in 0..NumRounds
    BY DEF ReadingsAreDated, Round, RoundTime
  <1> HIDE DEF MaxCount
  <1> QED
    BY <1>3, <1>4 DEF ReadingsAreDated, ReadingsAreApart, CountReading, RoundTime

LEMMA CountIsTyped ==
    ASSUME JobsAreTrue, CountIsTrue
    PROVE  count \in 0..MaxCount
  <1>1. \A j \in SentJob : PrintedPages[j] \in Int /\ PrintedPages[j] <= MaxJobPages
    BY JobTypes
  <1>2. Total(PrintedPages, SentJob) <= MaxJobPages * Cardinality(SentJob)
    BY <1>1, JobTypes, SumIsBounded
  <1>3. Total(PrintedPages, SentJob) \in Nat
    BY JobTypes, SumIsNat
  <1>4. MaxJobPages \in Nat /\ Cardinality(SentJob) \in Nat /\ MaxWalkUps \in Nat
    BY JobTypes, FS_CardinalityType, PageReconcileAssumption
  <1>5. MaxJobPages * Cardinality(SentJob) \in Nat
    BY <1>4
  <1> QED
    BY <1>2, <1>3, <1>4, <1>5 DEF CountIsTrue, MaxCount

\* A window is short of no more than was sent, and, where nothing was blurred, of
\* no more than was lost.
LEMMA ShortfallIsBounded ==
    ASSUME JobsAreTrue, ReadingsAreDated, ReadingsAreApart, RoundsAreClean, CountedBetween,
           NEW r \in countReadings, NEW q \in countReadings, r.at < q.at
    PROVE  /\ WindowShortfall(r, q) \in Nat
           /\ WindowShortfall(r, q) <= Total(LeastPages, FinishedBetween(r, q))
           /\ ~blurred => WindowShortfall(r, q) <= Total(LostPages, FinishedBetween(r, q))
  <1> DEFINE F == FinishedBetween(r, q)
             counted == q.count - r.count
             expected == Expected(r, q)
             h == [j \in SentJob |-> LostPages[j] + PrintedPages[j]]
  <1>1. /\ F \in SUBSET SentJob /\ IsFiniteSet(F) /\ MinShortfall \in Nat
        /\ counted \in Int /\ r.at \in Nat /\ q.at \in Nat /\ q.at <= round.at
        /\ round.at \in Nat
    BY PageReconcileAssumption, JobTypes, ReadingTypes, FS_Subset DEF FinishedBetween
  <1>2. \A j \in F : LeastPages[j] \in Nat /\ LostPages[j] \in Nat /\ PrintedPages[j] \in Nat
    BY <1>1, JobTypes
  <1>3. /\ Total(LeastPages, F) \in Nat /\ Total(LostPages, F) \in Nat
        /\ Total(PrintedPages, F) \in Nat
    BY <1>1, <1>2, SumIsNat
  <1>4. expected = Total(LeastPages, F)
    BY ExpectedIs
  <1>5. \/ WindowShortfall(r, q) = 0
        \/ /\ WindowShortfall(r, q) = expected - counted
           /\ counted >= 0 /\ expected - counted >= MinShortfall
    <2>1. WindowShortfall(r, q) =
              IF counted < 0 \/ expected - counted < MinShortfall \/ 2 * counted >= expected
              THEN 0 ELSE expected - counted
      BY DEF WindowShortfall, Expected
    <2>2. expected \in Int
      BY <1>3, <1>4
    <2> HIDE DEF counted, expected
    <2> QED
      BY <1>1, <2>1, <2>2
  <1>6. ASSUME ~blurred PROVE Total(LeastPages, F) <= Total(LostPages, F) + counted
    <2>1. ASSUME NEW j \in F
          PROVE  /\ h[j] \in Int /\ h[j] = LostPages[j] + PrintedPages[j]
                 /\ LeastPages[j] <= h[j]
      <3>1. /\ sentJobs[j].completed # NotCompleted /\ sentJobs[j].completed < round.at
        BY <1>1, JobTypes DEF FinishedBetween, NotCompleted
      <3>2. sentJobs[j].dropped
        BY <1>1, <1>6, <3>1 DEF RoundsAreClean
      <3>3. /\ LostPages[j] = sentJobs[j].due - PrintedPages[j]
            /\ LeastPages[j] <= sentJobs[j].due /\ sentJobs[j].due \in Int
        BY <1>1, <3>2, JobTypes
      <3>4. h[j] = LostPages[j] + PrintedPages[j]
        BY <1>1
      <3> HIDE DEF h, F
      <3> QED
        BY <1>2, <3>3, <3>4
    <2> HIDE DEF h, F, counted
    <2>2. Total(h, F) = Total(LostPages, F) + Total(PrintedPages, F)
      BY <1>1, <1>2, <2>1, SumOfBoth
    <2>3. Total(LeastPages, F) <= Total(h, F)
      BY <1>1, <1>2, <2>1, SumAtMost
    <2>4. Total(PrintedPages, F) <= counted
      BY <1>6 DEF CountedBetween, F, counted
    <2> QED
      BY <1>1, <1>3, <2>2, <2>3, <2>4
  <1> HIDE DEF F, counted, expected
  <1>7. /\ WindowShortfall(r, q) \in Nat /\ WindowShortfall(r, q) <= Total(LeastPages, F)
    BY <1>1, <1>3, <1>4, <1>5
  <1>8. ~blurred => WindowShortfall(r, q) <= Total(LostPages, F)
    BY <1>1, <1>3, <1>4, <1>5, <1>6
  <1> QED
    BY <1>7, <1>8 DEF F

\* Windows between consecutive readings do not share a job.
LEMMA WindowsAreApart ==
    ASSUME JobsAreTrue, ReadingsAreDated, ReadingsAreApart, NEW S \in SUBSET countReadings,
           NEW v \in Consecutive(S), NEW w \in Consecutive(S), v # w
    PROVE  FinishedBetween(v[1], v[2]) \cap FinishedBetween(w[1], w[2]) = {}
  <1> SUFFICES ASSUME NEW j \in SentJob,
                      j \in FinishedBetween(v[1], v[2]), j \in FinishedBetween(w[1], w[2])
               PROVE  FALSE
    BY DEF FinishedBetween
  <1>1. /\ v[1] \in S /\ v[2] \in S /\ w[1] \in S /\ w[2] \in S
        /\ v = <<v[1], v[2]>> /\ w = <<w[1], w[2]>>
    BY DEF Consecutive
  <1>2. /\ v[1].at \in Nat /\ v[2].at \in Nat /\ w[1].at \in Nat /\ w[2].at \in Nat
        /\ sentJobs[j].completed \in Int
    BY <1>1, ReadingTypes, JobTypes
  <1>3. /\ v[1].at <= sentJobs[j].completed /\ sentJobs[j].completed < v[2].at
        /\ w[1].at <= sentJobs[j].completed /\ sentJobs[j].completed < w[2].at
    BY DEF FinishedBetween
  <1>4. /\ ~(v[1].at < w[1].at /\ w[1].at < v[2].at) /\ ~(v[1].at < w[2].at /\ w[2].at < v[2].at)
        /\ ~(w[1].at < v[1].at /\ v[1].at < w[2].at) /\ ~(w[1].at < v[2].at /\ v[2].at < w[2].at)
    BY <1>1 DEF Consecutive
  <1>5. v[1].at = w[1].at /\ v[2].at = w[2].at
    BY <1>2, <1>3, <1>4
  <1>6. v[1] = w[1] /\ v[2] = w[2]
    BY <1>1, <1>5 DEF ReadingsAreApart
  <1> QED
    BY <1>1, <1>6

\* So is all of a sweep.
LEMMA AssessIsBounded ==
    ASSUME JobsAreTrue, ReadingsAreDated, ReadingsAreApart, RoundsAreClean, CountedBetween,
           NEW S \in SUBSET countReadings
    PROVE  /\ Assess(S) \in 0..MaxCount
           /\ ~blurred => Assess(S) <= Total(LostPages, SentJob)
  <1> DEFINE C == Consecutive(S)
             g == Shortfalls(S)
             part == [w \in C |-> FinishedBetween(w[1], w[2])]
  <1>1. IsFiniteSet(C) /\ Assess(S) = Total(g, C)
    <2>1. IsFiniteSet(S)
      BY FS_Subset DEF ReadingsAreApart
    <2> QED
      BY <2>1, AssessIs
  <1>2. /\ part \in [C -> SUBSET SentJob]
        /\ \A w \in C : part[w] = FinishedBetween(w[1], w[2])
    BY DEF FinishedBetween
  <1>3. \A v, w \in C : v # w => part[v] \cap part[w] = {}
    BY <1>2, WindowsAreApart
  <1>4. ASSUME NEW w \in C
        PROVE  /\ g[w] \in Nat /\ g[w] <= Total(LeastPages, part[w])
               /\ ~blurred => g[w] <= Total(LostPages, part[w])
    <2>1. w[1] \in countReadings /\ w[2] \in countReadings /\ w[1].at < w[2].at
      BY DEF Consecutive
    <2>2. g[w] = WindowShortfall(w[1], w[2])
      BY DEF Shortfalls
    <2> QED
      BY <1>2, <2>1, <2>2, ShortfallIsBounded
  <1> HIDE DEF C, g, part
  <1>5. Total(g, C) \in Nat
    BY <1>1, <1>4, SumIsNat
  <1>6. Total(g, C) <= Total(LeastPages, SentJob)
    BY <1>1, <1>2, <1>3, <1>4, JobTypes, SumOfParts
  <1>7. /\ Total(LeastPages, SentJob) <= MaxJobPages * Cardinality(SentJob)
        /\ Total(LeastPages, SentJob) \in Nat
    <2>1. \A j \in SentJob : LeastPages[j] \in Nat /\ LeastPages[j] <= MaxJobPages
      BY JobTypes
    <2> QED
      BY <2>1, JobTypes, SumIsBounded, SumIsNat
  <1>8. Assess(S) \in 0..MaxCount
    <2>1. MaxJobPages \in Nat /\ Cardinality(SentJob) \in Nat
      BY JobTypes, FS_CardinalityType
    <2>2. MaxJobPages * Cardinality(SentJob) \in Nat
      BY <2>1
    <2> QED
      BY <1>1, <1>5, <1>6, <1>7, <2>2, ReadingTypes
  <1>9. ASSUME ~blurred PROVE Assess(S) <= Total(LostPages, SentJob)
    <2>1. \A w \in C : g[w] \in Int /\ g[w] <= Total(LostPages, part[w])
      BY <1>4, <1>9
    <2>2. Total(g, C) <= Total(LostPages, SentJob)
      BY <1>1, <1>2, <1>3, <2>1, JobTypes, SumOfParts
    <2> QED
      BY <1>1, <2>2
  <1> QED
    BY <1>8, <1>9

-----------------------------------------------------------------------------
LEMMA AlarmStarts == PageReconcileInit => AlarmInv
  <1> SUFFICES ASSUME PageReconcileInit PROVE AlarmInv
    OBVIOUS
  <1>1. /\ count = 0 /\ countReadings = {} /\ round = [pc |-> "idle", at |-> 0]
        /\ sentJobs = [j \in SentJob |-> NotSent] /\ verdict = NoVerdict
        /\ walkUps = 0 /\ blurred = FALSE
    BY DEF PageReconcileInit
  <1>2. 0 \in RoundTime /\ MaxJobPages \in Nat /\ MaxWalkUps \in Nat
    BY PageReconcileAssumption DEF RoundTime
  <1>3. NotSent \in SentJobState /\ LeastExpected(NotSent) = 0
    BY <1>2 DEF NotSent, SentJobState, LeastExpected
  <1>4. JobsAreTrue
    BY <1>1, <1>3 DEF JobsAreTrue, NotSent, NotCompleted
  <1>5. CountIsTrue
    <2>1. \A j \in SentJob : PrintedPages[j] \in Nat /\ PrintedPages[j] = 0
      BY <1>1 DEF PrintedPages, NotSent
    <2>a. \A j \in SentJob : PrintedPages[j] \in Int /\ PrintedPages[j] <= 0
      BY <2>1
    <2>2. Total(PrintedPages, SentJob) \in Nat /\ Total(PrintedPages, SentJob) <= 0
      <3>1. Total(PrintedPages, SentJob) <= 0 * Cardinality(SentJob)
        BY <1>4, <2>a, JobTypes, SumIsBounded
      <3>2. Cardinality(SentJob) \in Nat
        BY <1>4, JobTypes, FS_CardinalityType
      <3>3. Total(PrintedPages, SentJob) \in Nat
        BY <1>4, <2>1, JobTypes, SumIsNat
      <3> QED
        BY <3>1, <3>2, <3>3
    <2> QED
      BY <1>1, <1>2, <2>2 DEF CountIsTrue
  <1>6. MaxCount \in Nat
    <2>1. Cardinality(SentJob) \in Nat
      BY <1>4, JobTypes, FS_CardinalityType
    <2>2. MaxJobPages * Cardinality(SentJob) \in Nat
      BY <1>2, <2>1
    <2> QED
      BY <1>2, <2>2 DEF MaxCount
  <1>7. ReadingsAreApart /\ CountedSince /\ CountedBetween
    BY <1>1, FS_EmptySet DEF ReadingsAreApart, CountedSince, CountedBetween
  <1>8. VerdictIsTyped
    <2>1. 0 \in 0..MaxCount
      BY <1>6
    <2>2. NoVerdict \in Verdict
      BY <1>2, <2>1 DEF Verdict, NoVerdict
    <2> QED
      BY <1>1, <2>2 DEF VerdictIsTyped
  <1>9. RoundsAreClean
    BY <1>1 DEF RoundsAreClean, NotSent
  <1>10. VerdictIsCovered
    <2>1. Total(LostPages, SentJob) \in Nat
      BY <1>4, JobTypes, SumIsNat
    <2> QED
      BY <1>1, <2>1 DEF VerdictIsCovered, NoVerdict
  <1> QED
    BY <1>4, <1>5, <1>7, <1>8, <1>9, <1>10 DEF AlarmInv

\* What depends on the jobs and the count alone.
LEMMA JobsStand ==
    ASSUME sentJobs' = sentJobs
    PROVE  /\ PrintedPages' = PrintedPages /\ LostPages' = LostPages
           /\ \A r : NotBefore(r)' = NotBefore(r)
           /\ \A r, q : FinishedBetween(r, q)' = FinishedBetween(r, q)
  <1>1. PrintedPages' = PrintedPages /\ LostPages' = LostPages
    BY DEF PrintedPages, LostPages
  <1>3. ASSUME NEW r PROVE NotBefore(r)' = NotBefore(r)
    BY DEF NotBefore
  <1>4. ASSUME NEW r, NEW q PROVE FinishedBetween(r, q)' = FinishedBetween(r, q)
    BY DEF FinishedBetween
  <1> QED
    BY <1>1, <1>3, <1>4

LEMMA StartRoundKeeps == PageReconcileInv /\ AlarmInv /\ StartRound => AlarmInv'
  <1> SUFFICES ASSUME PageReconcileInv, AlarmInv, StartRound PROVE AlarmInv'
    OBVIOUS
  <1> USE DEF AlarmInv, PageReconcileInv
  <1>1. /\ round.pc = "idle" /\ round.at < NumRounds
        /\ round' = [pc |-> "ask", at |-> round.at + 1]
        /\ blurred' = (blurred \/ UnderWay # {})
        /\ count' = count /\ countReadings' = countReadings /\ sentJobs' = sentJobs
        /\ verdict' = verdict /\ walkUps' = walkUps
    BY DEF StartRound
  <1>a. ~blurred' => ~blurred /\ UnderWay = {}
    BY <1>1
  <1>2. round.at \in Nat /\ (~blurred' => ~blurred /\ UnderWay = {})
    BY <1>a DEF ReadingsAreDated, Round, RoundTime
  <1>b. blurred' \in BOOLEAN
    BY <1>1
  <1>3. JobsAreTrue'
    <2>1. ASSUME NEW j \in SentJob PROVE sentJobs[j].completed <= round.at + 1
      BY <1>2, JobTypes DEF JobsAreTrue
    <2> QED
      BY <1>1, <2>1 DEF JobsAreTrue
  <1>4. /\ CountIsTrue' /\ ReadingsAreApart' /\ VerdictIsTyped'
        /\ CountedSince' /\ CountedBetween' /\ VerdictIsCovered'
    BY <1>1, <1>2, <1>b, JobsStand
    DEF CountIsTrue, ReadingsAreApart, VerdictIsTyped, CountedSince, CountedBetween,
        VerdictIsCovered
  <1>5. RoundsAreClean'
    <2> SUFFICES ASSUME ~blurred', NEW j \in SentJob
                 PROVE  /\ sentJobs[j].completed # NotCompleted => sentJobs[j].dropped
                        /\ (j \in NotBefore(round))' => sentJobs[j].printed = 0
      BY <1>1 DEF RoundsAreClean
    <2>1. j \notin UnderWay
      BY <1>2
    <2>2. sentJobs[j].completed # NotCompleted => sentJobs[j].dropped
      BY <2>1 DEF UnderWay
    <2>3. sentJobs[j].printed > 0 => sentJobs[j].completed # NotCompleted
      BY <2>1 DEF UnderWay
    <2>4. sentJobs[j].completed \in Int /\ sentJobs[j].printed \in Nat
          /\ sentJobs[j].completed <= round.at
      BY JobTypes DEF JobsAreTrue
    <2>5. (j \in NotBefore(round))' =>
              \/ sentJobs[j].completed = NotCompleted \/ round.at + 1 <= sentJobs[j].completed
      BY <1>1 DEF NotBefore
    <2> QED
      BY <1>2, <2>2, <2>3, <2>4, <2>5
  <1> QED
    BY <1>3, <1>4, <1>5

LEMMA CounterAnswerKeeps == PageReconcileInv /\ AlarmInv /\ CounterAnswers => AlarmInv'
  <1> SUFFICES ASSUME PageReconcileInv, AlarmInv, CounterAnswers PROVE AlarmInv'
    OBVIOUS
  <1> USE DEF AlarmInv, PageReconcileInv
  <1> DEFINE new == [at |-> round.at, count |-> count]
  <1>1. /\ round.pc = "ask" /\ countReadings' = countReadings \cup {new}
        /\ round' = [round EXCEPT !.pc = "sweep"]
        /\ count' = count /\ sentJobs' = sentJobs
        /\ verdict' = verdict /\ walkUps' = walkUps /\ blurred' = blurred
    BY DEF CounterAnswers
  <1>2. /\ round.at \in RoundTime /\ round'.at = round.at /\ round'.pc = "sweep"
    BY <1>1 DEF ReadingsAreDated, Round
  <1>3. /\ JobsAreTrue' /\ CountIsTrue' /\ VerdictIsTyped' /\ VerdictIsCovered'
    BY <1>1, <1>2, JobsStand DEF JobsAreTrue, CountIsTrue, VerdictIsTyped, VerdictIsCovered
  <1>4. RoundsAreClean'
    BY <1>1, <1>2 DEF RoundsAreClean
  <1>6. count \in 0..MaxCount
    BY CountIsTyped
  <1>7. ReadingsAreApart'
    <2>a. new \in CountReading
      BY <1>2, <1>6 DEF CountReading
    <2>b. IsFiniteSet(countReadings \cup {new})
      BY FS_AddElement DEF ReadingsAreApart
    <2>1. IsFiniteSet(countReadings') /\ countReadings' \subseteq CountReading
      BY <1>1, <2>a, <2>b DEF ReadingsAreApart
    <2>2. \A r \in countReadings : r.at < new.at /\ r.at \in Nat
      BY <1>1, ReadingTypes DEF ReadingsAreDated
    <2>3. \A r \in countReadings : r.at # new.at
      BY <2>2
    <2> HIDE DEF new
    <2> QED
      BY <1>1, <2>1, <2>3 DEF ReadingsAreApart
  <1>8. CountedSince'
    <2> SUFFICES ASSUME ~blurred PROVE \A r \in countReadings' :
                     Total(PrintedPages, NotBefore(r)) <= count - r.count
      BY <1>1, JobsStand DEF CountedSince
    <2>1. \A r \in countReadings : Total(PrintedPages, NotBefore(r)) <= count - r.count
      BY DEF CountedSince
    <2>2. Total(PrintedPages, NotBefore(new)) <= 0
      <3>1. NotBefore(new) = NotBefore(round) /\ NotBefore(new) \in SUBSET SentJob
        BY DEF NotBefore
      <3>2. IsFiniteSet(NotBefore(new))
        BY <3>1, JobTypes, FS_Subset
      <3>3. \A j \in NotBefore(new) : PrintedPages[j] \in Int /\ PrintedPages[j] <= 0
        BY <1>1, <3>1, JobTypes DEF RoundsAreClean
      <3>4. Total(PrintedPages, NotBefore(new)) <= 0 * Cardinality(NotBefore(new))
        BY <3>2, <3>3, SumIsBounded
      <3>5. Cardinality(NotBefore(new)) \in Nat
        BY <3>2, FS_CardinalityType
      <3> QED
        BY <3>4, <3>5
    <2>3. count - new.count = 0
      BY <1>6
    <2> HIDE DEF new
    <2> QED
      BY <1>1, <2>1, <2>2, <2>3
  <1>9. CountedBetween'
    <2> SUFFICES ASSUME ~blurred, NEW r \in countReadings', NEW q \in countReadings', r.at < q.at
                 PROVE  Total(PrintedPages, FinishedBetween(r, q)) <= q.count - r.count
      BY <1>1, JobsStand DEF CountedBetween
    <2>1. CASE r \in countReadings /\ q \in countReadings
      BY <2>1 DEF CountedBetween
    <2>2. CASE r \in countReadings /\ q = new
      <3> DEFINE F == FinishedBetween(r, q)
                 N == NotBefore(r)
      <3>1. F \in SUBSET N /\ N \in SUBSET SentJob
        BY DEF FinishedBetween, NotBefore
      <3>2. IsFiniteSet(N) /\ \A j \in N : PrintedPages[j] \in Nat
        BY <3>1, JobTypes, FS_Subset
      <3>3. IsFiniteSet(F) /\ \A j \in F : PrintedPages[j] \in Nat
        BY <3>1, <3>2, FS_Subset
      <3>4. Total(PrintedPages, N) <= q.count - r.count
        BY <2>2 DEF CountedSince
      <3> HIDE DEF F, N
      <3>5. Total(PrintedPages, F) <= Total(PrintedPages, N)
        BY <3>1, <3>2, SumOfPart
      <3>6. Total(PrintedPages, F) \in Nat /\ Total(PrintedPages, N) \in Nat
        BY <3>2, <3>3, SumIsNat
      <3>7. q.count \in Int /\ r.count \in Int
        BY <1>6, <2>2, ReadingTypes
      <3> QED
        BY <3>4, <3>5, <3>6, <3>7 DEF F
    <2>3. CASE r = new
      <3>1. q.at <= r.at /\ q.at \in Nat /\ r.at \in Nat
        BY <1>1, <2>3, ReadingTypes
      <3> QED
        BY <3>1
    <2> QED
      BY <1>1, <2>1, <2>2, <2>3
  <1> QED
    BY <1>3, <1>4, <1>7, <1>8, <1>9

LEMMA RoundEndKeeps ==
    PageReconcileInv /\ AlarmInv /\ (CounterIsSilent \/ RoundFails \/ SweepFails) => AlarmInv'
  <1> SUFFICES ASSUME PageReconcileInv, AlarmInv, CounterIsSilent \/ RoundFails \/ SweepFails
               PROVE  AlarmInv'
    OBVIOUS
  <1> USE DEF AlarmInv, PageReconcileInv
  <1>1. /\ countReadings' \subseteq countReadings
        /\ round' \in [pc: {"idle", "sweep"}, at: {round.at}]
        /\ count' = count /\ sentJobs' = sentJobs
        /\ verdict' = verdict /\ walkUps' = walkUps /\ blurred' = blurred
    <2>1. round \in Round
      BY DEF ReadingsAreDated
    <2>2. round' \in [pc: {"idle", "sweep"}, at: {round.at}]
      BY <2>1 DEF Round, CounterIsSilent, RoundFails, SweepFails
    <2> QED
      BY <2>2 DEF CounterIsSilent, RoundFails, SweepFails
  <1>2. round'.at = round.at /\ round'.pc # "ask"
    BY <1>1
  <1>3. /\ JobsAreTrue' /\ CountIsTrue' /\ VerdictIsTyped' /\ VerdictIsCovered'
        /\ CountedSince' /\ CountedBetween'
    BY <1>1, <1>2, JobsStand
    DEF JobsAreTrue, CountIsTrue, VerdictIsTyped, VerdictIsCovered, CountedSince,
        CountedBetween
  <1>4. RoundsAreClean'
    BY <1>1, <1>2 DEF RoundsAreClean
  <1>5. ReadingsAreApart'
    <2>1. IsFiniteSet(countReadings')
      BY <1>1, FS_Subset DEF ReadingsAreApart
    <2> QED
      BY <1>1, <2>1 DEF ReadingsAreApart
  <1> QED
    BY <1>3, <1>4, <1>5

LEMMA SweepKeepsAlarm ==
    PageReconcileInv /\ AlarmInv /\ SweepUnprintedPages => AlarmInv'
  <1> SUFFICES ASSUME PageReconcileInv, AlarmInv, SweepUnprintedPages PROVE AlarmInv'
    OBVIOUS
  <1> USE DEF AlarmInv, PageReconcileInv
  <1> DEFINE S == ReadingsInWindow
  <1>1. /\ round' = [round EXCEPT !.pc = "idle"]
        /\ count' = count /\ countReadings' = countReadings /\ sentJobs' = sentJobs
        /\ walkUps' = walkUps /\ blurred' = blurred
    BY DEF SweepUnprintedPages
  <1>2. round'.at = round.at /\ round'.pc # "ask"
    BY <1>1 DEF ReadingsAreDated, Round
  <1>3. /\ JobsAreTrue' /\ CountIsTrue' /\ CountedSince' /\ CountedBetween'
        /\ ReadingsAreApart'
    BY <1>1, <1>2, JobsStand
    DEF JobsAreTrue, CountIsTrue, CountedSince, CountedBetween, ReadingsAreApart
  <1>4. RoundsAreClean'
    BY <1>1, <1>2 DEF RoundsAreClean
  <1>5. S \in SUBSET countReadings
    BY DEF ReadingsInWindow
  <1>6. /\ Assess(S) \in 0..MaxCount
        /\ ~blurred => Assess(S) <= Total(LostPages, SentJob)
    BY <1>5, AssessIsBounded
  <1>7. \/ verdict' = verdict \/ verdict' = NoVerdict
        \/ /\ ~(Cardinality(S) < 2)
           /\ verdict' = [shortfall |-> Assess(S), assessed |-> NewestReading(S).at]
    BY DEF SweepUnprintedPages
  <1>8. LostPages' = LostPages /\ Total(LostPages, SentJob) \in Nat
    BY <1>1, JobsStand, JobTypes, SumIsNat
  <1>9. 0 \in 0..MaxCount /\ 0 \in RoundTime
    BY JobTypes, ReadingTypes DEF RoundTime
  <1>10. VerdictIsTyped' /\ VerdictIsCovered'
    <2>1. CASE verdict' = verdict
      BY <1>1, <1>8, <2>1 DEF VerdictIsTyped, VerdictIsCovered
    <2>2. CASE verdict' = NoVerdict
      <3>1. NoVerdict \in Verdict
        BY <1>9 DEF Verdict, NoVerdict
      <3>2. VerdictIsTyped'
        BY <1>1, <2>2, <3>1 DEF VerdictIsTyped
      <3>3. VerdictIsCovered'
        BY <1>8, <2>2 DEF VerdictIsCovered, NoVerdict
      <3> QED
        BY <3>2, <3>3
    <2>3. CASE /\ ~(Cardinality(S) < 2)
               /\ verdict' = [shortfall |-> Assess(S), assessed |-> NewestReading(S).at]
      <3>1. S # {}
        BY <2>3, FS_EmptySet
      <3>2. NewestReading(S) \in countReadings
        BY <1>5, <3>1, NewestIsThere DEF ReadingsAreDated
      <3>3. NewestReading(S).at \in RoundTime
        BY <3>2 DEF ReadingsAreDated, RoundTime
      <3> HIDE DEF S
      <3>4. VerdictIsTyped'
        <4>1. verdict' \in Verdict
          BY <1>6, <2>3, <3>3 DEF Verdict
        <4> QED
          BY <1>1, <4>1 DEF VerdictIsTyped
      <3>5. VerdictIsCovered'
        BY <1>1, <1>6, <1>8, <2>3 DEF VerdictIsCovered
      <3> QED
        BY <3>4, <3>5
    <2> QED
      BY <1>7, <2>1, <2>2, <2>3
  <1> QED
    BY <1>3, <1>4, <1>10

\* A job that is sent, dropped or reported: what was printed stays, and no job
\* comes between two readings.
LEMMA JobsMoveOn ==
    ASSUME PageReconcileInv, AlarmInv, JobsAreTrue', PrintedPages' = PrintedPages,
           UNCHANGED <<count, countReadings, round, verdict, walkUps, blurred>>,
           \A i \in SentJob : \/ sentJobs'[i].completed = sentJobs[i].completed
                              \/ /\ sentJobs[i].completed = NotCompleted
                                 /\ sentJobs'[i].completed = round.at,
           \A i \in SentJob : sentJobs[i].dropped => sentJobs'[i] = sentJobs[i]
                                                     \/ /\ sentJobs'[i].dropped
                                                        /\ sentJobs'[i].due = sentJobs[i].due
    PROVE  AlarmInv'
  <1> USE DEF AlarmInv, PageReconcileInv
  <1>1. /\ \A i \in SentJob : sentJobs[i].completed \in Int
        /\ round.at \in Nat /\ round'.at = round.at
    BY JobTypes DEF ReadingsAreDated, Round, RoundTime
  <1>2. \A i \in SentJob : sentJobs'[i].printed = sentJobs[i].printed
    BY DEF PrintedPages
  <1>3. ASSUME NEW r, r.at \in Nat, r.at <= round.at
        PROVE  NotBefore(r)' = NotBefore(r)
    <2>1. ASSUME NEW i \in SentJob
          PROVE  \/ sentJobs'[i].completed = NotCompleted \/ r.at <= sentJobs'[i].completed
                 <=> \/ sentJobs[i].completed = NotCompleted \/ r.at <= sentJobs[i].completed
      BY <1>1, <1>3
    <2> QED
      BY <2>1 DEF NotBefore
  <1>4. ASSUME NEW r \in countReadings, NEW q \in countReadings
        PROVE  FinishedBetween(r, q)' = FinishedBetween(r, q)
    <2>1. r.at \in Nat /\ q.at \in Nat /\ q.at <= round.at
      BY ReadingTypes
    <2>2. ASSUME NEW i \in SentJob
          PROVE  r.at <= sentJobs'[i].completed /\ sentJobs'[i].completed < q.at
                 <=> r.at <= sentJobs[i].completed /\ sentJobs[i].completed < q.at
      BY <1>1, <2>1 DEF NotCompleted
    <2> QED
      BY <2>2 DEF FinishedBetween
  <1>5. CountIsTrue' /\ ReadingsAreApart' /\ VerdictIsTyped'
    BY DEF CountIsTrue, ReadingsAreApart, VerdictIsTyped
  <1>6. CountedSince'
    <2>1. \A r \in countReadings : NotBefore(r)' = NotBefore(r)
      BY <1>3, ReadingTypes
    <2> QED
      BY <2>1 DEF CountedSince
  <1>7. CountedBetween'
    BY <1>4 DEF CountedBetween
  <1>8. RoundsAreClean'
    <2> SUFFICES ASSUME ~blurred, NEW i \in SentJob
                 PROVE  /\ sentJobs'[i].completed # NotCompleted
                           /\ sentJobs'[i].completed < round.at => sentJobs'[i].dropped
                        /\ round.pc = "ask" /\ (i \in NotBefore(round))' =>
                               sentJobs'[i].printed = 0
      BY DEF RoundsAreClean
    <2>1. (i \in NotBefore(round))' <=> i \in NotBefore(round)
      <3>1. \/ sentJobs'[i].completed = NotCompleted \/ round.at <= sentJobs'[i].completed
            <=> \/ sentJobs[i].completed = NotCompleted \/ round.at <= sentJobs[i].completed
        BY <1>1
      <3> QED
        BY <3>1 DEF NotBefore
    <2>2. round.pc = "ask" /\ (i \in NotBefore(round))' => sentJobs'[i].printed = 0
      BY <1>2, <2>1 DEF RoundsAreClean
    <2>3. ASSUME sentJobs'[i].completed # NotCompleted, sentJobs'[i].completed < round.at
          PROVE  sentJobs'[i].dropped
      <3>1. sentJobs'[i].completed = sentJobs[i].completed
        BY <1>1, <2>3
      <3>2. sentJobs[i].dropped
        BY <2>3, <3>1 DEF RoundsAreClean
      <3> QED
        BY <3>2
    <2> QED
      BY <2>2, <2>3
  <1>9. VerdictIsCovered'
    <2>1. ASSUME NEW i \in SentJob
          PROVE  /\ LostPages'[i] \in Nat /\ LostPages[i] \in Nat /\ LostPages[i] <= LostPages'[i]
      <3>1. /\ sentJobs'[i].due \in Nat /\ sentJobs'[i].printed \in Nat
            /\ sentJobs'[i].printed <= sentJobs'[i].due
        <4>1. sentJobs'[i] \in SentJobState /\ sentJobs'[i].printed <= sentJobs'[i].due
          BY DEF JobsAreTrue
        <4> QED
          BY <4>1, JobTypes DEF SentJobState
      <3>2. LostPages'[i] = IF sentJobs'[i].dropped
                            THEN sentJobs'[i].due - sentJobs'[i].printed ELSE 0
        BY DEF LostPages
      <3>3. /\ LostPages[i] \in Nat
            /\ LostPages[i] = IF sentJobs[i].dropped
                              THEN sentJobs[i].due - sentJobs[i].printed ELSE 0
        BY JobTypes
      <3> QED
        BY <1>2, <3>1, <3>2, <3>3
    <2>2. Total(LostPages, SentJob) <= Total(LostPages', SentJob)
      BY <2>1, JobTypes, SumAtMost
    <2>3. Total(LostPages, SentJob) \in Nat /\ Total(LostPages', SentJob) \in Nat
      BY <2>1, JobTypes, SumIsNat
    <2>4. verdict.shortfall \in Int
      <3>1. MaxCount \in Nat
        BY ReadingTypes
      <3> QED
        BY <3>1 DEF VerdictIsTyped, Verdict
    <2> QED
      BY <2>2, <2>3, <2>4 DEF VerdictIsCovered
  <1> QED
    BY <1>5, <1>6, <1>7, <1>8, <1>9

LEMMA JobSentKeeps ==
    ASSUME PageReconcileInv, AlarmInv, NEW j \in SentJob, JobSent(j) PROVE AlarmInv'
  <1> USE DEF AlarmInv, PageReconcileInv
  <1>1. PICK pages \in 1..MaxJobPages, duplex \in BOOLEAN :
            \E due \in {pages, LeastExpected([NotSent EXCEPT !.pages = pages,
                                                             !.duplex = duplex])} :
                sentJobs' = [sentJobs EXCEPT ![j] = [NotSent EXCEPT !.pages = pages,
                                                         !.duplex = duplex, !.due = due]]
    BY DEF JobSent
  <1> DEFINE job == [NotSent EXCEPT !.pages = pages, !.duplex = duplex]
  <1>2. /\ LeastExpected(job) \in Nat /\ LeastExpected(job) <= pages
        /\ pages \in Nat /\ pages <= MaxJobPages /\ MaxJobPages \in Nat
    <2>1. pages \in Nat /\ pages <= MaxJobPages /\ MaxJobPages \in Nat
      BY JobTypes
    <2>2. job.pages = pages /\ job.duplex = duplex
      BY DEF NotSent
    <2> HIDE DEF job
    <2> QED
      BY <2>1, <2>2, LeastIsTyped
  <1>3. PICK due \in {pages, LeastExpected(job)} :
            sentJobs' = [sentJobs EXCEPT ![j] = [job EXCEPT !.due = due]]
    BY <1>1
  <1> DEFINE sent == [job EXCEPT !.due = due]
  <1>4. /\ sent.pages = pages /\ sent.duplex = duplex /\ sent.due = due /\ sent.printed = 0
        /\ sent.dropped = FALSE /\ sent.completed = NotCompleted
        /\ sent \in [pages: {pages}, duplex: {duplex}, due: {due}, printed: {0},
                     dropped: {FALSE}, completed: {NotCompleted}]
    BY DEF NotSent
  <1>5. due \in 0..MaxJobPages /\ LeastExpected(sent) = LeastExpected(job)
        /\ LeastExpected(job) <= due
    <2>1. LeastExpected(sent) = LeastExpected(job)
      BY <1>4 DEF LeastExpected, NotSent
    <2> HIDE DEF job
    <2> QED
      BY <1>2, <2>1
  <1> HIDE DEF job, sent
  <1>6. sent \in SentJobState
    <2>1. pages \in 0..MaxJobPages /\ 0 \in 0..MaxJobPages /\ due \in 0..MaxJobPages
      BY <1>2, <1>5
    <2>2. [pages: {pages}, duplex: {duplex}, due: {due}, printed: {0},
           dropped: {FALSE}, completed: {NotCompleted}] \subseteq SentJobState
      BY <2>1 DEF SentJobState
    <2> QED
      BY <1>4, <2>2
  <1>7. /\ sentJobs' = [sentJobs EXCEPT ![j] = sent] /\ sentJobs[j] = NotSent
        /\ UNCHANGED <<count, countReadings, round, verdict, walkUps, blurred>>
        /\ sentJobs \in [SentJob -> SentJobState]
    BY <1>3 DEF JobSent, JobsAreTrue, sent
  <1>8. sentJobs'[j] = sent /\ \A i \in SentJob : i # j => sentJobs'[i] = sentJobs[i]
    BY <1>7
  <1>9. JobsAreTrue'
    <2>1. sentJobs' \in [SentJob -> SentJobState]
      BY <1>6, <1>7
    <2>2. sent.printed <= due /\ LeastExpected(sent) <= due /\ sent.completed <= round.at
      BY <1>4, <1>5, ReadingTypes, JobTypes DEF NotCompleted
    <2> QED
      BY <1>4, <1>7, <1>8, <2>1, <2>2 DEF JobsAreTrue
  <1>10. PrintedPages' = PrintedPages
    BY <1>4, <1>7, <1>8 DEF PrintedPages, NotSent
  <1>11. /\ \A i \in SentJob : sentJobs'[i].completed = sentJobs[i].completed
         /\ \A i \in SentJob : sentJobs[i].dropped => sentJobs'[i] = sentJobs[i]
    BY <1>4, <1>7, <1>8 DEF NotSent
  <1> QED
    BY <1>7, <1>9, <1>10, <1>11, JobsMoveOn

LEMMA JobDroppedKeeps ==
    ASSUME PageReconcileInv, AlarmInv, NEW j \in SentJob, JobDropped(j) PROVE AlarmInv'
  <1> USE DEF AlarmInv, PageReconcileInv
  <1>1. /\ sentJobs' = [sentJobs EXCEPT ![j].dropped = TRUE]
        /\ UNCHANGED <<count, countReadings, round, verdict, walkUps, blurred>>
        /\ sentJobs \in [SentJob -> SentJobState]
    BY DEF JobDropped, JobsAreTrue
  <1>2. /\ sentJobs' \in [SentJob -> SentJobState]
        /\ \A i \in SentJob : /\ sentJobs'[i].pages = sentJobs[i].pages
                              /\ sentJobs'[i].duplex = sentJobs[i].duplex
                              /\ sentJobs'[i].due = sentJobs[i].due
                              /\ sentJobs'[i].printed = sentJobs[i].printed
                              /\ sentJobs'[i].completed = sentJobs[i].completed
                              /\ sentJobs[i].dropped => sentJobs'[i].dropped
    BY <1>1 DEF SentJobState
  <1>3. \A i \in SentJob : LeastExpected(sentJobs'[i]) = LeastExpected(sentJobs[i])
    BY <1>2 DEF LeastExpected
  <1>4. JobsAreTrue'
    BY <1>1, <1>2, <1>3 DEF JobsAreTrue
  <1>5. PrintedPages' = PrintedPages
    BY <1>2 DEF PrintedPages
  <1> QED
    BY <1>1, <1>2, <1>4, <1>5, JobsMoveOn

LEMMA JobForwardedKeeps ==
    ASSUME PageReconcileInv, AlarmInv, NEW j \in SentJob, JobForwarded(j) PROVE AlarmInv'
  <1> USE DEF AlarmInv, PageReconcileInv
  <1>1. /\ sentJobs' = [sentJobs EXCEPT ![j].completed = round.at]
        /\ sentJobs[j].completed = NotCompleted
        /\ UNCHANGED <<count, countReadings, round, verdict, walkUps, blurred>>
        /\ sentJobs \in [SentJob -> SentJobState] /\ round.at \in RoundTime
    BY DEF JobForwarded, JobsAreTrue, ReadingsAreDated, Round
  <1>2. /\ sentJobs' \in [SentJob -> SentJobState]
        /\ \A i \in SentJob : /\ sentJobs'[i].pages = sentJobs[i].pages
                              /\ sentJobs'[i].duplex = sentJobs[i].duplex
                              /\ sentJobs'[i].due = sentJobs[i].due
                              /\ sentJobs'[i].printed = sentJobs[i].printed
                              /\ sentJobs[i].dropped => sentJobs'[i].dropped
                              /\ \/ sentJobs'[i].completed = sentJobs[i].completed
                                 \/ /\ sentJobs[i].completed = NotCompleted
                                    /\ sentJobs'[i].completed = round.at
    BY <1>1 DEF SentJobState
  <1>3. \A i \in SentJob : /\ LeastExpected(sentJobs'[i]) = LeastExpected(sentJobs[i])
                           /\ sentJobs'[i].completed <= round.at
    BY <1>2, ReadingTypes DEF LeastExpected, JobsAreTrue
  <1>4. JobsAreTrue'
    BY <1>1, <1>2, <1>3 DEF JobsAreTrue
  <1>5. PrintedPages' = PrintedPages
    BY <1>2 DEF PrintedPages
  <1> QED
    BY <1>1, <1>2, <1>4, <1>5, JobsMoveOn

\* One more page is printed, of a job that was not reported yet, or everything is
\* blurred.
LEMMA PagePrintedKeeps ==
    ASSUME PageReconcileInv, AlarmInv, NEW j \in SentJob, PagePrinted(j) PROVE AlarmInv'
  <1> USE DEF AlarmInv, PageReconcileInv
  <1>1. /\ sentJobs[j].printed < sentJobs[j].due /\ ~sentJobs[j].dropped
        /\ count' = count + 1
        /\ sentJobs' = [sentJobs EXCEPT ![j].printed = @ + 1,
                                        ![j].dropped = sentJobs[j].printed + 1 = sentJobs[j].due]
        /\ UNCHANGED <<countReadings, round, verdict, walkUps>>
        /\ sentJobs \in [SentJob -> SentJobState]
    BY DEF PagePrinted, JobsAreTrue
  <1>2. /\ ~blurred' => ~blurred /\ round.pc # "ask" /\ sentJobs[j].completed = NotCompleted
    BY DEF PagePrinted
  <1>3. /\ sentJobs[j].printed \in 0..MaxJobPages /\ sentJobs[j].due \in 0..MaxJobPages
        /\ MaxJobPages \in Nat
        /\ sentJobs[j].printed + 1 \in 0..MaxJobPages
        /\ (sentJobs[j].printed + 1 = sentJobs[j].due) \in BOOLEAN
    BY <1>1, JobTypes DEF SentJobState
  <1>4. /\ \A i \in SentJob : /\ sentJobs'[i].pages = sentJobs[i].pages
                              /\ sentJobs'[i].duplex = sentJobs[i].duplex
                              /\ sentJobs'[i].due = sentJobs[i].due
                              /\ sentJobs'[i].completed = sentJobs[i].completed
                              /\ i # j => sentJobs'[i] = sentJobs[i]
        /\ sentJobs'[j].printed = sentJobs[j].printed + 1
        /\ sentJobs'[j].dropped <=> sentJobs[j].printed + 1 = sentJobs[j].due
    BY <1>1 DEF SentJobState
  <1>5. sentJobs' \in [SentJob -> SentJobState]
    <2>1. sentJobs[j] \in SentJobState
      BY JobTypes
    <2>2. [sentJobs[j] EXCEPT !.printed = sentJobs[j].printed + 1,
                              !.dropped = sentJobs[j].printed + 1 = sentJobs[j].due]
              \in SentJobState
      BY <1>3, <2>1 DEF SentJobState
    <2>3. sentJobs'[j] = [sentJobs[j] EXCEPT !.printed = sentJobs[j].printed + 1,
                              !.dropped = sentJobs[j].printed + 1 = sentJobs[j].due]
      BY <1>1
    <2>4. sentJobs'[j] \in SentJobState
      BY <2>2, <2>3
    <2> QED
      BY <1>1, <2>4
  <1>6. JobsAreTrue'
    <2>1. \A i \in SentJob : LeastExpected(sentJobs'[i]) = LeastExpected(sentJobs[i])
      BY <1>4 DEF LeastExpected
    <2>2. sentJobs'[j].printed <= sentJobs'[j].due
      BY <1>1, <1>3, <1>4
    <2> QED
      BY <1>1, <1>4, <1>5, <2>1, <2>2 DEF JobsAreTrue
  <1>7. /\ PrintedPages'[j] = PrintedPages[j] + 1
        /\ \A i \in SentJob : i # j => PrintedPages'[i] = PrintedPages[i]
        /\ \A i \in SentJob : PrintedPages[i] \in Nat /\ PrintedPages'[i] \in Nat
        /\ IsFiniteSet(SentJob)
    <2>1. \A i \in SentJob : PrintedPages'[i] = sentJobs'[i].printed
      BY DEF PrintedPages
    <2>2. \A i \in SentJob : PrintedPages[i] = sentJobs[i].printed /\ PrintedPages[i] \in Nat
      BY JobTypes
    <2> QED
      BY <1>4, <2>1, <2>2, JobTypes
  <1>8. ASSUME NEW T \in SUBSET SentJob
        PROVE  /\ Total(PrintedPages, T) \in Nat /\ Total(PrintedPages', T) \in Nat
               /\ j \in T => Total(PrintedPages', T) = Total(PrintedPages, T) + 1
               /\ j \notin T => Total(PrintedPages', T) = Total(PrintedPages, T)
    <2>1. /\ IsFiniteSet(T) /\ \A i \in T : PrintedPages[i] \in Nat /\ PrintedPages'[i] \in Nat
      BY <1>7, FS_Subset
    <2>2. Total(PrintedPages, T) \in Nat /\ Total(PrintedPages', T) \in Nat
      BY <2>1, SumIsNat
    <2>3. CASE j \in T
      <3>1. DifferAt(j, PrintedPages, PrintedPages', T)
        BY <1>7, <2>1, <2>3 DEF DifferAt
      <3>2. Total(PrintedPages', T) - PrintedPages'[j] = Total(PrintedPages, T) - PrintedPages[j]
        BY <2>1, <3>1, SumChanges
      <3> QED
        BY <1>7, <2>2, <2>3, <3>2
    <2>4. CASE j \notin T
      <3>1. \A i \in T : PrintedPages[i] \in Int /\ PrintedPages[i] = PrintedPages'[i]
        BY <1>7, <2>4
      <3>2. Total(PrintedPages, T) = Total(PrintedPages', T)
        BY <2>1, <3>1, SumsAgree
      <3> QED
        BY <2>2, <2>4, <3>2
    <2> QED
      BY <2>2, <2>3, <2>4
  <1>14. blurred' \in BOOLEAN
    BY DEF PagePrinted
  <1>9. /\ CountIsTrue' /\ ReadingsAreApart' /\ VerdictIsTyped'
    <2>1. walkUps \in Int
      BY PageReconcileAssumption DEF CountIsTrue
    <2>2. count' = Total(PrintedPages', SentJob) + walkUps
      BY <1>1, <1>8, <2>1 DEF CountIsTrue
    <2> QED
      BY <1>1, <1>14, <2>2 DEF CountIsTrue, ReadingsAreApart, VerdictIsTyped
  <1>10. RoundsAreClean'
    <2> SUFFICES ASSUME ~blurred', NEW i \in SentJob
                 PROVE  sentJobs'[i].completed # NotCompleted
                        /\ sentJobs'[i].completed < round.at => sentJobs'[i].dropped
      BY <1>1, <1>2 DEF RoundsAreClean
    <2> QED
      BY <1>2, <1>4 DEF RoundsAreClean
  <1>11. CountedSince'
    <2> SUFFICES ASSUME ~blurred', NEW r \in countReadings
                 PROVE  Total(PrintedPages', NotBefore(r)) <= count' - r.count
      <3>1. \A s \in countReadings : NotBefore(s)' = NotBefore(s)
        BY <1>4 DEF NotBefore
      <3> QED
        BY <1>1, <3>1 DEF CountedSince
    <2>1. NotBefore(r) \in SUBSET SentJob
      BY DEF NotBefore
    <2>2. Total(PrintedPages, NotBefore(r)) <= count - r.count
      BY <1>2 DEF CountedSince
    <2>3. count \in Int /\ r.count \in Int /\ count' = count + 1
      BY <1>1, <1>8, PageReconcileAssumption, ReadingTypes DEF CountIsTrue
    <2> QED
      BY <1>8, <2>1, <2>2, <2>3
  <1>12. CountedBetween'
    <2> SUFFICES ASSUME ~blurred', NEW r \in countReadings, NEW q \in countReadings, r.at < q.at
                 PROVE  Total(PrintedPages', FinishedBetween(r, q)) <= q.count - r.count
      <3>1. \A s, q \in countReadings : FinishedBetween(s, q)' = FinishedBetween(s, q)
        BY <1>4 DEF FinishedBetween
      <3> QED
        BY <1>1, <3>1 DEF CountedBetween
    <2>1. FinishedBetween(r, q) \in SUBSET SentJob
      BY DEF FinishedBetween
    <2>2. j \notin FinishedBetween(r, q)
      BY <1>2, ReadingTypes DEF FinishedBetween, NotCompleted
    <2> QED
      BY <1>2, <1>8, <2>1, <2>2 DEF CountedBetween
  <1>13. VerdictIsCovered'
    <2>1. \A i \in SentJob : LostPages'[i] = LostPages[i] /\ LostPages[i] \in Int
      <3>1. \A i \in SentJob : LostPages[i] \in Int
        BY JobTypes
      <3>2. LostPages'[j] = 0 /\ LostPages[j] = 0
        <4>1. ~sentJobs[j].dropped /\ sentJobs[j].due \in Int
          BY <1>1, <1>3
        <4>2. sentJobs'[j].dropped => sentJobs'[j].printed = sentJobs'[j].due
          BY <1>4
        <4>3. sentJobs'[j].due \in Int
          BY <1>4, <4>1
        <4> QED BY <4>1, <4>2, <4>3 DEF LostPages
      <3>3. \A i \in SentJob : i # j => LostPages'[i] = LostPages[i]
        BY <1>4 DEF LostPages
      <3> QED
        BY <3>1, <3>2, <3>3
    <2>2. Total(LostPages, SentJob) = Total(LostPages', SentJob)
      BY <1>7, <2>1, SumsAgree
    <2> QED
      BY <1>1, <1>2, <2>2 DEF VerdictIsCovered
  <1> QED
    BY <1>6, <1>9, <1>10, <1>11, <1>12, <1>13

LEMMA WalkUpKeeps == PageReconcileInv /\ AlarmInv /\ WalkUp => AlarmInv'
  <1> SUFFICES ASSUME PageReconcileInv, AlarmInv, WalkUp PROVE AlarmInv'
    OBVIOUS
  <1> USE DEF AlarmInv, PageReconcileInv
  <1>1. /\ walkUps < MaxWalkUps /\ walkUps' = walkUps + 1 /\ count' = count + 1
        /\ UNCHANGED <<countReadings, round, sentJobs, verdict, blurred>>
    BY DEF WalkUp
  <1>2. /\ JobsAreTrue' /\ ReadingsAreApart' /\ VerdictIsTyped' /\ VerdictIsCovered'
        /\ RoundsAreClean' /\ CountedBetween'
    BY <1>1, JobsStand
    DEF JobsAreTrue, ReadingsAreApart, VerdictIsTyped, VerdictIsCovered, RoundsAreClean,
        CountedBetween
  <1>3. Total(PrintedPages, SentJob) \in Nat
    BY JobTypes, SumIsNat
  <1>4. CountIsTrue'
    BY <1>1, <1>3, JobsStand, PageReconcileAssumption DEF CountIsTrue
  <1>5. CountedSince'
    <2> SUFFICES ASSUME ~blurred, NEW r \in countReadings
                 PROVE  Total(PrintedPages, NotBefore(r)) <= count' - r.count
      BY <1>1, JobsStand DEF CountedSince
    <2>1. NotBefore(r) \in SUBSET SentJob
      BY DEF NotBefore
    <2>2. IsFiniteSet(NotBefore(r)) /\ \A i \in NotBefore(r) : PrintedPages[i] \in Nat
      BY <2>1, JobTypes, FS_Subset
    <2>3. Total(PrintedPages, NotBefore(r)) \in Nat
      BY <2>2, SumIsNat
    <2>4. count \in Int /\ r.count \in Int /\ count' = count + 1
      BY <1>1, <1>3, PageReconcileAssumption, ReadingTypes DEF CountIsTrue
    <2> QED
      BY <2>3, <2>4 DEF CountedSince
  <1> QED
    BY <1>2, <1>4, <1>5

LEMMA AlarmIsKept ==
    PageReconcileInv /\ AlarmInv /\ [PageReconcileNext]_pageReconcileVars => AlarmInv'
  <1> SUFFICES ASSUME PageReconcileInv, AlarmInv, [PageReconcileNext]_pageReconcileVars
               PROVE  AlarmInv'
    OBVIOUS
  <1>1. CASE UNCHANGED pageReconcileVars
    <2>1. UNCHANGED <<count, countReadings, round, sentJobs, verdict, walkUps, blurred>>
      BY <1>1 DEF pageReconcileVars
    <2> QED
      BY <2>1, JobsStand
      DEF AlarmInv, JobsAreTrue, CountIsTrue, ReadingsAreApart, VerdictIsTyped,
          RoundsAreClean, CountedSince, CountedBetween, VerdictIsCovered
  <1>2. CASE StartRound
    BY <1>2, StartRoundKeeps
  <1>3. CASE CounterAnswers
    BY <1>3, CounterAnswerKeeps
  <1>4. CASE CounterIsSilent \/ RoundFails \/ SweepFails
    BY <1>4, RoundEndKeeps
  <1>5. CASE SweepUnprintedPages
    BY <1>5, SweepKeepsAlarm
  <1>6. CASE \E j \in SentJob : \/ JobSent(j) \/ PagePrinted(j)
                                \/ JobDropped(j) \/ JobForwarded(j)
    BY <1>6, JobSentKeeps, PagePrintedKeeps, JobDroppedKeeps, JobForwardedKeeps
  <1>7. CASE WalkUp
    BY <1>7, WalkUpKeeps
  <1> QED
    BY <1>1, <1>2, <1>3, <1>4, <1>5, <1>6, <1>7 DEF PageReconcileNext

\* Where nothing was blurred, the counts are at least what the jobs reported
\* between them have printed (sweep_unprinted_pages, _poll_counters_sync).
THEOREM AlarmInvHolds == PageReconcileSpec => []AlarmInv
  BY AlarmStarts, AlarmIsKept, PageReconcileInvHolds, PTL DEF PageReconcileSpec

\* Where every job is printed, counted and reported between two readings, the
\* pages that a sweep calls lost were lost, for any jobs, pages of others, window
\* and settings, and whatever rounds fail or go unanswered (assess,
\* sweep_unprinted_pages).
THEOREM AlarmsAreEarned == PageReconcileSpec => []AlarmIsEarned
  <1>1. AlarmInv => AlarmIsEarned
    BY UnprintedIs DEF AlarmInv, VerdictIsCovered, AlarmIsEarned
  <1> QED
    BY <1>1, AlarmInvHolds, PTL

\* The counter, the readings and the verdict keep their ranges: a sweep never
\* calls more pages lost than were sent (sweep_unprinted_pages).
THEOREM PageReconcileTyped == PageReconcileSpec => []PageReconcileTypeOK
  <1>1. PageReconcileInv /\ AlarmInv => PageReconcileTypeOK
    BY CountIsTyped
    DEF PageReconcileInv, ReadingsAreDated, AlarmInv, JobsAreTrue, CountIsTrue,
        ReadingsAreApart, VerdictIsTyped, PageReconcileTypeOK
  <1> QED
    BY <1>1, AlarmInvHolds, PageReconcileInvHolds, PTL
===============================================================================
