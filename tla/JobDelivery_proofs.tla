-------------------------- MODULE JobDelivery_proofs --------------------------
(***************************************************************************)
(* Proofs about JobDelivery, for any number of print jobs, rows,           *)
(* printers and requests, and any number of restarts, kills, cleared       *)
(* spools and crashes.                                                     *)
(*                                                                         *)
(* A row is marked superseded by two writers that do not know of each      *)
(* other: create_job, which goes by job-uuid, and the reconcile sweep,     *)
(* which goes by printer and number and writes what it decided a while     *)
(* ago. That both point forward rests on the order rows are created in     *)
(* (InOrder) and on what the sweep decided being still so when it          *)
(* commits (WinnerIsLater): a row never changes the print job it belongs   *)
(* to.                                                                     *)
(*                                                                         *)
(* The counts rest on every row of a print job but the last being          *)
(* accounted for (AccountInv, in the second half).                         *)
(***************************************************************************)
EXTENDS JobDelivery, FiniteSetTheorems, TLAPS, WellFoundedInduction

\* No two print jobs of a queue have one number: the spool is never cleared,
\* or the numbers have not come round again.
NumbersDiffer ==
    \A c, d \in CupsJob : QueueOf[c] = QueueOf[d] /\ Number[c] = Number[d] => c = d

\* Finitely many rows.
RowsEnd(top) == top \in Nat /\ \A j \in Job : j <= top

Absent(j) == jobs[j].status = "absent"

\* A row that was not created is blank, and one that was is about a print job.
RowHasJob ==
    \A j \in Job : /\ Absent(j) => jobs[j] = NoRow
                   /\ ~Absent(j) => jobs[j].cups \in CupsJob

\* Rows are created in the order of their ids.
InOrder == \A j, k \in Job : k < j /\ Absent(k) => Absent(j)

\* k is a later attempt at j's print job.
LaterAttempt(j, k) ==
    /\ k \in Job /\ j < k
    /\ ~Absent(j) /\ ~Absent(k)
    /\ jobs[j].cups = jobs[k].cups

\* TrailLeadsOn, for deleted rows as well.
Trail == \A j \in Job : jobs[j].superseded # NoJob => LaterAttempt(j, jobs[j].superseded)

TableInv == TableTypeOK /\ RowHasJob /\ InOrder /\ Trail

\* A backend that delivers, spools or reports has a row.
Busy == {"spool", "hold", "deliver", "done", "report", "dying"}

BackendInv ==
    /\ backend \in [CupsJob -> Backend]
    /\ \A c \in CupsJob : backend[c].pc \in Busy => backend[c].job \in Job

\* A request that cancels one job has a row.
AdminInv ==
    /\ admin \in [Admin -> AdminTask]
    /\ \A a \in Admin : admin[a].pc \in {"ask", "cancel", "write"} => admin[a].job \in Job

\* What the sweep takes for superseded is, whatever happens before it commits.
WinnerIsLater ==
    \A j \in Job : recon.winner[j] # NoJob => LaterAttempt(j, recon.winner[j])

ReconInv == recon \in Recon /\ WinnerIsLater

RestInv ==
    /\ cups \in [CupsJob -> CupsState]
    /\ patches \subseteq Patch
    /\ printed \subseteq Job
    /\ bounds \in [restarts: 0..MaxRestarts, kills: 0..MaxKills,
                   clears: 0..MaxClears, crashes: 0..MaxCrashes]

IInv == TableInv /\ BackendInv /\ AdminInv /\ ReconInv /\ RestInv

-----------------------------------------------------------------------------
LEMMA IdleIsIdle ==
    /\ NoBackend \in Backend /\ NoBackend.pc = "none"
    /\ IdleAdmin \in AdminTask /\ IdleAdmin.pc = "idle"
    /\ IdleRecon \in Recon /\ \A j \in Job : IdleRecon.winner[j] = NoJob
  BY DEF NoBackend, Backend, IdleAdmin, AdminTask, Status, IdleRecon, Recon

LEMMA InitHolds == Init => IInv
<1> SUFFICES ASSUME Init PROVE IInv
  OBVIOUS
<1> USE DEF Init, TableInit, DeliveryInit
<1>1. NoRow \in JobRow /\ NoRow.status = "absent" /\ NoRow.superseded = NoJob
  BY DEF NoRow, JobRow, Status, HoldReason
<1>2. TableInv
  BY <1>1 DEF TableInv, TableTypeOK, RowHasJob, InOrder, Trail, Absent
<1>3. BackendInv
  BY IdleIsIdle DEF BackendInv, Busy
<1>4. AdminInv
  BY IdleIsIdle DEF AdminInv
<1>5. ReconInv
  BY IdleIsIdle DEF ReconInv, WinnerIsLater
<1>6. RestInv
  BY JobDeliveryAssumption DEF RestInv, CupsState
<1> QED
  BY <1>2, <1>3, <1>4, <1>5, <1>6 DEF IInv

-----------------------------------------------------------------------------
(* What a write to a row leaves as it is.                                  *)

\* The row keeps its print job, and is superseded by what it was.
SameAttempt(row, new) ==
    /\ new \in JobRow
    /\ new.status # "absent"
    /\ new.cups = row.cups /\ new.superseded = row.superseded

LEMMA RowWrites ==
    ASSUME NEW row \in JobRow, NEW status \in Status \ {"absent"}
    PROVE  /\ SameAttempt(row, Closed(row, status))
           /\ SameAttempt(row, Disposed(row, status))
           /\ SameAttempt(row, Reported(row, status))
<1>1. ASSUME NEW r \in JobRow, r.status # "absent"
      PROVE  /\ SameAttempt(r, [r EXCEPT !.path = TRUE])
             /\ SameAttempt(r, [r EXCEPT !.path = FALSE])
  BY <1>1 DEF JobRow, SameAttempt
<1>2. ASSUME NEW s \in Status \ {"absent"} PROVE SameAttempt(row, Closed(row, s))
  <2>1. [row EXCEPT !.status = s] \in JobRow
    BY DEF JobRow
  <2>2. ASSUME NEW r \in JobRow PROVE [r EXCEPT !.age = 0] \in JobRow
    BY DEF JobRow
  <2>3. Closed(row, s) \in JobRow
    <3>1. Closed(row, s) = [[row EXCEPT !.status = s] EXCEPT !.age = 0]
      BY DEF Closed
    <3> QED BY <2>1, <2>2, <3>1
  <2> QED
    BY <2>3 DEF JobRow, SameAttempt, Closed
<1>3. SameAttempt(row, Disposed(row, status))
  BY <1>1, <1>2 DEF Disposed, SameAttempt
<1>4. SameAttempt(row, Reported(row, status))
  <2>1. CASE status = "held"
    <3>1. Reported(row, status) = [Closed(row, "held") EXCEPT !.path = TRUE]
      BY <2>1 DEF Reported
    <3>2. SameAttempt(row, Closed(row, "held"))
      BY <1>2 DEF Status
    <3> DEFINE held == Closed(row, "held")
    <3>3. held \in JobRow /\ held.status # "absent"
      BY <3>2 DEF SameAttempt
    <3> HIDE DEF held
    <3>4. SameAttempt(held, [held EXCEPT !.path = TRUE])
      BY <1>1, <3>3
    <3> QED BY <3>1, <3>2, <3>4 DEF held, SameAttempt
  <2>2. CASE status # "held"
    BY <1>2, <2>2 DEF Reported
  <2> QED BY <2>1, <2>2
<1> QED
  BY <1>2, <1>3, <1>4

LEMMA SupersedeWrites ==
    ASSUME NEW row \in JobRow, NEW j \in Job
    PROVE  /\ Supersede(row, j) \in JobRow
           /\ Supersede(row, j).status # "absent"
           /\ Supersede(row, j).cups = row.cups
           /\ Supersede(row, j).superseded = j
<1>1. SameAttempt(row, Closed(row, "cancelled"))
  BY RowWrites DEF Status
<1>2. ASSUME NEW r \in JobRow PROVE [r EXCEPT !.superseded = j] \in JobRow
  BY DEF JobRow
<1>3. Supersede(row, j) \in JobRow
  BY <1>1, <1>2 DEF Supersede, SameAttempt
<1> QED
  BY <1>1, <1>3 DEF Supersede, SameAttempt, JobRow

\* A step that writes rows, but creates none and supersedes none.
RowsKeep ==
    \A j \in Job : jobs'[j] = jobs[j] \/ (~Absent(j) /\ SameAttempt(jobs[j], jobs'[j]))

LEMMA LaterKeeps ==
    ASSUME RowsKeep, NEW j \in Job, NEW k, LaterAttempt(j, k) PROVE LaterAttempt(j, k)'
  BY DEF RowsKeep, LaterAttempt, Absent, SameAttempt

LEMMA TableKeeps ==
    ASSUME TableInv, RowsKeep, DOMAIN jobs' = Job, jobs' = [j \in Job |-> jobs'[j]],
           spool' \subseteq Job, online' \subseteq Printer,
           fleet' \in [Printer -> {"active", "archived", "deleted"}]
    PROVE  TableInv'
<1>1. jobs \in [Job -> JobRow]
  BY DEF TableInv, TableTypeOK
<1>2. \A j \in Job : jobs'[j] \in JobRow
  BY <1>1 DEF RowsKeep, SameAttempt
<1>3. TableTypeOK'
  BY <1>2 DEF TableInv, TableTypeOK
<1>4. \A j \in Job : Absent(j)' <=> Absent(j)
  BY DEF RowsKeep, SameAttempt, Absent
<1>5. RowHasJob'
  BY <1>4 DEF TableInv, RowHasJob, RowsKeep, SameAttempt, Absent
<1>6. InOrder'
  BY <1>4 DEF TableInv, InOrder
<1>7. Trail'
  <2>1. ASSUME NEW j \in Job, NEW k, k = jobs[j].superseded, k # NoJob
        PROVE  LaterAttempt(j, k)'
    BY <2>1, LaterKeeps DEF TableInv, Trail
  <2>2. \A j \in Job : jobs'[j].superseded = jobs[j].superseded
    BY DEF RowsKeep, SameAttempt
  <2> QED
    BY <2>1, <2>2 DEF Trail, LaterAttempt, Absent
<1> QED
  BY <1>3, <1>5, <1>6, <1>7 DEF TableInv

LEMMA ReconKeeps ==
    ASSUME ReconInv, RowsKeep, UNCHANGED recon PROVE ReconInv'
  BY LaterKeeps DEF ReconInv, WinnerIsLater

LEMMA TableStays == ASSUME TableInv, UNCHANGED tableVars PROVE TableInv' /\ RowsKeep
  BY DEF tableVars, TableInv, TableTypeOK, RowHasJob, InOrder, Trail, LaterAttempt,
         Absent, RowsKeep

LEMMA AdminStays == ASSUME AdminInv, UNCHANGED admin PROVE AdminInv'
  BY DEF AdminInv

LEMMA BackendStays == ASSUME BackendInv, UNCHANGED backend PROVE BackendInv'
  BY DEF BackendInv

LEMMA RestStays ==
    ASSUME RestInv, UNCHANGED <<cups, patches, printed, bounds>> PROVE RestInv'
  BY DEF RestInv

-----------------------------------------------------------------------------
(* Steps of a backend.                                                     *)

\* A backend stops, starts without a row, or goes on with the one it has.
LEMMA BackendMoves ==
    ASSUME BackendInv, NEW c \in CupsJob
    PROVE  /\ backend' = [backend EXCEPT ![c] = NoBackend] => BackendInv'
           /\ backend' = [backend EXCEPT ![c].pc = "create"] => BackendInv'
           /\ \A ok \in BOOLEAN : Exits(c, ok) => BackendInv'
           /\ \A pc \in Busy, ok \in BOOLEAN :
                 /\ backend[c].pc \in Busy
                 /\ Goes(c, pc) \/ backend' = [backend EXCEPT ![c].pc = pc, ![c].ok = ok]
                 => BackendInv'
           /\ \A pc \in Busy, j \in Job :
                 backend' = [backend EXCEPT ![c].job = j, ![c].pc = pc] => BackendInv'
  <1> USE DEF BackendInv
  <1>1. backend' = [backend EXCEPT ![c] = NoBackend] => BackendInv'
    BY IdleIsIdle DEF Busy
  <1>2. backend' = [backend EXCEPT ![c].pc = "create"] => BackendInv'
    BY DEF Busy, Backend
  <1>3. ASSUME NEW ok \in BOOLEAN, Exits(c, ok) PROVE BackendInv'
    <2>0. [backend[c] EXCEPT !.pc = "exit", !.ok = ok] \in Backend
      BY DEF Backend
    <2>1. backend' \in [CupsJob -> Backend]
      BY <1>3, <2>0 DEF Exits
    <2>2. backend'[c].pc = "exit" /\ \A d \in CupsJob : d # c => backend'[d] = backend[d]
      BY <1>3 DEF Exits, Backend
    <2> QED BY <2>1, <2>2 DEF Busy
  <1>4. ASSUME NEW pc \in Busy, backend[c].pc \in Busy, Goes(c, pc) PROVE BackendInv'
    BY <1>4 DEF Goes, Busy, Backend
  <1>5. ASSUME NEW pc \in Busy, NEW ok \in BOOLEAN, backend[c].pc \in Busy,
               backend' = [backend EXCEPT ![c].pc = pc, ![c].ok = ok]
        PROVE  BackendInv'
    <2> DEFINE b == [backend[c] EXCEPT !.pc = pc, !.ok = ok]
    <2>1. b \in Backend /\ b.job \in Job
      BY <1>5 DEF Busy, Backend
    <2>2. backend' = [backend EXCEPT ![c] = b]
      BY <1>5
    <2> HIDE DEF b
    <2> QED BY <2>1, <2>2
  <1>6. ASSUME NEW pc \in Busy, NEW j \in Job,
               backend' = [backend EXCEPT ![c].job = j, ![c].pc = pc]
        PROVE  BackendInv'
    <2>0. [backend[c] EXCEPT !.job = j, !.pc = pc] \in Backend
      BY DEF Busy, Backend
    <2>1. backend' \in [CupsJob -> Backend]
      BY <1>6, <2>0
    <2>2. backend'[c].job = j /\ \A d \in CupsJob : d # c => backend'[d] = backend[d]
      BY <1>6 DEF Backend
    <2> QED BY <2>1, <2>2
  <1> QED
    BY <1>1, <1>2, <1>3, <1>4, <1>5, <1>6

\* A backend that is busy reports about its row.
LEMMA ReportFits ==
    ASSUME BackendInv, RestInv, NEW c \in CupsJob, backend[c].pc \in Busy,
           NEW status \in {"held", "forwarded", "failed", "cancelled"}, Reports(c, status)
    PROVE  patches' \subseteq Patch
  BY DEF BackendInv, RestInv, Reports, Patch

-----------------------------------------------------------------------------
(* cupsd.                                                                  *)

LEMMA CupsKeeps == IInv /\ CupsStep => IInv'
<1> SUFFICES ASSUME IInv, NEW c \in CupsJob,
                    \/ Submit(c) \/ StartBackend(c) \/ BackendExits(c)
                    \/ CupsRestarts(c) \/ CupsCancels(c) \/ RollOff(c)
             PROVE  IInv'
  BY DEF CupsStep
<1> USE DEF IInv
<1>1. UNCHANGED tableVars /\ UNCHANGED <<printed, patches, admin, recon>>
  BY DEF Submit, StartBackend, BackendExits, CupsRestarts, CupsCancels, RollOff, apiVars
<1>2. TableInv' /\ AdminInv' /\ ReconInv'
  BY <1>1, TableStays, AdminStays, ReconKeeps
<1>3. BackendInv'
  <2>1. \/ UNCHANGED backend
        \/ backend' = [backend EXCEPT ![c].pc = "create"]
        \/ backend' = [backend EXCEPT ![c] = NoBackend]
    BY DEF Submit, StartBackend, BackendExits, CupsRestarts, CupsCancels, RollOff
  <2> QED BY <2>1, BackendStays, BackendMoves
<1>4. cups' \in [CupsJob -> CupsState]
  <2>1. UNCHANGED cups \/ \E s \in CupsState : cups' = [cups EXCEPT ![c] = s]
    BY DEF Submit, StartBackend, BackendExits, CupsRestarts, CupsCancels, RollOff,
           CupsState, Known, InFlight, Finished
  <2> QED BY <2>1 DEF RestInv
<1>5. \/ UNCHANGED bounds
      \/ bounds.restarts < MaxRestarts /\ bounds' = [bounds EXCEPT !.restarts = @ + 1]
  BY DEF Submit, StartBackend, BackendExits, CupsRestarts, CupsCancels, RollOff
<1>6. RestInv'
  BY <1>1, <1>4, <1>5, JobDeliveryAssumption DEF RestInv
<1> QED
  BY <1>2, <1>3, <1>6

-----------------------------------------------------------------------------
(* The backend.                                                            *)

\* A row that is created is the last one, so what it supersedes is earlier.
LEMMA CreatedKeeps ==
    ASSUME IInv, NEW c \in CupsJob, NEW j \in Job, NEW r \in Reasons \cup {"none"},
           RowCreated(c, j, r), UNCHANGED <<spool, fleet, online, recon>>
    PROVE  TableInv' /\ ReconInv'
<1> DEFINE new == [NoRow EXCEPT !.status = "forwarding", !.cups = c, !.reason = r]
<1>1. jobs \in [Job -> JobRow]
  BY DEF IInv, TableInv, TableTypeOK
<1>2. /\ new \in JobRow /\ new.status = "forwarding"
      /\ new.cups = c /\ new.superseded = NoJob
  <2>1. r \in HoldReason \cup {"none"}
    BY JobDeliveryAssumption
  <2>2. NoRow \in JobRow /\ NoRow.superseded = NoJob
    BY DEF NoRow, JobRow, Status, HoldReason
  <2>3. ASSUME NEW row \in JobRow
        PROVE  /\ [row EXCEPT !.status = "forwarding"] \in JobRow
               /\ [row EXCEPT !.cups = c] \in JobRow
               /\ [row EXCEPT !.reason = r] \in JobRow
    BY <2>1 DEF JobRow, Status
  <2>4. new = [[[NoRow EXCEPT !.status = "forwarding"] EXCEPT !.cups = c] EXCEPT !.reason = r]
    OBVIOUS
  <2>5. new \in JobRow
    BY <2>2, <2>3, <2>4
  <2> QED
    BY <2>2, <2>5 DEF JobRow
<1> HIDE DEF new
<1>3. /\ Absent(j)
      /\ \A k \in Job : k < j => ~Absent(k)
  BY DEF RowCreated, IsNext, Absent
<1>4. \A k \in EarlierAttempts(c, j) :
         k \in Job /\ k # j /\ ~Absent(k) /\ jobs[k].cups = c
  BY DEF EarlierAttempts, Exists, Absent
<1>5. \A k \in Job : ~Absent(k) => k < j
  BY <1>3, JobTableAssumption DEF IInv, TableInv, InOrder, Absent
<1>6. \A k \in Job : jobs'[k] = IF k = j THEN new
                                ELSE IF k \in EarlierAttempts(c, j) THEN Supersede(jobs[k], j)
                                ELSE jobs[k]
  BY DEF RowCreated, new
<1>7. jobs' \in [Job -> JobRow]
  <2>1. ASSUME NEW k \in Job PROVE jobs'[k] \in JobRow
    <3>1. jobs[k] \in JobRow
      BY <1>1
    <3>2. Supersede(jobs[k], j) \in JobRow
      BY <3>1, SupersedeWrites
    <3> QED BY <1>2, <1>6, <3>1, <3>2
  <2> QED BY <2>1 DEF RowCreated
<1>8. ASSUME NEW k \in Job, k # j
      PROVE  /\ Absent(k)' <=> Absent(k)
             /\ jobs'[k].cups = jobs[k].cups
             /\ Absent(k) => jobs'[k] = jobs[k]
  BY <1>8, <1>1, <1>4, <1>6, SupersedeWrites DEF Absent
<1>9. ~Absent(j)' /\ jobs'[j].cups = c
  BY <1>2, <1>6 DEF Absent
<1>10. RowHasJob'
  <2>1. ASSUME NEW k \in Job
        PROVE  /\ Absent(k)' => jobs'[k] = NoRow
               /\ ~Absent(k)' => jobs'[k].cups \in CupsJob
    <3>1. CASE k = j
      BY <1>9, <3>1
    <3>2. CASE k # j
      BY <1>8, <3>2 DEF IInv, TableInv, RowHasJob
    <3> QED BY <3>1, <3>2
  <2> QED BY <2>1 DEF RowHasJob
<1>11. InOrder'
  <2>1. ASSUME NEW i \in Job, NEW k \in Job, k < i, Absent(k)' PROVE Absent(i)'
    <3>1. k # j /\ Absent(k)
      BY <1>8, <1>9, <2>1
    <3>2. Absent(i)
      BY <2>1, <3>1 DEF IInv, TableInv, InOrder
    <3>3. i # j
      BY <1>3, <2>1, <3>1
    <3> QED BY <1>8, <3>2, <3>3
  <2> QED BY <2>1 DEF InOrder
<1>12. ASSUME NEW k \in Job, NEW l, LaterAttempt(k, l) PROVE LaterAttempt(k, l)'
  <2>1. k \in Job /\ l \in Job /\ k # j /\ l # j
    BY <1>3, <1>12 DEF LaterAttempt
  <2> QED
    BY <1>8, <1>12, <2>1 DEF LaterAttempt
<1>13. Trail'
  <2>1. ASSUME NEW k \in EarlierAttempts(c, j)
        PROVE  jobs'[k].superseded = j /\ LaterAttempt(k, j)'
    BY <1>1, <1>4, <1>5, <1>6, <1>8, <1>9, SupersedeWrites DEF LaterAttempt, Absent
  <2>2. ASSUME NEW k \in Job, k # j, k \notin EarlierAttempts(c, j),
               NEW l, l = jobs[k].superseded, l # NoJob
        PROVE  LaterAttempt(k, l)'
    BY <1>12, <2>2 DEF IInv, TableInv, Trail
  <2>3. jobs'[j].superseded = NoJob
    BY <1>2, <1>6
  <2>4. \A k \in Job : k # j /\ k \notin EarlierAttempts(c, j) =>
                        jobs'[k].superseded = jobs[k].superseded
    BY <1>6
  <2> QED
    BY <2>1, <2>2, <2>3, <2>4 DEF Trail, LaterAttempt, Absent
<1>14. ReconInv'
  BY <1>12 DEF IInv, ReconInv, WinnerIsLater
<1> QED
  BY <1>7, <1>10, <1>11, <1>13, <1>14 DEF IInv, TableInv, TableTypeOK

LEMMA CreateKeeps ==
    ASSUME IInv, NEW c \in CupsJob, NEW j \in Job, NEW r \in Reasons \cup {"none"},
           CreateJob(c, j, r) \/ CreateUnanswered(c, j, r)
    PROVE  IInv'
<1>1. /\ RowCreated(c, j, r)
      /\ UNCHANGED <<spool, fleet, online, cups, printed, patches, admin, recon, bounds>>
  BY DEF CreateJob, CreateUnanswered, apiVars
<1>2. TableInv' /\ ReconInv'
  BY <1>1, CreatedKeeps
<1>3. BackendInv'
  <2>1. \/ Exits(c, FALSE)
        \/ backend' = [backend EXCEPT ![c].job = j, ![c].pc = "deliver"]
        \/ backend' = [backend EXCEPT ![c].job = j, ![c].pc = "spool"]
    BY DEF CreateJob, CreateUnanswered
  <2> QED BY <2>1, BackendMoves DEF IInv, Busy
<1> QED
  BY <1>1, <1>2, <1>3, AdminStays, RestStays DEF IInv

LEMMA BackendKeeps == IInv /\ BackendStep => IInv'
<1> SUFFICES ASSUME IInv, NEW c \in CupsJob,
                    \/ GiveUp(c)
                    \/ \E j \in Job, r \in Reasons \cup {"none"} :
                          CreateJob(c, j, r) \/ CreateUnanswered(c, j, r)
                    \/ SpoolHeldFile(c) \/ SpoolFails(c)
                    \/ ChildExits(c) \/ SendReport(c)
                    \/ SignalArrives(c) \/ BackendDies(c) \/ NoAnswer(c)
             PROVE  IInv'
  BY DEF BackendStep
<1> USE DEF IInv
<1>1. CASE GiveUp(c) \/ NoAnswer(c)
  <2>1. UNCHANGED <<tableVars, cups, printed, patches, admin, recon, bounds>> /\ Exits(c, FALSE)
    BY <1>1 DEF GiveUp, NoAnswer, apiVars
  <2> QED
    BY <2>1, TableStays, ReconKeeps, AdminStays, RestStays, BackendMoves
<1>2. CASE \E j \in Job, r \in Reasons \cup {"none"} :
              CreateJob(c, j, r) \/ CreateUnanswered(c, j, r)
  BY <1>2, CreateKeeps
<1>3. CASE SpoolHeldFile(c) \/ SpoolFails(c)
  <2>1. backend[c].pc \in Busy /\ backend[c].job \in Job
    BY <1>3 DEF SpoolHeldFile, SpoolFails, At, BackendInv, Busy
  <2>2. /\ UNCHANGED <<jobs, fleet, online, cups, printed, admin, recon, bounds>>
        /\ spool' \in {spool, spool \cup {backend[c].job}}
    BY <1>3 DEF SpoolHeldFile, SpoolFails, apiVars
  <2>3. TableInv' /\ RowsKeep
    BY <2>1, <2>2, TableKeeps DEF TableInv, TableTypeOK, RowsKeep
  <2>4. BackendInv'
    BY <1>3, <2>1, BackendMoves DEF SpoolHeldFile, SpoolFails, Busy
  <2>5. patches' \subseteq Patch
    BY <1>3, <2>1, ReportFits DEF SpoolHeldFile, SpoolFails, RestInv
  <2> QED
    BY <2>2, <2>3, <2>4, <2>5, ReconKeeps, AdminStays DEF RestInv
<1>4. CASE ChildExits(c)
  <2>1. backend[c].pc \in Busy /\ backend[c].job \in Job
    BY <1>4 DEF ChildExits, At, BackendInv, Busy
  <2>2. UNCHANGED <<tableVars, cups, patches, admin, recon, bounds>> /\ printed' \subseteq Job
    BY <1>4, <2>1 DEF ChildExits, RestInv, apiVars
  <2>3. BackendInv'
    BY <1>4, <2>1, BackendMoves DEF ChildExits, Busy
  <2> QED
    BY <2>2, <2>3, TableStays, ReconKeeps, AdminStays DEF RestInv
<1>5. CASE SendReport(c) \/ SignalArrives(c)
  <2>1. UNCHANGED <<tableVars, cups, printed, admin, recon, bounds>>
    BY <1>5 DEF SendReport, SignalArrives, apiVars
  <2>2. \/ Exits(c, FALSE) /\ UNCHANGED patches
        \/ /\ backend[c].pc \in Busy
           /\ Goes(c, "report") \/ Goes(c, "dying")
           /\ Reports(c, "forwarded") \/ Reports(c, "failed") \/ Reports(c, "cancelled")
    BY <1>5, Zenon DEF SendReport, SignalArrives, At, Busy
  <2>3. BackendInv'
    BY <2>2, BackendMoves DEF Busy
  <2>4. patches' \subseteq Patch
    BY <2>2, ReportFits DEF RestInv
  <2> QED
    BY <2>1, <2>3, <2>4, TableStays, ReconKeeps, AdminStays DEF RestInv
<1>6. CASE BackendDies(c)
  <2>1. /\ UNCHANGED <<tableVars, cups, printed, patches, admin, recon>> /\ Exits(c, FALSE)
        /\ bounds.kills < MaxKills /\ bounds' = [bounds EXCEPT !.kills = @ + 1]
    BY <1>6 DEF BackendDies, apiVars
  <2>2. RestInv'
    BY <2>1, JobDeliveryAssumption DEF RestInv
  <2> QED
    BY <2>1, <2>2, TableStays, ReconKeeps, AdminStays, BackendMoves
<1> QED
  BY <1>1, <1>2, <1>3, <1>4, <1>5, <1>6

-----------------------------------------------------------------------------
(* Status reports.                                                         *)

LEMMA TellFits ==
    ASSUME BackendInv, NEW m, NEW refused \in BOOLEAN,
           Tell(m, refused) \/ UNCHANGED backend
    PROVE  BackendInv'
<1>1. CASE UNCHANGED backend
  BY <1>1, BackendStays
<1>2. CASE Tell(m, refused)
  <2>1. PICK c \in CupsJob : Exits(c, ~refused) \/ Exits(c, backend[c].ok) \/ Exits(c, FALSE)
    BY <1>2 DEF Tell
  <2>2. backend[c].ok \in BOOLEAN
    BY DEF BackendInv, Backend
  <2> QED BY <2>1, <2>2, BackendMoves
<1> QED
  BY <1>1, <1>2

LEMMA ReportKeeps == IInv /\ ReportStep => IInv'
<1> SUFFICES ASSUME IInv, NEW m \in patches, UpdateJob(m) \/ RefuseUpdate(m) PROVE IInv'
  BY DEF ReportStep
<1> USE DEF IInv
<1>1. /\ UNCHANGED <<spool, fleet, online, cups, printed, admin, recon, bounds>>
      /\ patches' = patches \ {m}
  BY DEF UpdateJob, RefuseUpdate, tableVars, apiVars
<1>2. RestInv'
  BY <1>1 DEF RestInv
<1>3. BackendInv'
  BY TellFits DEF UpdateJob, RefuseUpdate
<1>4. CASE UpdateJob(m)
  <2>1. m.job \in Job /\ m.status \in Status \ {"absent"}
    BY DEF RestInv, Patch, Status
  <2>2. /\ jobs \in [Job -> JobRow] /\ ~Absent(m.job)
        /\ jobs' = [jobs EXCEPT ![m.job] = Reported(jobs[m.job], m.status)]
    BY <1>4 DEF UpdateJob, Exists, Absent, TableInv, TableTypeOK
  <2>3. SameAttempt(jobs[m.job], Reported(jobs[m.job], m.status))
    BY <2>1, <2>2, RowWrites
  <2>4. RowsKeep
    BY <2>1, <2>2, <2>3 DEF RowsKeep
  <2>5. TableInv'
    BY <1>1, <2>2, <2>4, TableKeeps DEF TableInv, TableTypeOK
  <2> QED
    BY <1>1, <1>2, <1>3, <2>4, <2>5, ReconKeeps, AdminStays
<1>5. CASE RefuseUpdate(m)
  BY <1>1, <1>2, <1>3, <1>5, TableStays, ReconKeeps, AdminStays DEF RefuseUpdate
<1> QED
  BY <1>4, <1>5

-----------------------------------------------------------------------------
(* Cancelling one job, and purging a queue.                                *)

LEMMA AdminMoves ==
    ASSUME AdminInv, NEW a \in Admin
    PROVE  /\ AdminStep(a, IdleAdmin) => AdminInv'
           /\ \A j \in Job, read \in Status, pc \in {"ask", "cancel"} :
                 AdminStep(a, [IdleAdmin EXCEPT !.job = j, !.read = read, !.pc = pc])
                 => AdminInv'
           /\ \A p \in Printer :
                 AdminStep(a, [IdleAdmin EXCEPT !.pc = "purge", !.printer = {p}]) => AdminInv'
           /\ \A pc \in {"cancel", "write"} :
                 /\ admin[a].pc \in {"ask", "cancel"}
                 /\ AdminStep(a, [admin[a] EXCEPT !.pc = pc])
                 => AdminInv'
<1> DEFINE Fits(task) == /\ task \in AdminTask
                         /\ task.pc \in {"ask", "cancel", "write"} => task.job \in Job
<1>1. ASSUME NEW task, Fits(task), AdminStep(a, task) PROVE AdminInv'
  BY <1>1 DEF AdminInv, AdminStep
<1>2. Fits(IdleAdmin)
  BY IdleIsIdle
<1>3. ASSUME NEW j \in Job, NEW read \in Status, NEW pc \in {"ask", "cancel"}
      PROVE  Fits([IdleAdmin EXCEPT !.job = j, !.read = read, !.pc = pc])
  BY DEF IdleAdmin, AdminTask
<1>4. ASSUME NEW p \in Printer
      PROVE  Fits([IdleAdmin EXCEPT !.pc = "purge", !.printer = {p}])
  BY DEF IdleAdmin, AdminTask, Status
<1>5. ASSUME NEW pc \in {"cancel", "write"}, admin[a].pc \in {"ask", "cancel"}
      PROVE  Fits([admin[a] EXCEPT !.pc = pc])
  BY <1>5 DEF AdminInv, AdminTask
<1> HIDE DEF Fits
<1> QED
  BY <1>1, <1>2, <1>3, <1>4, <1>5

LEMMA CanceledFits ==
    ASSUME RestInv, NEW S, cups' = Canceled(S) PROVE cups' \in [CupsJob -> CupsState]
  BY DEF RestInv, Canceled, CupsState, Known, Finished

LEMMA AdminKeeps == IInv /\ AdminRequest => IInv'
<1> SUFFICES ASSUME IInv, NEW a \in Admin,
                    \/ \E j \in Job : ReadCancel(a, j)
                    \/ AskIdentity(a) \/ CancelCupsJob(a) \/ CancelFails(a)
                    \/ WriteCancelled(a)
                    \/ \E p \in Printer : PurgeQueue(a, p)
                    \/ PurgeRows(a)
             PROVE  IInv'
  BY DEF AdminRequest
<1> USE DEF IInv
<1>0. jobs \in [Job -> JobRow]
  BY DEF TableInv, TableTypeOK
<1>1. ASSUME UNCHANGED <<tableVars, cupsVars, patches, recon, bounds>>, AdminInv'
      PROVE  IInv'
  BY <1>1, TableStays, ReconKeeps, BackendStays, RestStays DEF cupsVars
<1>2. CASE \E j \in Job : ReadCancel(a, j)
  <2>1. PICK j \in Job : ReadCancel(a, j)
    BY <1>2
  <2>2. jobs[j].status \in Status
    BY <1>0 DEF JobRow
  <2>3. \E pc \in {"ask", "cancel"} :
           AdminStep(a, [IdleAdmin EXCEPT !.job = j, !.read = jobs[j].status, !.pc = pc])
    BY <2>1 DEF ReadCancel
  <2>4. AdminInv'
    BY <2>2, <2>3, AdminMoves
  <2> QED
    BY <1>1, <2>1, <2>4 DEF ReadCancel
<1>3. CASE AskIdentity(a)
  BY <1>1, <1>3, AdminMoves DEF AskIdentity
<1>4. CASE CancelCupsJob(a)
  <2>1. /\ UNCHANGED <<tableVars, backend, printed, patches, recon, bounds>>
        /\ cups' \in [CupsJob -> CupsState] /\ AdminInv'
    BY <1>4, CanceledFits, AdminMoves DEF CancelCupsJob
  <2> QED
    BY <2>1, TableStays, ReconKeeps, BackendStays DEF RestInv
<1>5. CASE CancelFails(a)
  BY <1>1, <1>5, AdminMoves DEF CancelFails
<1>6. CASE \E p \in Printer : PurgeQueue(a, p)
  <2>1. /\ UNCHANGED <<tableVars, backend, printed, patches, recon, bounds>>
        /\ cups' \in [CupsJob -> CupsState] /\ AdminInv'
    BY <1>6, CanceledFits, AdminMoves DEF PurgeQueue
  <2> QED
    BY <2>1, TableStays, ReconKeeps, BackendStays DEF RestInv
<1>7. CASE WriteCancelled(a) \/ PurgeRows(a)
  <2>1. /\ UNCHANGED <<spool, fleet, online, cupsVars, patches, recon, bounds>>
        /\ AdminInv'
    BY <1>7, AdminMoves DEF WriteCancelled, PurgeRows
  <2>2. \A j \in Job : ~Absent(j) => SameAttempt(jobs[j], Closed(jobs[j], "cancelled"))
    BY <1>0, RowWrites DEF Status
  <2>3. jobs' \in [Job -> JobRow] /\ RowsKeep
    <3>1. CASE WriteCancelled(a)
      <4>1. CASE jobs' = jobs
        BY <1>0, <4>1 DEF RowsKeep
      <4>2. CASE jobs' # jobs
        <5> DEFINE j == admin[a].job
        <5>1. /\ j \in Job /\ ~Absent(j)
              /\ jobs' = [jobs EXCEPT ![j] = Closed(jobs[j], "cancelled")]
          BY <3>1, <4>2 DEF WriteCancelled, Exists, Absent, AdminInv
        <5> HIDE DEF j
        <5> QED BY <1>0, <2>2, <5>1 DEF RowsKeep, SameAttempt
      <4> QED BY <4>1, <4>2
    <3>2. CASE PurgeRows(a)
      <4>1. /\ jobs' = [j \in Job |-> jobs'[j]]
            /\ \A j \in Job :
                 \/ jobs'[j] = jobs[j]
                 \/ ~Absent(j) /\ jobs'[j] = Closed(jobs[j], "cancelled")
        BY <3>2 DEF PurgeRows, Absent
      <4> QED BY <1>0, <2>2, <4>1 DEF RowsKeep, SameAttempt
    <3> QED BY <1>7, <3>1, <3>2
  <2>4. TableInv'
    BY <2>1, <2>3, TableKeeps DEF TableInv, TableTypeOK
  <2> QED
    BY <2>1, <2>3, <2>4, ReconKeeps, BackendStays, RestStays DEF cupsVars
<1> QED
  BY <1>2, <1>3, <1>4, <1>5, <1>6, <1>7

-----------------------------------------------------------------------------
(* The rest of the world.                                                  *)

LEMMA WorldKeeps == IInv /\ WorldStep => IInv'
<1> SUFFICES ASSUME IInv, WorldStep PROVE IInv'
  OBVIOUS
<1> USE DEF IInv
<1>0. jobs \in [Job -> JobRow] /\ fleet \in [Printer -> {"active", "archived", "deleted"}]
  BY DEF TableInv, TableTypeOK
<1>1. CASE \E j \in Job : RowAges(j)
  <2>1. PICK j \in Job : RowAges(j)
    BY <1>1
  <2>2. /\ jobs' = [jobs EXCEPT ![j].age = @ + 1]
        /\ ~Absent(j) /\ jobs[j].age < 2
        /\ UNCHANGED <<spool, fleet, online, deliveryVars>>
    BY <2>1 DEF RowAges, Absent
  <2>3. SameAttempt(jobs[j], jobs'[j]) /\ jobs' \in [Job -> JobRow]
    BY <1>0, <2>2 DEF SameAttempt, JobRow, Absent
  <2>4. RowsKeep
    BY <1>0, <2>2, <2>3 DEF RowsKeep
  <2>5. TableInv'
    BY <2>2, <2>3, <2>4, TableKeeps DEF TableInv, TableTypeOK
  <2> QED
    BY <2>2, <2>4, <2>5, ReconKeeps, AdminStays, BackendStays, RestStays
       DEF deliveryVars, cupsVars, apiVars
<1>2. CASE \E p \in Printer : \/ ArchivePrinter(p)
                              \/ UnarchivePrinter(p)
                              \/ DeletePrinter(p)
  <2>1. PICK p \in Printer : ArchivePrinter(p) \/ UnarchivePrinter(p) \/ DeletePrinter(p)
    BY <1>2
  <2>2. UNCHANGED <<spool, backend, printed, patches, admin, recon, bounds>>
    BY <2>1 DEF ArchivePrinter, UnarchivePrinter, DeletePrinter, deliveryVars, cupsVars, apiVars
  <2>3. QueueRemoved(p) \/ UNCHANGED cups
    BY <2>1 DEF ArchivePrinter, UnarchivePrinter, DeletePrinter, deliveryVars, cupsVars
  <2>4. cups' \in [CupsJob -> CupsState]
    BY <2>3 DEF RestInv, QueueRemoved, CupsState, Known, InFlight, Finished
  <2>5. /\ fleet' \in [Printer -> {"active", "archived", "deleted"}]
        /\ online' \subseteq Printer
    BY <1>0, <2>1 DEF ArchivePrinter, UnarchivePrinter, DeletePrinter, TableInv, TableTypeOK
  <2>6. /\ jobs' = [j \in Job |-> jobs'[j]]
        /\ \A j \in Job : \/ jobs'[j] = jobs[j]
                          \/ ~Absent(j) /\ jobs'[j] = Disposed(jobs[j], "deleted")
    <3>1. CASE DeletePrinter(p)
      BY <3>1 DEF DeletePrinter, RowsOn, Exists, Absent
    <3>2. CASE UNCHANGED jobs
      BY <1>0, <3>2
    <3> QED BY <2>1, <3>1, <3>2 DEF ArchivePrinter, UnarchivePrinter
  <2>7. \A j \in Job : SameAttempt(jobs[j], Disposed(jobs[j], "deleted"))
    BY <1>0, RowWrites DEF Status
  <2>8. jobs' \in [Job -> JobRow] /\ RowsKeep
    BY <1>0, <2>6, <2>7 DEF RowsKeep, SameAttempt
  <2>9. TableInv'
    BY <2>2, <2>5, <2>8, TableKeeps DEF TableInv, TableTypeOK
  <2> QED
    BY <2>2, <2>4, <2>8, <2>9, ReconKeeps, AdminStays, BackendStays DEF RestInv
<1>3. CASE ClearSpool
  <2>1. /\ UNCHANGED <<tableVars, printed, patches, admin, recon>>
        /\ cups' \in [CupsJob -> CupsState]
        /\ BackendInv'
    BY <1>3, IdleIsIdle DEF ClearSpool, apiVars, RestInv, CupsState, BackendInv, Busy
  <2>2. bounds' \in [restarts: 0..MaxRestarts, kills: 0..MaxKills,
                      clears: 0..MaxClears, crashes: 0..MaxCrashes]
    BY <1>3, JobDeliveryAssumption DEF ClearSpool, RestInv
  <2> QED
    BY <2>1, <2>2, TableStays, ReconKeeps, AdminStays DEF RestInv
<1>4. CASE ApiDies
  <2>1. /\ UNCHANGED tableVars /\ UNCHANGED <<cups, backend, printed>>
        /\ patches' = {} /\ recon' = IdleRecon
        /\ admin' = [a \in Admin |-> IdleAdmin]
    BY <1>4 DEF ApiDies, cupsVars
  <2>2. bounds' \in [restarts: 0..MaxRestarts, kills: 0..MaxKills,
                      clears: 0..MaxClears, crashes: 0..MaxCrashes]
    BY <1>4, JobDeliveryAssumption DEF ApiDies, RestInv
  <2>3. AdminInv' /\ ReconInv'
    BY <2>1, IdleIsIdle DEF AdminInv, ReconInv, WinnerIsLater
  <2> QED
    BY <2>1, <2>2, <2>3, TableStays, BackendStays DEF RestInv
<1> QED
  BY <1>1, <1>2, <1>3, <1>4 DEF WorldStep

-----------------------------------------------------------------------------
(* The reconcile sweep.                                                    *)

\* Of finitely many rows there is a last one.
LEMMA LastRow ==
    ASSUME NEW top, RowsEnd(top), NEW S \in SUBSET Job, S # {}
    PROVE  \E k \in S : \A i \in S : i <= k
<1> DEFINE Below == {top - k : k \in S}
<1>1. S \subseteq Nat /\ top \in Nat /\ \A k \in S : k <= top
  BY JobTableAssumption DEF RowsEnd
<1>2. Below \subseteq Nat /\ Below # {}
  <2>1. ASSUME NEW k \in S PROVE top - k \in Nat
    <3>1. k \in Nat /\ k <= top
      BY <1>1
    <3> QED BY <1>1, <3>1
  <2>2. PICK k \in S : TRUE
    OBVIOUS
  <2>3. top - k \in Below
    OBVIOUS
  <2> QED BY <2>1, <2>3
<1>3. PICK x \in Below : \A y \in Below : <<y, x>> \notin OpToRel(<, Nat)
  <2> HIDE DEF Below
  <2> QED BY <1>2, NatLessThanWellFounded, WFMin
<1>4. \A y \in Below : ~(y < x)
  <2> HIDE DEF Below
  <2> QED BY <1>2, <1>3 DEF OpToRel
<1>5. PICK k \in S : x = top - k
  OBVIOUS
<1>6. ASSUME NEW i \in S PROVE i <= k
  <2>1. top - i \in Below
    OBVIOUS
  <2>2. ~(top - i < top - k)
    BY <1>4, <1>5, <2>1
  <2> QED BY <1>1, <2>2
<1> QED
  BY <1>6

\* The sweep takes a row as superseded by a later attempt at its print job.
LEMMA LatestIsLater ==
    ASSUME IInv, NumbersDiffer, NEW top, RowsEnd(top), NEW j \in Job, Exists(j)
    PROVE  Latest(j) \in Job /\ (Latest(j) # j => LaterAttempt(j, Latest(j)))
<1> DEFINE same == {i \in Job : /\ Exists(i)
                               /\ QueueOf[jobs[i].cups] = QueueOf[jobs[j].cups]
                               /\ NumberOf(i) = NumberOf(j)}
<1>1. j \in same /\ same \in SUBSET Job
  OBVIOUS
<1>2. \E k \in same : \A i \in same : i <= k
  <2> HIDE DEF same
  <2> QED BY <1>1, LastRow
<1>3. Latest(j) \in same /\ \A i \in same : i <= Latest(j)
  <2>1. \E k \in Job : k \in same /\ \A i \in same : i <= k
    <3> HIDE DEF same
    <3> QED BY <1>1, <1>2
  <2>2. Latest(j) = CHOOSE k \in Job : k \in same /\ \A i \in same : i <= k
    BY DEF Latest
  <2> HIDE DEF same
  <2> QED BY <2>1, <2>2
<1>4. ~Absent(j) /\ ~Absent(Latest(j))
  BY <1>3 DEF Exists, Absent
<1>5. jobs[j].cups = jobs[Latest(j)].cups
  <2>1. jobs[j].cups \in CupsJob /\ jobs[Latest(j)].cups \in CupsJob
    BY <1>3, <1>4 DEF IInv, TableInv, RowHasJob
  <2> QED
    BY <1>3, <2>1 DEF NumbersDiffer, NumberOf
<1>6. Latest(j) \in Job /\ j <= Latest(j)
  BY <1>1, <1>3
<1> HIDE DEF same
<1>7. Latest(j) # j => j < Latest(j)
  <2>1. ASSUME NEW k \in Job, j <= k, k # j PROVE j < k
    <3>1. j \in Nat /\ k \in Nat
      BY JobTableAssumption
    <3> QED BY <2>1, <3>1
  <2> QED BY <1>6, <2>1
<1> QED
  BY <1>4, <1>5, <1>6, <1>7 DEF LaterAttempt

LEMMA AskedKeeps ==
    ASSUME ReconInv, NEW j \in Job, NEW verdict \in Status, Asked(j, verdict), UNCHANGED jobs
    PROVE  ReconInv'
<1>1. /\ recon'.todo \in SUBSET Job /\ recon'.winner = recon.winner
      /\ recon'.verdict \in [Job -> Status]
  BY DEF ReconInv, Recon, Asked
<1>2. recon' \in Recon
  BY <1>1 DEF ReconInv, Recon, Asked
<1> QED
  BY <1>1, <1>2 DEF ReconInv, WinnerIsLater, LaterAttempt, Absent

LEMMA CommitKeeps == ASSUME IInv, CommitReconcile PROVE TableInv' /\ ReconInv'
<1> USE DEF IInv
<1>0. jobs \in [Job -> JobRow] /\ recon \in Recon
  BY DEF TableInv, TableTypeOK, ReconInv
<1>1. /\ UNCHANGED <<spool, fleet, online>> /\ recon' = IdleRecon
  BY DEF CommitReconcile
<1>2. ReconInv'
  BY <1>1, IdleIsIdle DEF ReconInv, WinnerIsLater
<1>3. CASE jobs' = jobs
  BY <1>1, <1>2, <1>3, TableStays DEF tableVars
<1>4. CASE jobs' # jobs
  <2> DEFINE Marked(j) == recon.verdict[j] # "absent" /\ recon.winner[j] # NoJob
  <2>1. /\ jobs' = [j \in Job |-> jobs'[j]]
        /\ \A j \in Job :
             IF recon.verdict[j] = "absent" THEN jobs'[j] = jobs[j]
             ELSE /\ ~Absent(j)
                  /\ jobs'[j] = IF recon.winner[j] # NoJob
                                THEN Supersede(jobs[j], recon.winner[j])
                                ELSE Closed(jobs[j], recon.verdict[j])
    BY <1>4 DEF CommitReconcile, Exists, Absent
  <2>2. \A j \in Job : recon.verdict[j] \in Status /\ recon.winner[j] \in Job \cup {NoJob}
    BY <1>0 DEF Recon
  <2>3. ASSUME NEW j \in Job, Marked(j)
        PROVE  /\ jobs'[j] \in JobRow /\ ~Absent(j)' /\ ~Absent(j)
               /\ jobs'[j].cups = jobs[j].cups
               /\ jobs'[j].superseded = recon.winner[j]
    BY <1>0, <2>1, <2>2, <2>3, SupersedeWrites DEF Absent
  <2>4. ASSUME NEW j \in Job, ~Marked(j)
        PROVE  jobs'[j] = jobs[j] \/ (~Absent(j) /\ SameAttempt(jobs[j], jobs'[j]))
    <3>1. CASE recon.verdict[j] = "absent"
      BY <2>1, <3>1
    <3>2. CASE recon.verdict[j] # "absent"
      <4>1. ~Absent(j) /\ jobs'[j] = Closed(jobs[j], recon.verdict[j])
        BY <2>1, <2>4, <3>2
      <4>2. recon.verdict[j] \in Status \ {"absent"}
        BY <2>2, <3>2
      <4> QED BY <1>0, <4>1, <4>2, RowWrites
    <3> QED BY <3>1, <3>2
  <2> HIDE DEF Marked
  <2>5. ASSUME NEW j \in Job
        PROVE  /\ jobs'[j] \in JobRow
               /\ Absent(j)' <=> Absent(j)
               /\ jobs'[j].cups = jobs[j].cups
               /\ Absent(j) => jobs'[j] = jobs[j]
    BY <1>0, <2>3, <2>4 DEF SameAttempt, Absent
  <2>6. TableTypeOK'
    BY <1>1, <2>1, <2>5 DEF TableInv, TableTypeOK
  <2>7. RowHasJob'
    <3>1. ASSUME NEW k \in Job
          PROVE  /\ Absent(k)' => jobs'[k] = NoRow
                 /\ ~Absent(k)' => jobs'[k].cups \in CupsJob
      BY <2>5 DEF TableInv, RowHasJob
    <3> QED BY <3>1 DEF RowHasJob
  <2>8. InOrder'
    BY <2>5 DEF TableInv, InOrder
  <2>9. ASSUME NEW j \in Job, NEW k, LaterAttempt(j, k) PROVE LaterAttempt(j, k)'
    <3>1. k \in Job
      BY <2>9 DEF LaterAttempt
    <3> QED BY <2>5, <2>9, <3>1 DEF LaterAttempt
  <2>10. Trail'
    <3>1. ASSUME NEW j \in Job, NEW k, k = jobs'[j].superseded, k # NoJob
          PROVE  LaterAttempt(j, k)'
      <4>1. CASE Marked(j)
        <5>1. k = recon.winner[j]
          BY <2>3, <3>1, <4>1
        <5> QED BY <2>9, <3>1, <5>1 DEF ReconInv, WinnerIsLater
      <4>2. CASE ~Marked(j)
        <5>1. k = jobs[j].superseded
          BY <2>4, <3>1, <4>2 DEF SameAttempt
        <5> QED BY <2>9, <3>1, <5>1 DEF TableInv, Trail
      <4> QED BY <4>1, <4>2
    <3> QED BY <3>1 DEF Trail, LaterAttempt, Absent
  <2> QED
    BY <1>2, <2>6, <2>7, <2>8, <2>10 DEF TableInv
<1> QED
  BY <1>3, <1>4

LEMMA ReconcileKeeps ==
    ASSUME NumbersDiffer, NEW top, RowsEnd(top) PROVE IInv /\ ReconcileStep => IInv'
<1> SUFFICES ASSUME IInv, ReconcileStep PROVE IInv'
  OBVIOUS
<1> USE DEF IInv
<1>1. UNCHANGED <<cupsVars, patches, admin, bounds>>
  BY DEF ReconcileStep, StartReconcile, LookUp, LookUpUnanswered, CommitReconcile
<1>2. BackendInv' /\ AdminInv' /\ RestInv'
  BY <1>1, BackendStays, AdminStays, RestStays DEF cupsVars
<1>3. CASE StartReconcile
  <2> DEFINE stuck == {j \in Job : jobs[j].status = "forwarding" /\ jobs[j].age > 0}
             old == {j \in stuck : Latest(j) # j}
  <2>1. UNCHANGED tableVars
    BY <1>3 DEF StartReconcile
  <2>2. recon' = [todo |-> stuck \ old,
                  verdict |-> [j \in Job |-> IF j \in old THEN "cancelled" ELSE "absent"],
                  winner |-> [j \in Job |-> IF j \in old THEN Latest(j) ELSE NoJob]]
    BY <1>3 DEF StartReconcile
  <2>3. stuck \subseteq Job /\ \A j \in old : j \in Job /\ Exists(j) /\ Latest(j) # j
    BY DEF Exists
  <2> HIDE DEF stuck, old
  <2>4. \A j \in old : Latest(j) \in Job /\ LaterAttempt(j, Latest(j))
    BY <2>3, LatestIsLater
  <2>5. recon' \in Recon
    <3>1. [j \in Job |-> IF j \in old THEN "cancelled" ELSE "absent"] \in [Job -> Status]
      BY DEF Status
    <3>2. [j \in Job |-> IF j \in old THEN Latest(j) ELSE NoJob] \in [Job -> Job \cup {NoJob}]
      BY <2>4
    <3> QED BY <2>2, <2>3, <3>1, <3>2 DEF Recon
  <2>6. ASSUME NEW j \in Job, NEW k, k = recon'.winner[j], k # NoJob PROVE LaterAttempt(j, k)'
    <3>1. k = Latest(j) /\ j \in old
      BY <2>2, <2>6
    <3>2. LaterAttempt(j, k)
      BY <2>4, <3>1
    <3> QED BY <2>1, <3>2, TableStays, LaterKeeps
  <2>7. ReconInv'
    BY <2>5, <2>6 DEF ReconInv, WinnerIsLater, LaterAttempt, Absent
  <2> QED
    BY <1>2, <2>1, <2>7, TableStays
<1>4. CASE \E j \in Job : LookUp(j) \/ LookUpUnanswered(j)
  <2>1. PICK j \in Job : LookUp(j) \/ LookUpUnanswered(j)
    BY <1>4
  <2>2. \E verdict \in Status : Asked(j, verdict)
    BY <2>1 DEF LookUp, LookUpUnanswered, Resolution, Status
  <2>3. UNCHANGED tableVars
    BY <2>1 DEF LookUp, LookUpUnanswered
  <2> QED
    BY <1>2, <2>2, <2>3, TableStays, AskedKeeps DEF tableVars
<1>5. CASE CommitReconcile
  BY <1>2, <1>5, CommitKeeps
<1> QED
  BY <1>3, <1>4, <1>5 DEF ReconcileStep

-----------------------------------------------------------------------------
\* Every variable of JobDelivery keeps its type, and with it everything the
\* handlers rely on between their steps (create_job, update_job,
\* reconcile_stuck_jobs).
THEOREM InvariantHolds ==
    ASSUME NumbersDiffer, NEW CONSTANT top, RowsEnd(top) PROVE Spec => []IInv
<1>1. Init => IInv
  BY InitHolds
<1>2. IInv /\ [Next]_vars => IInv'
  <2> SUFFICES ASSUME IInv, [Next]_vars PROVE IInv'
    OBVIOUS
  <2>1. CASE Next
    BY <2>1, CupsKeeps, BackendKeeps, ReportKeeps, AdminKeeps, ReconcileKeeps, WorldKeeps
       DEF Next, DeliveryStep
  <2>2. CASE UNCHANGED vars
    BY <2>2, TableStays, ReconKeeps, AdminStays, BackendStays, RestStays
       DEF vars, deliveryVars, cupsVars, apiVars, IInv
  <2> QED BY <2>1, <2>2
<1> QED
  BY <1>1, <1>2, PTL DEF Spec

\* The type invariant of JobDelivery (models/job.py, backends/printops).
THEOREM TypeCorrect ==
    ASSUME NumbersDiffer, NEW CONSTANT top, RowsEnd(top) PROVE Spec => []TypeOK
<1>1. IInv => TypeOK
  BY DEF IInv, TableInv, BackendInv, AdminInv, ReconInv, RestInv, TypeOK
<1> QED
  BY <1>1, InvariantHolds, PTL

\* A row that is marked superseded, by create_job or by the sweep, points to a
\* later attempt at the same print job, so the trail of a job has an end
\* (_supersede_earlier_attempts, reconcile_stuck_jobs).
THEOREM TrailHolds ==
    ASSUME NumbersDiffer, NEW CONSTANT top, RowsEnd(top) PROVE Spec => []TrailLeadsOn
<1>1. IInv => TrailLeadsOn
  BY DEF IInv, TableInv, Trail, LaterAttempt, TrailLeadsOn
<1> QED
  BY <1>1, InvariantHolds, PTL

-----------------------------------------------------------------------------
(***************************************************************************)
(* What the counts rest on.  Every row of a print job but the last is      *)
(* accounted for: its document went to the printer, or the row is gone or  *)
(* superseded, or it is kept, held or cancelled while held, for somebody   *)
(* to decide.  No later report fails such a row, and the row that is left  *)
(* cannot be closed by the sweep while its backend is at work.             *)
(***************************************************************************)

\* Rows the sweep has in hand.
Considered(j) == j \in recon.todo \/ recon.verdict[j] # "absent"

Kept(j) ==
    /\ jobs[j].reason # "none"
    /\ jobs[j].status \in {"held", "cancelled"} /\ ~Considered(j)

Accounted(j) ==
    \/ j \in printed \/ ~Exists(j) \/ jobs[j].superseded # NoJob
    \/ Kept(j)

HeldHasReason == \A j \in Job : jobs[j].status = "held" => jobs[j].reason # "none"

ForwardedIsPrinted ==
    \A j \in Job : jobs[j].status = "forwarded" /\ jobs[j].superseded = NoJob => j \in printed

EarlierAccounted == \A j \in Job, k \in Job : LaterAttempt(j, k) => Accounted(j)

RowInv == HeldHasReason /\ ForwardedIsPrinted /\ EarlierAccounted

\* j is the last row of print job c.
LastAttempt(c, j) ==
    /\ j \in Job /\ ~Absent(j) /\ jobs[j].cups = c
    /\ \A k \in Job : ~Absent(k) /\ jobs[k].cups = c => k <= j

\* A backend works on the last row of its print job, and an exit code of 0
\* says that the row needs nothing more.
RowOfBackend ==
    \A c \in CupsJob :
        /\ backend[c].pc \in {"none", "create"} => backend[c].job = NoJob
        /\ backend[c].job # NoJob => LastAttempt(c, backend[c].job)
        /\ backend[c].pc \in {"spool", "hold"} => jobs[backend[c].job].reason # "none"
        /\ backend[c].pc \in {"deliver", "done", "report", "dying"} =>
               jobs[backend[c].job].reason = "none"
        /\ backend[c].pc \in {"done", "report"} /\ backend[c].ok => backend[c].job \in printed
        /\ backend[c].pc = "exit" /\ backend[c].ok =>
               backend[c].job # NoJob /\ Accounted(backend[c].job)

\* A report that is on its way says what was so when it was sent.
ReportsFit ==
    \A m \in patches :
        /\ ~Absent(m.job)
        /\ (m.status = "held") <=> (jobs[m.job].reason # "none")
        /\ m.status = "forwarded" => m.job \in printed

\* Nobody is about to report that j is held.
Unheld(j) ==
    /\ \A m \in patches : m.job = j => m.status # "held"
    /\ \A c \in CupsJob : backend[c].job = j => backend[c].pc \notin {"spool", "hold"}

\* A row the sweep may take up is not one that is still to be held.
AgedIsUnheld ==
    \A j \in Job :
        /\ Considered(j) => ~Absent(j) /\ jobs[j].status # "held"
        /\ Considered(j) \/ (jobs[j].status = "forwarding" /\ jobs[j].age > 0) => Unheld(j)

CupsKnows ==
    \A c \in CupsJob :
        /\ cups[c] = "unsent" =>
               ~Running(c) /\ \A j \in Job : ~Absent(j) => jobs[j].cups # c
        /\ cups[c] = "completed" =>
               ~Running(c) /\ \A j \in Job : ~Absent(j) /\ jobs[j].cups = c => Accounted(j)

\* What cupsd told the sweep is not out of date when the sweep commits.
VerdictStands ==
    \A j \in Job :
        recon.verdict[j] # "absent" =>
            /\ recon.verdict[j] \in {"forwarded", "failed", "cancelled"}
            /\ recon.winner[j] = NoJob => cups[jobs[j].cups] \notin InFlight
            /\ recon.verdict[j] = "forwarded" => Accounted(j)

AccountInv ==
    RowInv /\ RowOfBackend /\ ReportsFit /\ AgedIsUnheld /\ CupsKnows /\ VerdictStands

LEMMA NothingToAccount == Init => AccountInv
<1> SUFFICES ASSUME Init PROVE AccountInv
  OBVIOUS
<1> USE DEF Init, TableInit, DeliveryInit
<1>1. \A j \in Job : Absent(j) /\ jobs[j].status = "absent" /\ ~Considered(j)
  BY DEF NoRow, Absent, IdleRecon, Considered
<1>2. RowInv
  BY <1>1 DEF RowInv, HeldHasReason, ForwardedIsPrinted, EarlierAccounted, LaterAttempt
<1>3. RowOfBackend
  BY DEF RowOfBackend, NoBackend
<1>4. ReportsFit /\ AgedIsUnheld /\ CupsKnows /\ VerdictStands
  BY <1>1 DEF ReportsFit, AgedIsUnheld, CupsKnows, VerdictStands, Running, NoBackend,
              Considered
<1> QED
  BY <1>2, <1>3, <1>4 DEF AccountInv

-----------------------------------------------------------------------------
(* What a step can do to each variable, whichever handler takes it.        *)

\* k is created, by the backend of its print job.
NewRow(k) ==
    /\ Absent(k) /\ jobs'[k].status = "forwarding"
    /\ jobs'[k].age = 0 /\ jobs'[k].superseded = NoJob
    /\ jobs'[k].cups \in CupsJob /\ backend[jobs'[k].cups].pc = "create"
    /\ \A i \in Job \ {k} :
          ~Absent(i)' =>
            /\ i < k
            /\ jobs'[i].cups = jobs'[k].cups =>
                  \/ jobs'[i].superseded # NoJob
                  \/ /\ jobs'[i] = jobs[i]
                     /\ jobs[i].status \in {"forwarded", "held", "deleted"}

RowWritten(k) ==
    \/ jobs'[k].superseded # NoJob /\ jobs'[k].status = "cancelled"
    \/ /\ jobs'[k].superseded = jobs[k].superseded
       /\ \/ jobs'[k].status \in {"cancelled", "deleted"}
          \/ jobs'[k].status = "forwarding" /\ jobs[k].status = "forwarding" /\ Unheld(k)
          \/ \E m \in patches : m.job = k /\ jobs'[k].status = m.status
          \/ /\ recon.verdict[k] # "absent" /\ recon.winner[k] = NoJob
             /\ jobs'[k].status = recon.verdict[k]
             /\ \A i \in Job : ~Considered(i)'

RowGoes(k) ==
    \/ jobs'[k] = jobs[k]
    \/ /\ Exists(k) /\ RowWritten(k)
       /\ jobs'[k].cups = jobs[k].cups /\ jobs'[k].reason = jobs[k].reason

RowsGo == \A k \in Job : RowGoes(k) \/ NewRow(k)

ReconGoes ==
    \A j \in Job :
        /\ Considered(j)' =>
              Considered(j) \/ (jobs[j].status = "forwarding" /\ jobs[j].age > 0)
        /\ recon'.verdict[j] # "absent" =>
              \/ recon'.verdict[j] = recon.verdict[j] /\ recon'.winner[j] = recon.winner[j]
              \/ recon'.verdict[j] = "cancelled" /\ recon'.winner[j] # NoJob
              \/ /\ j \in recon.todo
                 /\ recon'.verdict[j] \in {"forwarded", "failed", "cancelled"}
                 /\ cups[jobs[j].cups] \notin InFlight
                 /\ recon'.verdict[j] = "forwarded" => cups[jobs[j].cups] = "completed"

CupsGoes ==
    \A c \in CupsJob :
        /\ cups'[c] \in InFlight => cups[c] \in InFlight \cup {"unsent"}
        /\ cups'[c] = "unsent" => cups[c] = "unsent"
        /\ cups'[c] = "completed" =>
              \/ cups[c] = "completed"
              \/ backend[c].pc = "exit" /\ backend[c].ok /\ backend'[c] = NoBackend

PatchesGo ==
    \A m \in patches' :
        \/ m \in patches
        \/ \E c \in CupsJob :
              /\ backend[c].pc \in Busy /\ m.job = backend[c].job
              /\ \/ backend[c].pc = "spool" /\ m.status = "held"
                 \/ /\ backend[c].pc \in {"deliver", "done", "report"}
                    /\ m.status \in {"failed", "cancelled"}
                 \/ backend[c].pc = "done" /\ backend[c].ok /\ m.status = "forwarded"

\* A backend that has, or has not, a row goes on.
BackendMoved(c) ==
    \/ /\ backend'[c].pc = "exit"
       /\ backend'[c].ok => backend[c].job # NoJob /\ Accounted(backend[c].job)'
    \/ backend[c].pc = "spool" /\ backend'[c].pc = "hold"
    \/ /\ backend[c].pc = "deliver" /\ backend'[c].pc = "done"
       /\ backend'[c].ok => backend[c].job \in printed'
    \/ backend[c].pc = "done" /\ backend'[c].pc = "report" /\ backend'[c].ok = backend[c].ok
    \/ backend[c].pc \in {"deliver", "done", "report"} /\ backend'[c].pc = "dying"

BackendGoes(c) ==
    \/ backend'[c] = backend[c]
    \/ backend'[c] = NoBackend
    \/ /\ backend[c].pc = "none" /\ cups[c] = "pending"
       /\ backend'[c].pc = "create" /\ backend'[c].job = backend[c].job
    \/ /\ backend[c].pc = "create" /\ backend'[c].job \in Job
       /\ NewRow(backend'[c].job) /\ jobs'[backend'[c].job].cups = c
       /\ backend'[c].pc = IF jobs'[backend'[c].job].reason = "none" THEN "deliver"
                                                                     ELSE "spool"
    \/ backend[c].pc # "none" /\ backend'[c].job = backend[c].job /\ BackendMoved(c)

BackendsGo == \A c \in CupsJob : BackendGoes(c)

StepGoes ==
    RowsGo /\ ReconGoes /\ CupsGoes /\ PatchesGo /\ BackendsGo /\ printed \subseteq printed'

-----------------------------------------------------------------------------
(* Such a step keeps the accounts.                                         *)

LEMMA SameRow ==
    ASSUME NEW k \in Job, RowGoes(k) \/ NewRow(k), ~Absent(k)
    PROVE  /\ RowGoes(k) /\ jobs'[k].cups = jobs[k].cups /\ jobs'[k].reason = jobs[k].reason
  BY DEF RowGoes, NewRow

\* Once accounted for, always accounted for.
LEMMA StaysAccounted ==
    ASSUME StepGoes, ReportsFit, NEW k \in Job, ~Absent(k), Accounted(k)
    PROVE  Accounted(k)'
<1>1. RowGoes(k) /\ jobs'[k].reason = jobs[k].reason
  BY SameRow DEF StepGoes, RowsGo
<1>2. printed \subseteq printed'
  BY DEF StepGoes
<1>3. Considered(k)' => Considered(k) \/ jobs[k].status = "forwarding"
  BY DEF StepGoes, ReconGoes
<1>4. CASE k \in printed
  BY <1>2, <1>4 DEF Accounted
<1>5. CASE ~Exists(k)
  BY <1>1, <1>5 DEF Accounted, RowGoes, Exists
<1>6. CASE jobs[k].superseded # NoJob
  BY <1>1, <1>6 DEF Accounted, RowGoes, RowWritten
<1>7. CASE Kept(k)
  <2>1. CASE jobs'[k] = jobs[k]
    BY <1>3, <1>7, <2>1 DEF Kept, Accounted
  <2>2. CASE jobs'[k] # jobs[k] /\ jobs'[k].superseded = jobs[k].superseded
    <3>1. \/ jobs'[k].status \in {"cancelled", "deleted"}
          \/ \E m \in patches : m.job = k /\ jobs'[k].status = m.status
      BY <1>1, <1>7, <2>2 DEF RowGoes, RowWritten, Kept, Considered
    <3>2. jobs'[k].status \in {"cancelled", "deleted", "held"}
      BY <1>7, <3>1 DEF ReportsFit, Kept
    <3> QED
      BY <1>1, <1>3, <1>7, <3>2 DEF Accounted, Kept, Exists
  <2>3. CASE jobs'[k] # jobs[k] /\ jobs'[k].superseded # jobs[k].superseded
    BY <1>1, <2>3 DEF RowGoes, RowWritten, Accounted
  <2> QED
    BY <2>1, <2>2, <2>3
<1> QED
  BY <1>4, <1>5, <1>6, <1>7 DEF Accounted

LEMMA NoneVanishes ==
    ASSUME StepGoes, ReportsFit, VerdictStands, IInv, NEW k \in Job
    PROVE  /\ ~Absent(k) => ~Absent(k)'
           /\ Absent(k) /\ ~Absent(k)' => NewRow(k)
<1>1. ASSUME ~Absent(k) PROVE ~Absent(k)'
  <2>1. RowGoes(k)
    BY <1>1, SameRow DEF StepGoes, RowsGo
  <2>2. \A m \in patches : m.status # "absent"
    BY DEF IInv, RestInv, Patch
  <2> QED
    BY <1>1, <2>1, <2>2 DEF RowGoes, RowWritten, Absent
<1>2. ASSUME Absent(k), ~Absent(k)' PROVE NewRow(k)
  BY <1>2 DEF StepGoes, RowsGo, RowGoes, Exists, Absent
<1> QED
  BY <1>1, <1>2

LEMMA RowInvKeeps == ASSUME IInv, AccountInv, StepGoes, IInv' PROVE RowInv'
<1> USE DEF AccountInv, RowInv
<1>1. HeldHasReason'
  <2> SUFFICES ASSUME NEW j \in Job, jobs'[j].status = "held" PROVE jobs'[j].reason # "none"
    BY DEF HeldHasReason
  <2>1. RowGoes(j)
    BY DEF StepGoes, RowsGo, NewRow
  <2>2. CASE jobs'[j] = jobs[j]
    BY <2>2 DEF HeldHasReason
  <2>3. CASE jobs'[j] # jobs[j]
    <3>1. jobs'[j].reason = jobs[j].reason /\ \E m \in patches : m.job = j /\ m.status = "held"
      BY <2>1, <2>3 DEF RowGoes, RowWritten, VerdictStands
    <3> QED BY <3>1 DEF ReportsFit
  <2> QED BY <2>2, <2>3
<1>2. ForwardedIsPrinted'
  <2> SUFFICES ASSUME NEW j \in Job, jobs'[j].status = "forwarded", jobs'[j].superseded = NoJob
               PROVE  j \in printed'
    BY DEF ForwardedIsPrinted
  <2>0. printed \subseteq printed'
    BY DEF StepGoes
  <2>1. RowGoes(j)
    BY DEF StepGoes, RowsGo, NewRow
  <2>2. CASE jobs'[j] = jobs[j]
    BY <2>0, <2>2 DEF ForwardedIsPrinted
  <2>3. CASE jobs'[j] # jobs[j]
    <3>1. Exists(j) /\ jobs[j].superseded = NoJob
      BY <2>1, <2>3 DEF RowGoes, RowWritten
    <3>2. \/ \E m \in patches : m.job = j /\ m.status = "forwarded"
          \/ recon.verdict[j] = "forwarded"
      BY <2>1, <2>3 DEF RowGoes, RowWritten
    <3>3. j \in printed
      BY <3>1, <3>2 DEF ReportsFit, VerdictStands, Accounted, Kept, Considered
    <3> QED BY <2>0, <3>3
  <2> QED BY <2>2, <2>3
<1>3. EarlierAccounted'
  <2> SUFFICES ASSUME NEW j \in Job, NEW k \in Job, LaterAttempt(j, k)' PROVE Accounted(j)'
    BY DEF EarlierAccounted
  <2>0. j < k /\ ~Absent(j)' /\ ~Absent(k)' /\ jobs'[j].cups = jobs'[k].cups
    BY DEF LaterAttempt
  <2>1. CASE ~Absent(j) /\ ~Absent(k)
    <3>1. LaterAttempt(j, k)
      BY <2>0, <2>1, SameRow DEF LaterAttempt, StepGoes, RowsGo
    <3> QED BY <2>1, <3>1, StaysAccounted DEF EarlierAccounted
  <2>2. CASE Absent(j)
    <3>1. NewRow(j)
      BY <2>0, <2>2, NoneVanishes
    <3>2. k < j
      BY <2>0, <3>1, JobTableAssumption DEF NewRow
    <3> QED BY <2>0, <3>2, JobTableAssumption
  <2>3. CASE ~Absent(j) /\ Absent(k)
    <3>1. NewRow(k)
      BY <2>0, <2>3, NoneVanishes
    <3>2. CASE jobs'[j].superseded # NoJob
      BY <3>2 DEF Accounted
    <3>3. CASE jobs'[j] = jobs[j] /\ jobs[j].status \in {"forwarded", "held", "deleted"}
      <4>1. Accounted(j)
        BY <3>3 DEF Accounted, ForwardedIsPrinted, HeldHasReason, Exists, Kept, AgedIsUnheld
      <4> QED BY <2>3, <4>1, StaysAccounted
    <3>4. j # k
      BY <2>3
    <3> QED BY <2>0, <3>1, <3>2, <3>3, <3>4 DEF NewRow
  <2> QED BY <2>1, <2>2, <2>3
<1> QED
  BY <1>1, <1>2, <1>3

LEMMA LastStaysLast ==
    ASSUME StepGoes, ReportsFit, VerdictStands, IInv, NEW c \in CupsJob, NEW j, LastAttempt(c, j),
           backend[c].pc # "create"
    PROVE  LastAttempt(c, j)'
<1>1. j \in Job /\ ~Absent(j)' /\ jobs'[j].cups = c
  BY NoneVanishes, SameRow DEF LastAttempt, StepGoes, RowsGo
<1>2. ASSUME NEW k \in Job, ~Absent(k)', jobs'[k].cups = c PROVE k <= j
  <2>1. ~Absent(k)
    BY <1>2, NoneVanishes DEF NewRow
  <2>2. jobs[k].cups = c
    BY <1>2, <2>1, SameRow DEF StepGoes, RowsGo
  <2> QED BY <2>1, <2>2 DEF LastAttempt
<1> QED
  BY <1>1, <1>2 DEF LastAttempt

LEMMA BackendRowKeeps ==
    ASSUME IInv, AccountInv, StepGoes, IInv' PROVE RowOfBackend'
<1> USE DEF AccountInv
<1> DEFINE Fits(c) ==
        /\ backend[c].pc \in {"none", "create"} => backend[c].job = NoJob
        /\ backend[c].job # NoJob => LastAttempt(c, backend[c].job)
        /\ backend[c].pc \in {"spool", "hold"} => jobs[backend[c].job].reason # "none"
        /\ backend[c].pc \in {"deliver", "done", "report", "dying"} =>
               jobs[backend[c].job].reason = "none"
        /\ backend[c].pc \in {"done", "report"} /\ backend[c].ok => backend[c].job \in printed
        /\ backend[c].pc = "exit" /\ backend[c].ok =>
               backend[c].job # NoJob /\ Accounted(backend[c].job)
<1> SUFFICES ASSUME NEW c \in CupsJob PROVE Fits(c)'
  BY DEF RowOfBackend
<1>1. Fits(c) /\ BackendGoes(c) /\ printed \subseteq printed'
  BY DEF RowOfBackend, StepGoes, BackendsGo
<1>2. backend[c].pc \in Busy => backend[c].job \in Job
  BY DEF IInv, BackendInv
<1>3. ASSUME NEW j, j = backend[c].job, j # NoJob, backend[c].pc # "create"
      PROVE  /\ j \in Job /\ LastAttempt(c, j)'
             /\ jobs'[j].reason = jobs[j].reason
             /\ Accounted(j) => Accounted(j)'
  <2>1. LastAttempt(c, j)
    BY <1>1, <1>3
  <2>2. j \in Job /\ ~Absent(j)
    BY <2>1 DEF LastAttempt
  <2>3. jobs'[j].reason = jobs[j].reason
    BY <2>2, SameRow DEF StepGoes, RowsGo
  <2>4. LastAttempt(c, j)'
    BY <1>3, <2>1, LastStaysLast
  <2> QED
    BY <2>2, <2>3, <2>4, StaysAccounted
<1>4. CASE backend'[c] = backend[c]
  <2>1. CASE backend[c].job # NoJob
    <3>1. backend[c].pc # "create"
      BY <1>1, <2>1
    <3> QED
      BY <1>1, <1>3, <1>4, <2>1, <3>1
  <2>2. CASE backend[c].job = NoJob
    <3>1. NoJob \notin Job
      BY JobTableAssumption
    <3>2. backend[c].pc \notin Busy
      BY <1>2, <2>2, <3>1
    <3> QED
      BY <1>1, <1>4, <2>2, <3>2 DEF Busy
  <2> QED
    BY <2>1, <2>2
<1>5. CASE backend'[c] = NoBackend
  BY <1>5 DEF NoBackend
<1>6. CASE backend[c].pc = "none" /\ backend'[c].pc = "create" /\ backend'[c].job = backend[c].job
  BY <1>1, <1>6
<1>7. CASE /\ backend[c].pc = "create" /\ backend'[c].job \in Job
           /\ NewRow(backend'[c].job) /\ jobs'[backend'[c].job].cups = c
           /\ backend'[c].pc = IF jobs'[backend'[c].job].reason = "none" THEN "deliver"
                                                                         ELSE "spool"
  <2> DEFINE j == backend'[c].job
  <2>1. j \in Job /\ NewRow(j) /\ jobs'[j].cups = c
    BY <1>7
  <2> HIDE DEF j
  <2>2. jobs'[j].status # "absent"
    BY <2>1 DEF NewRow
  <2>3. ASSUME NEW k \in Job, jobs'[k].status # "absent" PROVE k <= j
    <3>1. k = j \/ k < j
      BY <2>1, <2>3 DEF NewRow, Absent
    <3> QED BY <2>1, <3>1, JobTableAssumption
  <2>4. backend'[c].job = j
    BY DEF j
  <2>5. LastAttempt(c, backend[c].job)'
    BY <2>1, <2>2, <2>3, <2>4 DEF LastAttempt, Absent
  <2> QED
    BY <1>7, <2>5
<1>8. CASE backend[c].pc # "none" /\ backend'[c].job = backend[c].job /\ BackendMoved(c)
  <2>1. backend'[c].pc \notin {"none", "create"}
    BY <1>8 DEF BackendMoved
  <2>2. ASSUME backend[c].job # NoJob PROVE LastAttempt(c, backend[c].job)'
    <3>1. backend[c].pc # "create"
      BY <1>1, <2>2
    <3> QED BY <1>3, <1>8, <2>2, <3>1
  <2>3. CASE /\ backend'[c].pc = "exit"
             /\ backend'[c].ok => backend[c].job # NoJob /\ Accounted(backend[c].job)'
    BY <1>8, <2>1, <2>2, <2>3
  <2>4. CASE backend'[c].pc # "exit"
    <3>1. backend[c].pc \in {"spool", "deliver", "done", "report"}
      BY <1>8, <2>4 DEF BackendMoved
    <3>2. backend[c].job \in Job /\ backend[c].job # NoJob
      BY <1>2, <3>1, JobTableAssumption DEF Busy
    <3>3. jobs'[backend'[c].job].reason = jobs[backend[c].job].reason
      BY <1>3, <1>8, <3>1, <3>2
    <3>4. LastAttempt(c, backend[c].job)'
      BY <2>2, <3>2
    <3> QED
      BY <1>1, <1>8, <2>1, <2>4, <3>1, <3>3, <3>4 DEF BackendMoved
  <2> QED
    BY <1>8, <2>3, <2>4 DEF BackendMoved
<1> QED
  BY <1>1, <1>4, <1>5, <1>6, <1>7, <1>8 DEF BackendGoes

LEMMA ReportsKeep == ASSUME IInv, AccountInv, StepGoes PROVE ReportsFit'
<1> USE DEF AccountInv
<1> SUFFICES ASSUME NEW m \in patches'
             PROVE  /\ ~Absent(m.job)'
                    /\ (m.status = "held") <=> (jobs'[m.job].reason # "none")
                    /\ m.status = "forwarded" => m.job \in printed'
  BY DEF ReportsFit, Absent
<1>0. printed \subseteq printed'
  BY DEF StepGoes
<1>1. /\ m.job \in Job /\ ~Absent(m.job)
      /\ (m.status = "held") <=> (jobs[m.job].reason # "none")
      /\ m.status = "forwarded" => m.job \in printed
  <2>1. CASE m \in patches
    BY <2>1 DEF ReportsFit, IInv, RestInv, Patch
  <2>2. CASE m \notin patches
    <3>1. PICK c \in CupsJob :
              /\ backend[c].pc \in Busy /\ m.job = backend[c].job
              /\ \/ backend[c].pc = "spool" /\ m.status = "held"
                 \/ /\ backend[c].pc \in {"deliver", "done", "report"}
                    /\ m.status \in {"failed", "cancelled"}
                 \/ backend[c].pc = "done" /\ backend[c].ok /\ m.status = "forwarded"
      BY <2>2 DEF StepGoes, PatchesGo
    <3>2. m.job \in Job /\ m.job # NoJob
      BY <3>1, JobTableAssumption DEF IInv, BackendInv
    <3>3. ~Absent(m.job)
      BY <3>1, <3>2 DEF RowOfBackend, LastAttempt
    <3> QED
      BY <3>1, <3>2, <3>3 DEF RowOfBackend
  <2> QED BY <2>1, <2>2
<1>2. ~Absent(m.job)' /\ jobs'[m.job].reason = jobs[m.job].reason
  BY <1>1, NoneVanishes, SameRow DEF StepGoes, RowsGo
<1> QED
  BY <1>0, <1>1, <1>2

\* No report of a hold comes to be on its way for a row that is there.
LEMMA StaysUnheld ==
    ASSUME StepGoes, NEW j \in Job, ~Absent(j), Unheld(j) PROVE Unheld(j)'
<1>1. ASSUME NEW m \in patches', m.job = j PROVE m.status # "held"
  BY <1>1 DEF StepGoes, PatchesGo, Unheld
<1>2. ASSUME NEW c \in CupsJob, backend'[c].job = j PROVE backend'[c].pc \notin {"spool", "hold"}
  <2>1. CASE backend'[c] = backend[c] \/ backend'[c] = NoBackend
    BY <1>2, <2>1 DEF Unheld, NoBackend
  <2>2. CASE backend[c].pc = "create" /\ NewRow(backend'[c].job)
    BY <1>2, <2>2 DEF NewRow
  <2>3. CASE backend'[c].pc = "create"
    BY <2>3
  <2>4. CASE backend'[c].job = backend[c].job /\ BackendMoved(c)
    BY <1>2, <2>4 DEF Unheld, BackendMoved
  <2> QED
    BY <2>1, <2>2, <2>3, <2>4 DEF StepGoes, BackendsGo, BackendGoes
<1> QED
  BY <1>1, <1>2 DEF Unheld

LEMMA AgedKeeps == ASSUME IInv, AccountInv, StepGoes PROVE AgedIsUnheld'
<1> USE DEF AccountInv
<1> SUFFICES ASSUME NEW j \in Job
             PROVE  /\ Considered(j)' => ~Absent(j)' /\ jobs'[j].status # "held"
                    /\ Considered(j)' \/ (jobs'[j].status = "forwarding" /\ jobs'[j].age > 0)
                       => Unheld(j)'
  BY DEF AgedIsUnheld
<1>1. ASSUME Considered(j)' \/ (jobs'[j].status = "forwarding" /\ jobs'[j].age > 0)
      PROVE  ~Absent(j) /\ Unheld(j)
  <2>1. CASE Considered(j)'
    BY <2>1 DEF StepGoes, ReconGoes, AgedIsUnheld, Absent
  <2>2. CASE jobs'[j].status = "forwarding" /\ jobs'[j].age > 0
    <3>1. RowGoes(j)
      BY <2>2 DEF StepGoes, RowsGo, NewRow
    <3>2. \/ jobs'[j] = jobs[j]
          \/ Exists(j) /\ Unheld(j)
      BY <2>2, <3>1 DEF RowGoes, RowWritten, VerdictStands, IInv, RestInv, Patch
    <3> QED
      BY <2>2, <3>2 DEF AgedIsUnheld, Absent, Exists
  <2> QED BY <1>1, <2>1, <2>2
<1>2. ASSUME Considered(j)' PROVE ~Absent(j)' /\ jobs'[j].status # "held"
  <2>1. ~Absent(j) /\ Unheld(j)
    BY <1>1, <1>2
  <2>2. jobs[j].status # "held"
    BY <1>2 DEF StepGoes, ReconGoes, AgedIsUnheld
  <2>3. RowGoes(j)
    BY <2>1, SameRow DEF StepGoes, RowsGo
  <2>4. jobs'[j].status # "held"
    BY <2>1, <2>2, <2>3 DEF RowGoes, RowWritten, Unheld, VerdictStands
  <2> QED BY <2>1, <2>4, NoneVanishes
<1> QED
  BY <1>1, <1>2, StaysUnheld

LEMMA CupsKnowsKeeps == ASSUME IInv, AccountInv, StepGoes PROVE CupsKnows'
<1> USE DEF AccountInv
<1> SUFFICES ASSUME NEW c \in CupsJob
             PROVE  /\ cups'[c] = "unsent" =>
                          /\ ~Running(c)'
                          /\ \A j \in Job : ~Absent(j)' => jobs'[j].cups # c
                    /\ cups'[c] = "completed" =>
                          /\ ~Running(c)'
                          /\ \A j \in Job : ~Absent(j)' /\ jobs'[j].cups = c => Accounted(j)'
  BY DEF CupsKnows
<1>1. ASSUME backend[c].pc # "create", NEW j \in Job, ~Absent(j)', jobs'[j].cups = c
      PROVE  ~Absent(j) /\ jobs[j].cups = c
  <2>1. ~Absent(j)
    BY <1>1, NoneVanishes DEF NewRow
  <2> QED BY <1>1, <2>1, SameRow DEF StepGoes, RowsGo
<1>2. ASSUME ~Running(c), cups[c] # "pending" PROVE ~Running(c)'
  BY <1>2 DEF Running, StepGoes, BackendsGo, BackendGoes, NoBackend
<1>3. CASE cups'[c] = "unsent"
  <2>1. cups[c] = "unsent"
    BY <1>3 DEF StepGoes, CupsGoes
  <2>2. ~Running(c) /\ \A j \in Job : ~Absent(j) => jobs[j].cups # c
    BY <2>1 DEF CupsKnows
  <2> QED BY <1>1, <1>2, <1>3, <2>1, <2>2 DEF Running
<1>4. CASE cups'[c] = "completed"
  <2>1. ASSUME cups[c] = "completed"
        PROVE  /\ ~Running(c)' /\ backend[c].pc # "create"
               /\ \A j \in Job : ~Absent(j) /\ jobs[j].cups = c => Accounted(j)
    BY <1>2, <2>1 DEF CupsKnows, Running
  <2>2. ASSUME backend[c].pc = "exit", backend[c].ok, backend'[c] = NoBackend
        PROVE  /\ ~Running(c)'
               /\ \A j \in Job : ~Absent(j) /\ jobs[j].cups = c => Accounted(j)
    <3>1. /\ backend[c].job # NoJob /\ Accounted(backend[c].job)
          /\ LastAttempt(c, backend[c].job)
      BY <2>2 DEF RowOfBackend
    <3>2. ASSUME NEW j \in Job, ~Absent(j), jobs[j].cups = c PROVE Accounted(j)
      <4>1. j <= backend[c].job /\ backend[c].job \in Job
        BY <3>1, <3>2 DEF LastAttempt
      <4>2. CASE j = backend[c].job
        BY <3>1, <4>2
      <4>3. CASE j # backend[c].job
        <5>0. ASSUME NEW k \in Job, j <= k, j # k PROVE j < k
          BY <5>0, JobTableAssumption
        <5>1. j < backend[c].job
          BY <4>1, <4>3, <5>0
        <5>2. LaterAttempt(j, backend[c].job)
          BY <3>1, <3>2, <4>1, <5>1 DEF LastAttempt, LaterAttempt
        <5> QED BY <4>1, <5>2 DEF RowInv, EarlierAccounted
      <4> QED BY <4>2, <4>3
    <3> QED BY <2>2, <3>2 DEF Running, NoBackend
  <2>3. /\ ~Running(c)' /\ backend[c].pc # "create"
        /\ \A j \in Job : ~Absent(j) /\ jobs[j].cups = c => Accounted(j)
    BY <1>4, <2>1, <2>2 DEF StepGoes, CupsGoes
  <2>4. ASSUME NEW j \in Job, ~Absent(j)', jobs'[j].cups = c PROVE Accounted(j)'
    BY <1>1, <2>3, <2>4, StaysAccounted
  <2> QED BY <1>4, <2>3, <2>4
<1> QED
  BY <1>3, <1>4

LEMMA VerdictKeeps == ASSUME IInv, AccountInv, StepGoes PROVE VerdictStands'
<1> USE DEF AccountInv
<1> SUFFICES ASSUME NEW j \in Job, recon'.verdict[j] # "absent"
             PROVE  /\ recon'.verdict[j] \in {"forwarded", "failed", "cancelled"}
                    /\ recon'.winner[j] = NoJob => cups'[jobs'[j].cups] \notin InFlight
                    /\ recon'.verdict[j] = "forwarded" => Accounted(j)'
  BY DEF VerdictStands
<1>1. ~Absent(j)
  BY DEF StepGoes, ReconGoes, AgedIsUnheld, Considered, Absent
<1>2. jobs'[j].cups = jobs[j].cups /\ jobs[j].cups \in CupsJob
  BY <1>1, SameRow DEF StepGoes, RowsGo, IInv, TableInv, RowHasJob
<1>3. cups[jobs[j].cups] # "unsent"
  BY <1>1, <1>2 DEF CupsKnows
<1>4. cups[jobs[j].cups] \notin InFlight => cups'[jobs'[j].cups] \notin InFlight
  BY <1>2, <1>3 DEF StepGoes, CupsGoes
<1>5. cups[jobs[j].cups] = "completed" => Accounted(j)
  BY <1>1, <1>2 DEF CupsKnows
<1>6. Accounted(j) => Accounted(j)'
  BY <1>1, StaysAccounted
<1>7. \/ recon'.verdict[j] = recon.verdict[j] /\ recon'.winner[j] = recon.winner[j]
      \/ recon'.verdict[j] = "cancelled" /\ recon'.winner[j] # NoJob
      \/ /\ recon'.verdict[j] \in {"forwarded", "failed", "cancelled"}
         /\ cups[jobs[j].cups] \notin InFlight
         /\ recon'.verdict[j] = "forwarded" => cups[jobs[j].cups] = "completed"
  BY DEF StepGoes, ReconGoes
<1> QED
  BY <1>4, <1>5, <1>6, <1>7 DEF VerdictStands

LEMMA AccountsKeep ==
    ASSUME IInv, IInv', AccountInv, StepGoes PROVE AccountInv'
<1>1. RowInv' /\ RowOfBackend' /\ ReportsFit'
  BY RowInvKeeps, BackendRowKeeps, ReportsKeep
<1>2. AgedIsUnheld' /\ CupsKnows' /\ VerdictStands'
  BY AgedKeeps, CupsKnowsKeeps, VerdictKeeps
<1> QED
  BY <1>1, <1>2 DEF AccountInv

-----------------------------------------------------------------------------
(* Every handler's steps are such steps.                                   *)

LEMMA NothingGoes ==
    /\ UNCHANGED jobs => RowsGo
    /\ UNCHANGED recon \/ recon' = IdleRecon => ReconGoes
    /\ UNCHANGED cups => CupsGoes
    /\ patches' \subseteq patches => PatchesGo
    /\ UNCHANGED backend => BackendsGo
<1>1. UNCHANGED jobs => RowsGo
  BY DEF RowsGo, RowGoes
<1>2. UNCHANGED recon \/ recon' = IdleRecon => ReconGoes
  BY DEF ReconGoes, IdleRecon, Considered
<1>3. UNCHANGED cups => CupsGoes
  BY DEF CupsGoes
<1>4. patches' \subseteq patches => PatchesGo
  BY DEF PatchesGo
<1>5. UNCHANGED backend => BackendsGo
  BY DEF BackendsGo, BackendGoes
<1> QED
  BY <1>1, <1>2, <1>3, <1>4, <1>5

\* One backend goes on, and keeps its row.
LEMMA OneBackendGoes ==
    ASSUME BackendInv, NEW c \in CupsJob, NEW b,
           backend' = [backend EXCEPT ![c] = b], backend[c].pc # "none",
           b.job = backend[c].job, BackendMoved(c)
    PROVE  BackendsGo
  BY DEF BackendsGo, BackendGoes, BackendInv

LEMMA BackendFails ==
    ASSUME BackendInv, NEW c \in CupsJob, backend[c].pc # "none", Exits(c, FALSE)
    PROVE  BackendsGo
<1> DEFINE b == [backend[c] EXCEPT !.pc = "exit", !.ok = FALSE]
<1>1. backend' = [backend EXCEPT ![c] = b]
  BY DEF Exits
<1>2. b.job = backend[c].job /\ b.pc = "exit" /\ b.ok = FALSE
  BY DEF BackendInv, Backend
<1>3. backend'[c] = b
  BY <1>1 DEF BackendInv
<1> HIDE DEF b
<1>4. BackendMoved(c)
  BY <1>2, <1>3 DEF BackendMoved
<1> QED
  BY <1>1, <1>2, <1>4, OneBackendGoes

LEMMA BackendTurns ==
    ASSUME BackendInv, NEW c \in CupsJob, NEW pc, Goes(c, pc),
           \/ backend[c].pc = "spool" /\ pc = "hold"
           \/ backend[c].pc = "done" /\ pc = "report"
           \/ backend[c].pc \in {"deliver", "done", "report"} /\ pc = "dying"
    PROVE  BackendsGo
<1> DEFINE b == [backend[c] EXCEPT !.pc = pc]
<1>1. backend' = [backend EXCEPT ![c] = b]
  BY DEF Goes
<1>2. b.job = backend[c].job /\ b.pc = pc /\ b.ok = backend[c].ok
  BY DEF BackendInv, Backend
<1>3. backend'[c] = b
  BY <1>1 DEF BackendInv
<1> HIDE DEF b
<1>4. BackendMoved(c)
  BY <1>2, <1>3 DEF BackendMoved
<1> QED
  BY <1>1, <1>2, <1>4, OneBackendGoes

LEMMA CupsStepGoes == IInv /\ CupsStep => StepGoes
<1> SUFFICES ASSUME IInv, NEW c \in CupsJob,
                    \/ Submit(c) \/ StartBackend(c) \/ BackendExits(c)
                    \/ CupsRestarts(c) \/ CupsCancels(c) \/ RollOff(c)
             PROVE  StepGoes
  BY DEF CupsStep
<1> USE DEF IInv
<1>1. UNCHANGED jobs /\ UNCHANGED <<printed, patches, recon>>
  BY DEF Submit, StartBackend, BackendExits, CupsRestarts, CupsCancels, RollOff, apiVars,
         tableVars
<1>2. BackendsGo
  <2>1. CASE StartBackend(c)
    BY <2>1 DEF StartBackend, BackendsGo, BackendGoes, BackendInv, Backend, Running
  <2>2. CASE BackendExits(c)
    BY <2>2 DEF BackendExits, BackendsGo, BackendGoes, BackendInv
  <2>3. CASE UNCHANGED backend
    BY <2>3, NothingGoes
  <2> QED
    BY <2>1, <2>2, <2>3 DEF Submit, CupsRestarts, CupsCancels, RollOff
<1>3. CupsGoes
  <2>1. cups \in [CupsJob -> CupsState]
    BY DEF RestInv
  <2>2. CASE BackendExits(c)
    BY <2>1, <2>2 DEF BackendExits, CupsGoes, InFlight, BackendInv
  <2>3. CASE Submit(c) \/ StartBackend(c) \/ CupsRestarts(c) \/ CupsCancels(c) \/ RollOff(c)
    <3>1. \E s \in {"pending", "processing", "restarting", "canceled", "gone"} :
             /\ cups' = [cups EXCEPT ![c] = s]
             /\ s \in InFlight => cups[c] \in InFlight \cup {"unsent"}
      BY <2>3 DEF Submit, StartBackend, CupsRestarts, CupsCancels, RollOff, InFlight
    <3> QED BY <2>1, <3>1 DEF CupsGoes
  <2> QED BY <2>2, <2>3
<1> QED
  BY <1>1, <1>2, <1>3, NothingGoes DEF StepGoes

-----------------------------------------------------------------------------
LEMMA WritesFit ==
    ASSUME NEW row \in JobRow, NEW status \in Status \ {"absent"}
    PROVE  /\ Closed(row, status).status = status /\ Closed(row, status).reason = row.reason
           /\ Disposed(row, status).status = status /\ Disposed(row, status).reason = row.reason
           /\ Reported(row, status).status = status /\ Reported(row, status).reason = row.reason
<1>1. ASSUME NEW s \in Status \ {"absent"}
      PROVE  Closed(row, s).status = s /\ Closed(row, s).reason = row.reason
  BY DEF Closed, JobRow
<1>2. ASSUME NEW s \in Status \ {"absent"}, NEW path \in BOOLEAN
      PROVE  LET new == [Closed(row, s) EXCEPT !.path = path]
             IN  new.status = s /\ new.reason = row.reason
  <2>1. Closed(row, s) \in JobRow
    BY RowWrites DEF SameAttempt
  <2> QED BY <1>1, <2>1 DEF JobRow
<1>3. "held" \in Status \ {"absent"}
  BY DEF Status
<1>4. Disposed(row, status).status = status /\ Disposed(row, status).reason = row.reason
  BY <1>2 DEF Disposed
<1>5. Reported(row, status).status = status /\ Reported(row, status).reason = row.reason
  BY <1>1, <1>2, <1>3 DEF Reported
<1> QED
  BY <1>1, <1>4, <1>5

\* What a write leaves of a row.
LEMMA FieldsWritten ==
    ASSUME NEW row \in JobRow, NEW status \in Status \ {"absent"},
           NEW new \in {Closed(row, status), Disposed(row, status), Reported(row, status)}
    PROVE  /\ new.status = status /\ new.reason = row.reason
           /\ new.cups = row.cups /\ new.superseded = row.superseded
<1>1. SameAttempt(row, new)
  <2>1. CASE new = Closed(row, status)
    BY <2>1, RowWrites
  <2>2. CASE new = Disposed(row, status)
    BY <2>2, RowWrites
  <2>3. CASE new = Reported(row, status)
    BY <2>3, RowWrites
  <2> QED BY <2>1, <2>2, <2>3
<1>2. new.status = status /\ new.reason = row.reason
  <2>1. CASE new = Closed(row, status)
    BY <2>1, WritesFit
  <2>2. CASE new = Disposed(row, status)
    BY <2>2, WritesFit
  <2>3. CASE new = Reported(row, status)
    BY <2>3, WritesFit
  <2> QED BY <2>1, <2>2, <2>3
<1> QED
  BY <1>1, <1>2 DEF SameAttempt

\* A row that is cancelled.
LEMMA ClosedGoes ==
    ASSUME NEW j \in Job, Exists(j), jobs[j] \in JobRow, jobs'[j] = Closed(jobs[j], "cancelled")
    PROVE  RowGoes(j)
<1>1. "cancelled" \in Status \ {"absent"}
  BY DEF Status
<1>2. /\ jobs'[j].status = "cancelled" /\ jobs'[j].reason = jobs[j].reason
      /\ jobs'[j].cups = jobs[j].cups /\ jobs'[j].superseded = jobs[j].superseded
  BY <1>1, FieldsWritten
<1> QED
  BY <1>2 DEF RowGoes, RowWritten

\* A row that is disposed of with its printer.
LEMMA DisposedGoes ==
    ASSUME NEW j \in Job, Exists(j), jobs[j] \in JobRow, jobs'[j] = Disposed(jobs[j], "deleted")
    PROVE  RowGoes(j)
<1>1. "deleted" \in Status \ {"absent"}
  BY DEF Status
<1>2. /\ jobs'[j].status = "deleted" /\ jobs'[j].reason = jobs[j].reason
      /\ jobs'[j].cups = jobs[j].cups /\ jobs'[j].superseded = jobs[j].superseded
  BY <1>1, FieldsWritten
<1> QED
  BY <1>2 DEF RowGoes, RowWritten

LEMMA SupersedeFits ==
    ASSUME NEW row \in JobRow, NEW j \in Job
    PROVE  Supersede(row, j).status = "cancelled" /\ Supersede(row, j).reason = row.reason
<1>1. "cancelled" \in Status \ {"absent"}
  BY DEF Status
<1>2. Closed(row, "cancelled") \in JobRow
  BY <1>1, RowWrites DEF SameAttempt
<1> QED
  BY <1>1, <1>2, WritesFit DEF Supersede, JobRow

LEMMA CreateGoes ==
    ASSUME IInv, NEW c \in CupsJob, NEW j \in Job, NEW r \in Reasons \cup {"none"},
           CreateJob(c, j, r) \/ CreateUnanswered(c, j, r)
    PROVE  StepGoes
<1> USE DEF IInv
<1> DEFINE new == [NoRow EXCEPT !.status = "forwarding", !.cups = c, !.reason = r]
<1>0. jobs \in [Job -> JobRow]
  BY DEF TableInv, TableTypeOK
<1>1. /\ RowCreated(c, j, r) /\ backend[c].pc = "create"
      /\ UNCHANGED <<cups, printed, patches, recon>>
  BY DEF CreateJob, CreateUnanswered, apiVars, At
<1>2. /\ new.status = "forwarding" /\ new.cups = c /\ new.reason = r
      /\ new.superseded = NoJob /\ new.age = 0
  BY DEF NoRow
<1> HIDE DEF new
<1>3. \A k \in Job : jobs'[k] = IF k = j THEN new
                                ELSE IF k \in EarlierAttempts(c, j) THEN Supersede(jobs[k], j)
                                ELSE jobs[k]
  BY <1>1 DEF RowCreated, new
<1>4. Absent(j)
  BY <1>1 DEF RowCreated, IsNext, Absent
<1>5. ASSUME NEW k \in Job, k \in EarlierAttempts(c, j)
      PROVE  /\ k # j /\ Exists(k)
             /\ jobs'[k].superseded = j /\ jobs'[k].superseded # NoJob
             /\ jobs'[k].status = "cancelled"
             /\ jobs'[k].reason = jobs[k].reason /\ jobs'[k].cups = jobs[k].cups
  <2>1. k # j /\ Exists(k) /\ jobs[k] \in JobRow /\ jobs'[k] = Supersede(jobs[k], j)
    BY <1>0, <1>3, <1>5 DEF EarlierAttempts
  <2> QED BY <2>1, SupersedeWrites, SupersedeFits, JobTableAssumption
<1>6. ASSUME NEW k \in Job, k # j PROVE RowGoes(k)
  BY <1>3, <1>5, <1>6 DEF RowGoes, RowWritten
<1>7. NewRow(j) /\ jobs'[j].cups = c /\ jobs'[j].reason = r
  <2>1. jobs'[j] = new
    BY <1>3
  <2>2. ASSUME NEW i \in Job \ {j}, ~Absent(i)'
        PROVE  /\ i < j
               /\ jobs'[i].cups = c =>
                     \/ jobs'[i].superseded # NoJob
                     \/ jobs'[i] = jobs[i] /\ jobs[i].status \in {"forwarded", "held", "deleted"}
    <3>1. ~Absent(i)
      BY <1>3, <1>5, <2>2 DEF Absent, Exists
    <3>2. ~(j < i) /\ i # j
      BY <1>4, <3>1 DEF TableInv, InOrder
    <3>3. i < j
      BY <3>2, JobTableAssumption
    <3>4. CASE i \in EarlierAttempts(c, j)
      BY <1>5, <3>3, <3>4
    <3>5. CASE i \notin EarlierAttempts(c, j)
      <4>1. jobs'[i] = jobs[i]
        BY <1>3, <3>2, <3>5
      <4> QED
        BY <3>1, <3>2, <3>3, <3>5, <4>1 DEF EarlierAttempts, Exists, Absent
    <3> QED BY <3>4, <3>5
  <2>3. jobs'[j].cups \in CupsJob /\ backend[jobs'[j].cups].pc = "create"
    BY <1>1, <1>2, <2>1
  <2> QED
    BY <1>2, <1>4, <2>1, <2>2, <2>3 DEF NewRow
<1>8. RowsGo
  BY <1>6, <1>7 DEF RowsGo
<1>9. BackendsGo
  <2>1. CASE CreateUnanswered(c, j, r)
    BY <1>1, <2>1, BackendFails DEF CreateUnanswered
  <2>2. CASE CreateJob(c, j, r)
    <3> DEFINE b == [backend[c] EXCEPT !.job = j,
                                       !.pc = IF r = "none" THEN "deliver" ELSE "spool"]
    <3>1. backend' = [backend EXCEPT ![c] = b]
      BY <2>2 DEF CreateJob
    <3>2. b.job = j /\ b.pc = IF r = "none" THEN "deliver" ELSE "spool"
      BY DEF BackendInv, Backend
    <3> HIDE DEF b
    <3>3. backend'[c] = b /\ \A d \in CupsJob : d # c => backend'[d] = backend[d]
      BY <3>1 DEF BackendInv
    <3>4. BackendGoes(c)
      BY <1>1, <1>7, <3>2, <3>3 DEF BackendGoes
    <3> QED
      BY <3>3, <3>4 DEF BackendsGo, BackendGoes
  <2> QED BY <2>1, <2>2
<1> QED
  BY <1>1, <1>8, <1>9, NothingGoes DEF StepGoes

LEMMA BackendStepGoes == IInv /\ AccountInv /\ BackendStep => StepGoes
<1> SUFFICES ASSUME IInv, AccountInv, NEW c \in CupsJob,
                    \/ GiveUp(c)
                    \/ \E j \in Job, r \in Reasons \cup {"none"} :
                          CreateJob(c, j, r) \/ CreateUnanswered(c, j, r)
                    \/ SpoolHeldFile(c) \/ SpoolFails(c)
                    \/ ChildExits(c) \/ SendReport(c)
                    \/ SignalArrives(c) \/ BackendDies(c) \/ NoAnswer(c)
             PROVE  StepGoes
  BY DEF BackendStep
<1> USE DEF IInv
<1>1. CASE GiveUp(c) \/ SpoolFails(c) \/ BackendDies(c) \/ NoAnswer(c)
  <2>1. /\ UNCHANGED <<jobs, cups, printed, patches, recon>>
        /\ backend[c].pc # "none" /\ Exits(c, FALSE)
    BY <1>1 DEF GiveUp, SpoolFails, BackendDies, NoAnswer, At, apiVars, tableVars
  <2> QED
    BY <2>1, BackendFails, NothingGoes DEF StepGoes
<1>2. CASE \E j \in Job, r \in Reasons \cup {"none"} :
              CreateJob(c, j, r) \/ CreateUnanswered(c, j, r)
  BY <1>2, CreateGoes
<1>3. CASE SpoolHeldFile(c)
  <2>1. /\ UNCHANGED <<jobs, cups, printed, recon>>
        /\ backend[c].pc = "spool" /\ Goes(c, "hold") /\ Reports(c, "held")
    BY <1>3 DEF SpoolHeldFile, At, apiVars
  <2>2. PatchesGo
    BY <2>1 DEF PatchesGo, Reports, Busy
  <2>3. BackendsGo
    BY <2>1, BackendTurns
  <2> QED
    BY <2>1, <2>2, <2>3, NothingGoes DEF StepGoes
<1>4. CASE ChildExits(c)
  <2>1. /\ UNCHANGED <<jobs, cups, patches, recon>> /\ backend[c].pc = "deliver"
    BY <1>4 DEF ChildExits, At, apiVars, tableVars
  <2>2. PICK ok \in BOOLEAN :
           /\ backend' = [backend EXCEPT ![c].pc = "done", ![c].ok = ok]
           /\ printed' = IF ok THEN printed \cup {backend[c].job} ELSE printed
    BY <1>4 DEF ChildExits
  <2> DEFINE b == [backend[c] EXCEPT !.pc = "done", !.ok = ok]
  <2>3. backend' = [backend EXCEPT ![c] = b]
    BY <2>2
  <2>4. b.job = backend[c].job /\ b.pc = "done" /\ b.ok = ok
    BY DEF BackendInv, Backend
  <2> HIDE DEF b
  <2>5. backend'[c] = b
    BY <2>3 DEF BackendInv
  <2>6. BackendMoved(c)
    BY <2>1, <2>2, <2>4, <2>5 DEF BackendMoved
  <2>7. BackendsGo
    BY <2>1, <2>3, <2>4, <2>6, OneBackendGoes
  <2>8. printed \subseteq printed'
    BY <2>2
  <2> QED
    BY <2>1, <2>7, <2>8, NothingGoes DEF StepGoes
<1>5. CASE SendReport(c)
  <2>1. /\ UNCHANGED <<jobs, cups, printed, recon>>
        /\ backend[c].pc = "done" /\ Goes(c, "report")
        /\ Reports(c, IF backend[c].ok THEN "forwarded" ELSE "failed")
    BY <1>5 DEF SendReport, At, apiVars, tableVars
  <2>2. PatchesGo
    BY <2>1 DEF PatchesGo, Reports, Busy
  <2>3. BackendsGo
    BY <2>1, BackendTurns
  <2> QED
    BY <2>1, <2>2, <2>3, NothingGoes DEF StepGoes
<1>6. CASE SignalArrives(c)
  <2>1. UNCHANGED <<jobs, cups, printed, recon>> /\ backend[c].pc # "none"
    BY <1>6 DEF SignalArrives, Signalled, apiVars, tableVars
  <2>2. CASE Exits(c, FALSE) /\ UNCHANGED patches
    BY <2>1, <2>2, BackendFails, NothingGoes DEF StepGoes
  <2>3. CASE /\ backend[c].pc \in {"deliver", "done", "report"}
             /\ Reports(c, "cancelled") /\ Goes(c, "dying")
    <3>1. PatchesGo
      BY <2>3 DEF PatchesGo, Reports, Busy
    <3>2. BackendsGo
      BY <2>3, BackendTurns
    <3> QED
      BY <2>1, <3>1, <3>2, NothingGoes DEF StepGoes
  <2> QED
    BY <1>6, <2>2, <2>3 DEF SignalArrives
<1> QED
  BY <1>1, <1>2, <1>3, <1>4, <1>5, <1>6

-----------------------------------------------------------------------------
\* What a backend takes for success, the row of its job bears out.
LEMMA TellGoes ==
    ASSUME IInv, AccountInv, NEW m \in patches, NEW refused \in BOOLEAN,
           Tell(m, refused), UNCHANGED <<printed, recon>>,
           ~refused => /\ jobs'[m.job].status = m.status
                       /\ jobs'[m.job].reason = jobs[m.job].reason
    PROVE  BackendsGo
<1> USE DEF IInv
<1>1. PICK c \in CupsJob :
        /\ backend[c].job = m.job
        /\ \/ At(c, "hold") /\ m.status = "held" /\ Exits(c, ~refused)
           \/ At(c, "report") /\ m.status # "cancelled" /\ Exits(c, backend[c].ok)
           \/ At(c, "dying") /\ m.status = "cancelled" /\ Exits(c, FALSE)
  BY DEF Tell
<1>2. backend[c].pc # "none" /\ m.job \in Job /\ m.job # NoJob
  BY <1>1, JobTableAssumption DEF At, RestInv, Patch
<1>3. PICK ok \in BOOLEAN :
        /\ Exits(c, ok)
        /\ ok => \/ backend[c].pc = "report" /\ backend[c].ok
                 \/ m.status = "held" /\ ~refused
  BY <1>1 DEF At, BackendInv, Backend
<1>4. ASSUME ok PROVE Accounted(m.job)'
  <2>1. CASE backend[c].pc = "report" /\ backend[c].ok
    BY <1>1, <2>1 DEF AccountInv, RowOfBackend, Accounted
  <2>2. CASE m.status = "held" /\ ~refused
    <3>1. jobs[m.job].reason # "none"
      BY <2>2 DEF AccountInv, ReportsFit
    <3>2. ~Considered(m.job)
      BY <1>2, <2>2 DEF AccountInv, AgedIsUnheld, Unheld
    <3>3. ~Considered(m.job)'
      BY <3>2 DEF Considered
    <3> QED
      BY <2>2, <3>1, <3>3 DEF Accounted, Kept
  <2> QED BY <1>3, <1>4, <2>1, <2>2
<1> DEFINE b == [backend[c] EXCEPT !.pc = "exit", !.ok = ok]
<1>5. backend' = [backend EXCEPT ![c] = b]
  BY <1>3 DEF Exits
<1>6. b.job = backend[c].job /\ b.pc = "exit" /\ b.ok = ok
  BY DEF BackendInv, Backend
<1> HIDE DEF b
<1>7. backend'[c] = b
  BY <1>5 DEF BackendInv
<1>8. BackendMoved(c)
  <2>1. backend[c].job = m.job /\ backend'[c].job = m.job
    BY <1>1, <1>6, <1>7
  <2>2. ok => Accounted(backend[c].job)'
    BY <1>4, <2>1
  <2> QED
    BY <1>2, <1>6, <1>7, <2>1, <2>2 DEF BackendMoved
<1> QED
  BY <1>2, <1>5, <1>6, <1>8, OneBackendGoes

LEMMA ReportStepGoes == IInv /\ AccountInv /\ ReportStep => StepGoes
<1> SUFFICES ASSUME IInv, AccountInv, NEW m \in patches, UpdateJob(m) \/ RefuseUpdate(m)
             PROVE  StepGoes
  BY DEF ReportStep
<1> USE DEF IInv
<1>1. UNCHANGED <<cups, printed, recon>> /\ patches' \subseteq patches
  BY DEF UpdateJob, RefuseUpdate, apiVars
<1>2. CASE UpdateJob(m)
  <2>1. m.job \in Job /\ m.status \in Status \ {"absent"} /\ jobs \in [Job -> JobRow]
    BY DEF RestInv, Patch, Status, TableInv, TableTypeOK
  <2>2. Exists(m.job) /\ jobs' = [jobs EXCEPT ![m.job] = Reported(jobs[m.job], m.status)]
    BY <1>2 DEF UpdateJob
  <2>3. jobs[m.job] \in JobRow /\ jobs'[m.job] = Reported(jobs[m.job], m.status)
    BY <2>1, <2>2
  <2>4. /\ jobs'[m.job].status = m.status /\ jobs'[m.job].reason = jobs[m.job].reason
        /\ jobs'[m.job].cups = jobs[m.job].cups
        /\ jobs'[m.job].superseded = jobs[m.job].superseded
    BY <2>1, <2>3, FieldsWritten
  <2>5. RowGoes(m.job)
    BY <2>2, <2>4 DEF RowGoes, RowWritten
  <2>6. RowsGo
    BY <2>1, <2>2, <2>5 DEF RowsGo, RowGoes
  <2>7. BackendsGo
    BY <1>1, <1>2, <2>4, TellGoes, NothingGoes DEF UpdateJob
  <2> QED
    BY <1>1, <2>6, <2>7, NothingGoes DEF StepGoes
<1>3. CASE RefuseUpdate(m)
  <2>1. BackendsGo
    BY <1>1, <1>3, TellGoes, NothingGoes DEF RefuseUpdate
  <2>2. UNCHANGED jobs
    BY <1>3 DEF RefuseUpdate, tableVars
  <2> QED
    BY <1>1, <2>1, <2>2, NothingGoes DEF StepGoes
<1> QED
  BY <1>2, <1>3

LEMMA CancelGoes ==
    ASSUME cups \in [CupsJob -> CupsState], NEW S, cups' = Canceled(S) PROVE CupsGoes
  BY DEF CupsGoes, Canceled, InFlight

LEMMA AdminStepGoes == IInv /\ AdminRequest => StepGoes
<1> SUFFICES ASSUME IInv, NEW a \in Admin,
                    \/ \E j \in Job : ReadCancel(a, j)
                    \/ AskIdentity(a) \/ CancelCupsJob(a) \/ CancelFails(a)
                    \/ WriteCancelled(a)
                    \/ \E p \in Printer : PurgeQueue(a, p)
                    \/ PurgeRows(a)
             PROVE  StepGoes
  BY DEF AdminRequest
<1> USE DEF IInv
<1>1. UNCHANGED <<backend, printed, patches, recon>>
  BY DEF ReadCancel, AskIdentity, CancelCupsJob, CancelFails, WriteCancelled, PurgeQueue,
         PurgeRows, cupsVars
<1>2. CupsGoes
  <2>1. UNCHANGED cups \/ \E S : cups' = Canceled(S)
    BY DEF ReadCancel, AskIdentity, CancelCupsJob, CancelFails, WriteCancelled, PurgeQueue,
           PurgeRows, cupsVars
  <2> QED BY <2>1, CancelGoes, NothingGoes DEF RestInv
<1>3. RowsGo
  <2>0. jobs \in [Job -> JobRow] /\ "cancelled" \in Status \ {"absent"}
    BY DEF TableInv, TableTypeOK, Status
  <2>1. ASSUME NEW j \in Job, Exists(j), jobs'[j] = Closed(jobs[j], "cancelled")
        PROVE  RowGoes(j)
    <3>1. jobs[j] \in JobRow
      BY <2>0
    <3> QED
      BY <2>1, <3>1, ClosedGoes
  <2>2. CASE UNCHANGED jobs
    BY <2>2, NothingGoes
  <2>3. CASE WriteCancelled(a) /\ jobs' # jobs
    <3> DEFINE j == admin[a].job
    <3>1. /\ j \in Job /\ Exists(j)
          /\ jobs' = [jobs EXCEPT ![j] = Closed(jobs[j], "cancelled")]
      BY <2>3 DEF WriteCancelled, AdminInv
    <3> HIDE DEF j
    <3>2. RowGoes(j)
      BY <2>0, <2>1, <3>1
    <3> QED
      BY <2>0, <3>1, <3>2 DEF RowsGo, RowGoes
  <2>4. CASE PurgeRows(a)
    <3>1. ASSUME NEW j \in Job PROVE RowGoes(j)
      <4>1. \/ jobs'[j] = jobs[j]
            \/ Exists(j) /\ jobs'[j] = Closed(jobs[j], "cancelled")
        BY <2>4 DEF PurgeRows, Exists
      <4> QED BY <2>1, <4>1 DEF RowGoes
    <3> QED BY <3>1 DEF RowsGo
  <2> QED
    BY <2>2, <2>3, <2>4 DEF ReadCancel, AskIdentity, CancelCupsJob, CancelFails, PurgeQueue,
                            tableVars
<1> QED
  BY <1>1, <1>2, <1>3, NothingGoes DEF StepGoes

-----------------------------------------------------------------------------
LEMMA WorldStepGoes == IInv /\ WorldStep => StepGoes
<1> SUFFICES ASSUME IInv, WorldStep PROVE StepGoes
  OBVIOUS
<1> USE DEF IInv
<1>0. jobs \in [Job -> JobRow] /\ cups \in [CupsJob -> CupsState]
  BY DEF TableInv, TableTypeOK, RestInv
<1>1. CASE \E j \in Job : RowAges(j)
  <2>1. PICK j \in Job : RowAges(j)
    BY <1>1
  <2>2. /\ jobs[j].status = "forwarding" /\ jobs[j] \in JobRow
        /\ jobs' = [jobs EXCEPT ![j].age = @ + 1]
        /\ UNCHANGED <<cups, backend, patches, printed, recon>>
    BY <1>0, <2>1 DEF RowAges, deliveryVars, cupsVars, apiVars
  <2>3. Unheld(j)
    BY <2>1 DEF RowAges, Unheld
  <2>4. /\ jobs'[j].status = "forwarding" /\ jobs'[j].superseded = jobs[j].superseded
        /\ jobs'[j].cups = jobs[j].cups /\ jobs'[j].reason = jobs[j].reason
    BY <1>0, <2>2 DEF JobRow
  <2>5. RowGoes(j)
    BY <2>2, <2>3, <2>4 DEF RowGoes, RowWritten, Exists
  <2>6. RowsGo
    BY <1>0, <2>2, <2>5 DEF RowsGo, RowGoes
  <2> QED
    BY <2>2, <2>6, NothingGoes DEF StepGoes
<1>2. CASE \E p \in Printer : \/ ArchivePrinter(p)
                              \/ UnarchivePrinter(p)
                              \/ DeletePrinter(p)
  <2>1. PICK p \in Printer : ArchivePrinter(p) \/ UnarchivePrinter(p) \/ DeletePrinter(p)
    BY <1>2
  <2>2. UNCHANGED <<backend, printed, patches, recon>>
    BY <2>1 DEF ArchivePrinter, UnarchivePrinter, DeletePrinter, deliveryVars, cupsVars, apiVars
  <2>3. QueueRemoved(p) \/ UNCHANGED cups
    BY <2>1 DEF ArchivePrinter, UnarchivePrinter, DeletePrinter, deliveryVars, cupsVars
  <2>4. CupsGoes
    BY <2>3, NothingGoes DEF QueueRemoved, CupsGoes, InFlight, Known
  <2>5. RowsGo
    <3>1. ASSUME NEW j \in Job PROVE RowGoes(j)
      <4>1. jobs'[j] = jobs[j] \/ (Exists(j) /\ jobs'[j] = Disposed(jobs[j], "deleted"))
        BY <2>1 DEF ArchivePrinter, UnarchivePrinter, DeletePrinter, RowsOn
      <4>2. jobs[j] \in JobRow
        BY <1>0
      <4>3. CASE jobs'[j] = jobs[j]
        BY <4>3 DEF RowGoes
      <4>4. CASE Exists(j) /\ jobs'[j] = Disposed(jobs[j], "deleted")
        BY <4>2, <4>4, DisposedGoes
      <4> QED
        BY <4>1, <4>3, <4>4
    <3> QED BY <3>1 DEF RowsGo
  <2> QED
    BY <2>2, <2>4, <2>5, NothingGoes DEF StepGoes
<1>3. CASE ClearSpool
  <2>1. /\ UNCHANGED <<jobs, printed, patches, recon>>
        /\ cups' = [c \in CupsJob |-> IF cups[c] = "unsent" THEN "unsent" ELSE "cleared"]
        /\ backend' = [c \in CupsJob |-> NoBackend]
    BY <1>3 DEF ClearSpool, apiVars, tableVars
  <2>2. CupsGoes /\ BackendsGo
    BY <2>1 DEF CupsGoes, InFlight, BackendsGo, BackendGoes
  <2> QED
    BY <2>1, <2>2, NothingGoes DEF StepGoes
<1>4. CASE ApiDies
  <2>1. UNCHANGED <<jobs, cups, backend, printed>> /\ patches' = {} /\ recon' = IdleRecon
    BY <1>4 DEF ApiDies, cupsVars, tableVars
  <2> QED
    BY <2>1, NothingGoes DEF StepGoes
<1> QED
  BY <1>1, <1>2, <1>3, <1>4 DEF WorldStep

\* The answer cupsd gives about a number is about the row's print job.
LEMMA KnownIsOwn ==
    ASSUME IInv, NumbersDiffer, NEW j \in Job, ~Absent(j),
           NEW c \in KnownAs(QueueOf[jobs[j].cups], NumberOf(j))
    PROVE  c = jobs[j].cups /\ cups[c] \in Known
  BY DEF KnownAs, NumberOf, NumbersDiffer, IInv, TableInv, RowHasJob

LEMMA LookUpGoes ==
    ASSUME IInv, AccountInv, NumbersDiffer, NEW j \in Job, LookUp(j) \/ LookUpUnanswered(j)
    PROVE  StepGoes
<1> USE DEF IInv
<1>1. UNCHANGED <<jobs, cups, backend, printed, patches>> /\ j \in recon.todo
  BY DEF LookUp, LookUpUnanswered, cupsVars, tableVars
<1>2. ~Absent(j) /\ jobs[j].cups \in CupsJob
  BY <1>1 DEF AccountInv, AgedIsUnheld, Considered, TableInv, RowHasJob
<1>3. PICK v \in Status :
        /\ Asked(j, v)
        /\ v # "absent" =>
              /\ v \in {"forwarded", "failed", "cancelled"}
              /\ cups[jobs[j].cups] \notin InFlight
              /\ v = "forwarded" => cups[jobs[j].cups] = "completed"
  <2> DEFINE found == KnownAs(QueueOf[jobs[j].cups], NumberOf(j))
  <2>1. CASE \E c \in found : Asked(j, Resolution(cups[c]))
    <3>1. PICK c \in found : Asked(j, Resolution(cups[c]))
      BY <2>1
    <3>2. c = jobs[j].cups
      BY <1>2, KnownIsOwn
    <3> QED
      BY <3>1, <3>2 DEF Resolution, Status, InFlight
  <2>2. CASE found = {} /\ Asked(j, IF jobs[j].age = 2 THEN "cancelled" ELSE "absent")
    <3>1. cups[jobs[j].cups] \notin Known
      BY <1>2, <2>2 DEF KnownAs, NumberOf
    <3> QED
      BY <2>2, <3>1 DEF Status, Known
  <2>3. CASE LookUpUnanswered(j)
    BY <2>3 DEF LookUpUnanswered, Status
  <2> QED
    BY <2>1, <2>2, <2>3 DEF LookUp
<1>4. /\ recon'.todo = recon.todo \ {j} /\ recon'.winner = recon.winner
      /\ recon'.verdict = [recon.verdict EXCEPT ![j] = v]
  BY <1>3 DEF Asked, ReconInv, Recon
<1>5. recon'.verdict[j] = v /\ \A k \in Job : k # j => recon'.verdict[k] = recon.verdict[k]
  BY <1>4 DEF ReconInv, Recon
<1>6. ReconGoes
  <2> SUFFICES ASSUME NEW k \in Job
               PROVE  /\ Considered(k)' => Considered(k)
                      /\ recon'.verdict[k] # "absent" =>
                            \/ /\ recon'.verdict[k] = recon.verdict[k]
                               /\ recon'.winner[k] = recon.winner[k]
                            \/ /\ k \in recon.todo
                               /\ recon'.verdict[k] \in {"forwarded", "failed", "cancelled"}
                               /\ cups[jobs[k].cups] \notin InFlight
                               /\ recon'.verdict[k] = "forwarded" =>
                                     cups[jobs[k].cups] = "completed"
    BY DEF ReconGoes
  <2>1. CASE k = j
    BY <1>1, <1>3, <1>5, <2>1 DEF Considered
  <2>2. CASE k # j
    BY <1>4, <1>5, <2>2 DEF Considered
  <2> QED BY <2>1, <2>2
<1> QED
  BY <1>1, <1>6, NothingGoes DEF StepGoes

LEMMA ReconcileGoes ==
    ASSUME NumbersDiffer, NEW top, RowsEnd(top), IInv, AccountInv, ReconcileStep
    PROVE  StepGoes
<1> USE DEF IInv
<1>0. jobs \in [Job -> JobRow] /\ recon \in Recon
  BY DEF TableInv, TableTypeOK, ReconInv
<1>1. CASE StartReconcile
  <2> DEFINE stuck == {j \in Job : jobs[j].status = "forwarding" /\ jobs[j].age > 0}
             old == {j \in stuck : Latest(j) # j}
  <2>1. UNCHANGED <<jobs, cups, backend, printed, patches>>
    BY <1>1 DEF StartReconcile, tableVars, cupsVars
  <2>2. recon' = [todo |-> stuck \ old,
                  verdict |-> [j \in Job |-> IF j \in old THEN "cancelled" ELSE "absent"],
                  winner |-> [j \in Job |-> IF j \in old THEN Latest(j) ELSE NoJob]]
    BY <1>1 DEF StartReconcile
  <2>3. \A j \in old : j \in stuck /\ j \in Job /\ Exists(j)
    BY DEF Exists
  <2>4. \A j \in stuck : jobs[j].status = "forwarding" /\ jobs[j].age > 0
    OBVIOUS
  <2> HIDE DEF stuck, old
  <2>5. \A j \in old : Latest(j) # NoJob
    BY <2>3, LatestIsLater, JobTableAssumption
  <2>6. ReconGoes
    BY <2>2, <2>3, <2>4, <2>5 DEF ReconGoes, Considered
  <2> QED
    BY <2>1, <2>6, NothingGoes DEF StepGoes
<1>2. CASE \E j \in Job : LookUp(j) \/ LookUpUnanswered(j)
  BY <1>2, LookUpGoes
<1>3. CASE CommitReconcile
  <2>1. UNCHANGED <<cups, backend, printed, patches>> /\ recon' = IdleRecon
    BY <1>3 DEF CommitReconcile, cupsVars
  <2>2. \A i \in Job : ~Considered(i)'
    BY <2>1 DEF Considered, IdleRecon
  <2>3. ASSUME NEW j \in Job PROVE RowGoes(j)
    <3>1. jobs[j] \in JobRow
      BY <1>0
    <3>2. CASE jobs'[j] = jobs[j]
      BY <3>2 DEF RowGoes
    <3>3. CASE jobs'[j] # jobs[j]
      <4>1. /\ Exists(j) /\ recon.verdict[j] # "absent"
            /\ jobs'[j] = IF recon.winner[j] # NoJob THEN Supersede(jobs[j], recon.winner[j])
                          ELSE Closed(jobs[j], recon.verdict[j])
        BY <1>3, <3>3 DEF CommitReconcile
      <4>2. CASE recon.winner[j] # NoJob
        <5>1. recon.winner[j] \in Job
          BY <1>0, <4>2 DEF Recon
        <5> QED
          BY <3>1, <4>1, <4>2, <5>1, SupersedeWrites, SupersedeFits DEF RowGoes, RowWritten
      <4>3. CASE recon.winner[j] = NoJob
        <5>1. recon.verdict[j] \in Status \ {"absent"}
          BY <1>0, <4>1 DEF Recon
        <5>2. jobs'[j] = Closed(jobs[j], recon.verdict[j])
          BY <4>1, <4>3
        <5>3. /\ jobs'[j].status = recon.verdict[j] /\ jobs'[j].reason = jobs[j].reason
              /\ jobs'[j].cups = jobs[j].cups /\ jobs'[j].superseded = jobs[j].superseded
          <6>1. SameAttempt(jobs[j], Closed(jobs[j], recon.verdict[j]))
            BY <3>1, <5>1, RowWrites
          <6>2. /\ Closed(jobs[j], recon.verdict[j]).status = recon.verdict[j]
                /\ Closed(jobs[j], recon.verdict[j]).reason = jobs[j].reason
            BY <3>1, <5>1, WritesFit
          <6> QED BY <5>2, <6>1, <6>2 DEF SameAttempt
        <5> QED
          BY <2>2, <4>1, <4>3, <5>3 DEF RowGoes, RowWritten
      <4> QED BY <4>2, <4>3
    <3> QED BY <3>2, <3>3
  <2> QED
    BY <2>1, <2>3, NothingGoes DEF StepGoes, RowsGo
<1> QED
  BY <1>1, <1>2, <1>3 DEF ReconcileStep

-----------------------------------------------------------------------------
\* Whatever cupsd, the backends, administrators and the sweep do in between,
\* every row of a print job but the last is accounted for.
THEOREM AccountsHold ==
    ASSUME NumbersDiffer, NEW CONSTANT top, RowsEnd(top) PROVE Spec => []AccountInv
<1>1. Init => AccountInv
  BY NothingToAccount
<1>2. IInv /\ IInv' /\ AccountInv /\ [Next]_vars => AccountInv'
  <2> SUFFICES ASSUME IInv, IInv', AccountInv, [Next]_vars PROVE AccountInv'
    OBVIOUS
  <2>1. CASE Next
    BY <2>1, CupsStepGoes, BackendStepGoes, ReportStepGoes, AdminStepGoes, ReconcileGoes,
       WorldStepGoes, AccountsKeep DEF Next, DeliveryStep
  <2>2. CASE UNCHANGED vars
    <3>1. StepGoes
      BY <2>2, NothingGoes DEF StepGoes, vars, deliveryVars, cupsVars, apiVars, tableVars
    <3> QED BY <3>1, AccountsKeep
  <2> QED BY <2>1, <2>2
<1> QED
  BY <1>1, <1>2, InvariantHolds, PTL DEF Spec

LEMMA RowsAreFinite == ASSUME NEW top, RowsEnd(top) PROVE IsFiniteSet(Job)
<1>1. Job \subseteq 0..top /\ top \in Nat
  BY JobTableAssumption DEF RowsEnd
<1>2. IsFiniteSet(0..top)
  BY <1>1, FS_Interval
<1> QED
  BY <1>1, <1>2, FS_Subset

\* The forwarded rows the reports count are rows whose document went to the
\* printer, so a job is counted no more often than it was printed
\* (create_job, update_job, reconcile_stuck_jobs, reports/aggregation.py).
THEOREM CountsAreTrue ==
    ASSUME NumbersDiffer, NEW CONSTANT top, RowsEnd(top) PROVE Spec => []CountedOnce
<1>1. AccountInv => CountedOnce
  <2> SUFFICES ASSUME AccountInv, NEW c \in CupsJob
               PROVE  Cardinality(Counted(c, "forwarded")) <= Cardinality(AttemptsAt(c) \cap printed)
    BY DEF CountedOnce
  <2>1. Counted(c, "forwarded") \subseteq AttemptsAt(c) \cap printed
    BY DEF Counted, AttemptsAt, AccountInv, RowInv, ForwardedIsPrinted
  <2>2. IsFiniteSet(AttemptsAt(c) \cap printed)
    BY RowsAreFinite, FS_Subset DEF AttemptsAt
  <2> QED
    BY <2>1, <2>2, FS_Subset
<1> QED
  BY <1>1, AccountsHold, PTL

\* However many attempts of a print job fail, and in whatever order create_job,
\* late reports and the sweep say so, the trail shows one failure at most.
THEOREM FailuresAreCountedOnce ==
    ASSUME NumbersDiffer, NEW CONSTANT top, RowsEnd(top) PROVE Spec => []OneFailurePerJob
<1>1. AccountInv => OneFailurePerJob
  <2> SUFFICES ASSUME AccountInv, NEW c \in CupsJob
               PROVE  Cardinality(Counted(c, "failed") \ printed) <= 1
    BY DEF OneFailurePerJob
  <2> DEFINE F == Counted(c, "failed") \ printed
  <2>1. \A j \in F : j \in Job /\ ~Accounted(j) /\ ~Absent(j) /\ jobs[j].cups = c
    BY DEF Counted, AttemptsAt, Accounted, Kept, Exists, Absent
  <2>2. ASSUME NEW j \in F, NEW k \in F PROVE j = k
    <3>1. ~(j < k) /\ ~(k < j)
      BY <2>1 DEF LaterAttempt, AccountInv, RowInv, EarlierAccounted
    <3>2. j \in Nat /\ k \in Nat
      BY <2>1, JobTableAssumption
    <3> QED BY <3>1, <3>2
  <2> HIDE DEF F
  <2>3. CASE F = {}
    BY <2>3, FS_EmptySet DEF F
  <2>4. CASE F # {}
    <3>1. PICK j \in F : F = {j}
      BY <2>2, <2>4
    <3> QED BY <3>1, FS_Singleton DEF F
  <2> QED BY <2>3, <2>4
<1> QED
  BY <1>1, AccountsHold, PTL

\* The sweep asks cupsd, and commits later; the row of a delivery that cupsd
\* still has in flight is left as it is all the same (reconcile_stuck_jobs,
\* _resolve).
THEOREM SweepLeavesFlightsAlone ==
    ASSUME NumbersDiffer, NEW CONSTANT top, RowsEnd(top) PROVE Spec => InFlightLeftAlone
<1>1. IInv /\ AccountInv /\ [Next]_vars =>
        [CommitReconcile =>
           \A c \in CupsJob :
               cups[c] = "processing" /\ backend[c].job # NoJob
               => jobs'[backend[c].job] = jobs[backend[c].job]]_vars
  <2> SUFFICES ASSUME IInv, AccountInv, CommitReconcile, NEW c \in CupsJob,
                      cups[c] = "processing", backend[c].job # NoJob
               PROVE  jobs'[backend[c].job] = jobs[backend[c].job]
    OBVIOUS
  <2> DEFINE j == backend[c].job
  <2>1. LastAttempt(c, j)
    BY DEF AccountInv, RowOfBackend
  <2>2. j \in Job /\ jobs[j].cups = c
    BY <2>1 DEF LastAttempt
  <2>3. recon.winner[j] = NoJob
    <3>1. ASSUME recon.winner[j] # NoJob PROVE FALSE
      <4>1. LaterAttempt(j, recon.winner[j])
        BY <2>2, <3>1 DEF IInv, ReconInv, WinnerIsLater
      <4>2. recon.winner[j] \in Job /\ j < recon.winner[j] /\ recon.winner[j] <= j
        BY <2>1, <2>2, <4>1 DEF LastAttempt, LaterAttempt
      <4>3. ASSUME NEW i \in Job, NEW k \in Job, i < k, k <= i PROVE FALSE
        BY <4>3, JobTableAssumption
      <4> QED BY <2>2, <4>2, <4>3
    <3> QED BY <3>1
  <2>4. recon.verdict[j] = "absent"
    BY <2>2, <2>3 DEF AccountInv, VerdictStands, InFlight
  <2> HIDE DEF j
  <2>5. jobs'[j] = jobs[j]
    BY <2>2, <2>4 DEF CommitReconcile
  <2> QED BY <2>5 DEF j
<1> QED
  BY <1>1, InvariantHolds, AccountsHold, PTL DEF Spec, InFlightLeftAlone
-----------------------------------------------------------------------------
(* A forwarded row that nobody is working on stays so.                     *)

\* No handler writes such a row, except to delete it with its printer.
LEMMA RowUntouched ==
    ASSUME IInv, Next, NEW j \in Job, jobs[j].status = "forwarded", Undisputed(j)
    PROVE  jobs'[j] = jobs[j] \/ jobs'[j].status = "deleted"
<1> USE DEF IInv
<1>0. jobs \in [Job -> JobRow] /\ Exists(j) /\ recon.verdict[j] = "absent"
  BY DEF TableInv, TableTypeOK, Exists, Undisputed
<1>1. CASE CupsStep
  BY <1>1 DEF CupsStep, Submit, StartBackend, BackendExits, CupsRestarts, CupsCancels, RollOff,
              tableVars
<1>2. CASE BackendStep
  <2> PICK c \in CupsJob :
        \/ GiveUp(c)
        \/ \E k \in Job, r \in Reasons \cup {"none"} :
              CreateJob(c, k, r) \/ CreateUnanswered(c, k, r)
        \/ SpoolHeldFile(c) \/ SpoolFails(c) \/ ChildExits(c) \/ SendReport(c)
        \/ SignalArrives(c) \/ BackendDies(c) \/ NoAnswer(c)
    BY <1>2 DEF BackendStep
  <2>1. ASSUME NEW k \in Job, NEW r \in Reasons \cup {"none"},
               CreateJob(c, k, r) \/ CreateUnanswered(c, k, r)
        PROVE  jobs'[j] = jobs[j]
    <3>1. RowCreated(c, k, r)
      BY <2>1 DEF CreateJob, CreateUnanswered
    <3>2. j # k
      BY <3>1 DEF RowCreated, IsNext
    <3>3. j \notin EarlierAttempts(c, k)
      BY DEF EarlierAttempts
    <3> QED
      BY <3>1, <3>2, <3>3 DEF RowCreated
  <2>2. ASSUME \/ GiveUp(c) \/ SpoolHeldFile(c) \/ SpoolFails(c) \/ ChildExits(c)
               \/ SendReport(c) \/ SignalArrives(c) \/ BackendDies(c) \/ NoAnswer(c)
        PROVE  UNCHANGED jobs
    BY <2>2 DEF GiveUp, SpoolHeldFile, SpoolFails, ChildExits, SendReport, SignalArrives,
                BackendDies, NoAnswer, tableVars
  <2> QED
    BY <2>1, <2>2
<1>3. CASE ReportStep
  <2>1. PICK m \in patches : UpdateJob(m) \/ RefuseUpdate(m)
    BY <1>3 DEF ReportStep
  <2>2. m.job # j
    BY DEF Undisputed
  <2> QED
    BY <1>0, <2>1, <2>2 DEF UpdateJob, RefuseUpdate, tableVars
<1>4. CASE AdminRequest
  <2> PICK a \in Admin :
        \/ \E i \in Job : ReadCancel(a, i)
        \/ AskIdentity(a) \/ CancelCupsJob(a) \/ CancelFails(a) \/ WriteCancelled(a)
        \/ \E p \in Printer : PurgeQueue(a, p)
        \/ PurgeRows(a)
    BY <1>4 DEF AdminRequest
  <2>1. CASE WriteCancelled(a)
    <3>1. admin[a].job # j
      BY <2>1 DEF WriteCancelled, Undisputed
    <3> QED
      BY <1>0, <2>1, <3>1 DEF WriteCancelled
  <2>2. CASE PurgeRows(a)
    BY <2>2 DEF PurgeRows
  <2>3. ASSUME \/ \E i \in Job : ReadCancel(a, i)
               \/ AskIdentity(a) \/ CancelCupsJob(a) \/ CancelFails(a)
               \/ \E p \in Printer : PurgeQueue(a, p)
        PROVE  UNCHANGED jobs
    BY <2>3 DEF ReadCancel, AskIdentity, CancelCupsJob, CancelFails, PurgeQueue, tableVars
  <2> QED
    BY <2>1, <2>2, <2>3
<1>5. CASE ReconcileStep
  <2>1. CASE CommitReconcile
    BY <1>0, <2>1 DEF CommitReconcile
  <2>2. CASE StartReconcile \/ \E i \in Job : LookUp(i) \/ LookUpUnanswered(i)
    BY <2>2 DEF StartReconcile, LookUp, LookUpUnanswered, tableVars
  <2> QED
    BY <1>5, <2>1, <2>2 DEF ReconcileStep
<1>6. CASE WorldStep
  <2>1. ASSUME NEW i \in Job, RowAges(i) PROVE jobs'[j] = jobs[j]
    <3>1. i # j
      BY <2>1 DEF RowAges
    <3> QED
      BY <1>0, <2>1, <3>1 DEF RowAges
  <2>2. ASSUME NEW p \in Printer, DeletePrinter(p)
        PROVE  jobs'[j] = jobs[j] \/ jobs'[j].status = "deleted"
    <3>1. jobs'[j] = jobs[j] \/ jobs'[j] = Disposed(jobs[j], "deleted")
      BY <2>2 DEF DeletePrinter
    <3>2. "deleted" \in Status \ {"absent"}
      BY DEF Status
    <3>3. Disposed(jobs[j], "deleted").status = "deleted"
      BY <1>0, <3>2, WritesFit
    <3> QED
      BY <3>1, <3>3
  <2>3. ASSUME \/ \E p \in Printer : ArchivePrinter(p) \/ UnarchivePrinter(p)
               \/ ClearSpool \/ ApiDies
        PROVE  UNCHANGED jobs
    BY <2>3 DEF ArchivePrinter, UnarchivePrinter, ClearSpool, ApiDies, tableVars
  <2> QED
    BY <1>6, <2>1, <2>2, <2>3 DEF WorldStep
<1> QED
  BY <1>1, <1>2, <1>3, <1>4, <1>5, <1>6 DEF Next, DeliveryStep

\* No request to cancel it begins: cancel_job refuses a forwarded job.
LEMMA NotAsked ==
    ASSUME IInv, Next, NEW j \in Job, jobs[j].status = "forwarded", Undisputed(j),
           NEW a \in Admin, admin'[a].job = j
    PROVE  admin'[a].pc = "idle"
<1>0. /\ admin \in [Admin -> AdminTask] /\ admin[a] \in AdminTask
      /\ j # NoJob /\ IdleAdmin.job = NoJob /\ IdleAdmin.pc = "idle"
      /\ admin[a].job = j => admin[a].pc = "idle"
  BY JobTableAssumption DEF IInv, AdminInv, IdleAdmin, Undisputed
<1>1. CASE UNCHANGED admin
  BY <1>0, <1>1
<1>2. CASE ApiDies
  BY <1>0, <1>2 DEF ApiDies
<1>3. CASE AdminRequest
  <2> PICK b \in Admin :
        \/ \E i \in Job : ReadCancel(b, i)
        \/ AskIdentity(b) \/ CancelCupsJob(b) \/ CancelFails(b) \/ WriteCancelled(b)
        \/ \E p \in Printer : PurgeQueue(b, p)
        \/ PurgeRows(b)
    BY <1>3 DEF AdminRequest
  <2>1. CASE b # a
    <3>1. \E task : AdminStep(b, task)
      BY DEF ReadCancel, AskIdentity, CancelCupsJob, CancelFails, WriteCancelled, PurgeQueue,
             PurgeRows
    <3>2. admin'[a] = admin[a]
      BY <1>0, <2>1, <3>1 DEF AdminStep
    <3> QED
      BY <1>0, <3>2
  <2>2. CASE b = a
    <3>1. ASSUME NEW i \in Job, ReadCancel(a, i) PROVE FALSE
      <4>1. admin'[a].job = i
        BY <1>0, <3>1 DEF ReadCancel, AdminStep, IdleAdmin
      <4> QED
        BY <3>1, <4>1 DEF ReadCancel
    <3>2. ASSUME AskIdentity(a) \/ CancelCupsJob(a) PROVE FALSE
      <4>1. admin[a].pc \in {"ask", "cancel"} /\ admin'[a].job = admin[a].job
        <5>1. /\ admin[a].pc \in {"ask", "cancel"}
              /\ \E pc : AdminStep(a, [admin[a] EXCEPT !.pc = pc])
          BY <3>2 DEF AskIdentity, CancelCupsJob
        <5>2. PICK pc : admin' = [admin EXCEPT ![a] = [admin[a] EXCEPT !.pc = pc]]
          BY <5>1 DEF AdminStep
        <5>3. admin'[a] = [admin[a] EXCEPT !.pc = pc]
          BY <1>0, <5>2
        <5>4. admin'[a].job = admin[a].job
          BY <1>0, <5>3 DEF AdminTask
        <5> QED
          BY <5>1, <5>4
      <4> QED
        BY <1>0, <4>1
    <3>3. ASSUME CancelFails(a) \/ WriteCancelled(a) \/ PurgeRows(a) PROVE FALSE
      <4>1. admin'[a] = IdleAdmin
        BY <1>0, <3>3 DEF CancelFails, WriteCancelled, PurgeRows, AdminStep
      <4> QED
        BY <1>0, <4>1
    <3>4. ASSUME NEW p \in Printer, PurgeQueue(a, p) PROVE FALSE
      <4>1. admin'[a].job = NoJob
        BY <1>0, <3>4 DEF PurgeQueue, AdminStep, IdleAdmin
      <4> QED
        BY <1>0, <4>1
    <3> QED
      BY <2>2, <3>1, <3>2, <3>3, <3>4
  <2> QED
    BY <2>1, <2>2
<1>4. UNCHANGED admin \/ ApiDies \/ AdminRequest
  <2>1. CupsStep => UNCHANGED admin
    BY DEF CupsStep, Submit, StartBackend, BackendExits, CupsRestarts, CupsCancels, RollOff,
           apiVars
  <2>2. BackendStep => UNCHANGED admin
    BY DEF BackendStep, GiveUp, CreateJob, CreateUnanswered, SpoolHeldFile, SpoolFails,
           ChildExits, SendReport, SignalArrives, BackendDies, NoAnswer, apiVars
  <2>3. ReportStep => UNCHANGED admin
    BY DEF ReportStep, UpdateJob, RefuseUpdate, apiVars
  <2>4. ReconcileStep => UNCHANGED admin
    BY DEF ReconcileStep, StartReconcile, LookUp, LookUpUnanswered, CommitReconcile
  <2>5. WorldStep => UNCHANGED admin \/ ApiDies
    BY DEF WorldStep, RowAges, ArchivePrinter, UnarchivePrinter, DeletePrinter, ClearSpool,
           deliveryVars, apiVars
  <2> QED
    BY <2>1, <2>2, <2>3, <2>4, <2>5 DEF Next, DeliveryStep
<1> QED
  BY <1>1, <1>2, <1>3, <1>4

LEMMA UndisputedStays ==
    ASSUME NumbersDiffer, NEW top, RowsEnd(top), IInv, AccountInv, Next,
           NEW j \in Job, jobs[j].status = "forwarded", Undisputed(j)
    PROVE  Undisputed(j)'
<1>1. StepGoes
  BY CupsStepGoes, BackendStepGoes, ReportStepGoes, AdminStepGoes, ReconcileGoes,
     WorldStepGoes DEF Next, DeliveryStep
<1>2. j # NoJob /\ ~Absent(j)
  BY JobTableAssumption DEF Absent
<1>3. \A c \in CupsJob : backend[c].job = j => backend[c].pc = "exit"
  BY <1>2 DEF Undisputed, AccountInv, RowOfBackend
<1>4. ASSUME NEW m \in patches' PROVE m.job # j
  BY <1>1, <1>3 DEF Undisputed, StepGoes, PatchesGo, Busy
<1>5. ASSUME NEW c \in CupsJob, backend'[c].job = j PROVE backend'[c].pc \in {"create", "exit"}
  <2>1. BackendGoes(c)
    BY <1>1 DEF StepGoes, BackendsGo
  <2>2. backend'[c] # NoBackend
    BY <1>2, <1>5 DEF NoBackend
  <2>3. ~NewRow(backend'[c].job)
    BY <1>2, <1>5 DEF NewRow
  <2>4. BackendMoved(c) /\ backend'[c].job = backend[c].job => backend'[c].pc = "exit"
    BY <1>3, <1>5 DEF BackendMoved
  <2> QED
    BY <1>3, <1>5, <2>1, <2>2, <2>3, <2>4 DEF BackendGoes
<1>6. ~Considered(j)'
  BY <1>1 DEF StepGoes, ReconGoes, Considered, Undisputed
<1> QED
  BY <1>4, <1>5, <1>6, NotAsked DEF Undisputed, Considered

\* Once a job is reported forwarded and nothing about its row is under way, no
\* later attempt at it, no new sweep, request or purge and no report changes the
\* row or takes it up, until it is deleted with its printer
\* (_supersede_earlier_attempts, reconcile_stuck_jobs, cancel_job, purge_jobs,
\* update_job).
THEOREM ForwardedStays ==
    ASSUME NumbersDiffer, NEW CONSTANT top, RowsEnd(top) PROVE Spec => ForwardedForGood
<1>1. IInv /\ AccountInv /\ [Next]_vars =>
        [\A j \in Job :
           jobs[j].status = "forwarded" /\ Undisputed(j)
           => jobs'[j].status = "deleted" \/ (jobs'[j] = jobs[j] /\ Undisputed(j)')]_vars
  <2> SUFFICES ASSUME IInv, AccountInv, Next, NEW j \in Job,
                      jobs[j].status = "forwarded", Undisputed(j)
               PROVE  jobs'[j].status = "deleted" \/ (jobs'[j] = jobs[j] /\ Undisputed(j)')
    OBVIOUS
  <2> QED
    BY RowUntouched, UndisputedStays
<1> QED
  BY <1>1, InvariantHolds, AccountsHold, PTL DEF Spec, ForwardedForGood
===============================================================================
