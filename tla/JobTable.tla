------------------------------ MODULE JobTable ------------------------------
(***************************************************************************)
(* The rows of the jobs table (apps/api/app/models/job.py), the directory  *)
(* of documents spooled for held jobs, and what the printers table says    *)
(* about the devices.  Every component that reads or writes a job row      *)
(* extends this module; the database and the directory outlive the         *)
(* processes that use them.                                                *)
(*                                                                         *)
(* A row's id is a number, and ids are given out in the order rows are     *)
(* created, so "<" on ids is the order of created_at.                      *)
(***************************************************************************)
EXTENDS Integers, FiniteSets

CONSTANTS
    Job,        \* ids of the rows that can exist
    CupsJob,    \* the print jobs cupsd has accepted, told apart by job-uuid
    Printer,
    QueueOf     \* the printer each print job was sent to

NoJob == 0
NoCupsJob == "no cups job"

ASSUME JobTableAssumption ==
    /\ Job \subseteq Nat \ {NoJob}
    /\ QueueOf \in [CupsJob -> Printer]
    /\ NoCupsJob \notin CupsJob

VARIABLES
    jobs,       \* the jobs table
    spool,      \* the ids a document is spooled under in /var/spool/printops-held
    fleet,      \* each printer: in service, archived, or deleted
    online      \* printers whose recorded status is "online"

tableVars == <<jobs, spool, fleet, online>>

Status == {"absent", "forwarding", "held", "forwarded", "failed",
           "cancelled", "deleted"}

HoldReason == {"pin_release", "follow_me", "printer_offline", "quota"}

(***************************************************************************)
(* age counts the deadlines of the row's current status that have passed:  *)
(* held_expires_at for "held", 48 hours since completed_at for "failed",   *)
(* 30 minutes and then 2 hours since created_at for "forwarding".  path is *)
(* whether held_file_path is set.                                          *)
(***************************************************************************)
JobRow == [status: Status,
           reason: HoldReason \cup {"none"},
           cups: CupsJob \cup {NoCupsJob},
           path: BOOLEAN,
           age: 0..2,
           superseded: Job \cup {NoJob}]

NoRow == [status |-> "absent", reason |-> "none", cups |-> NoCupsJob,
          path |-> FALSE, age |-> 0, superseded |-> NoJob]

TableTypeOK ==
    /\ jobs \in [Job -> JobRow]
    /\ spool \subseteq Job
    /\ fleet \in [Printer -> {"active", "archived", "deleted"}]
    /\ online \subseteq Printer

TableInit ==
    /\ jobs = [j \in Job |-> NoRow]
    /\ spool = {}
    /\ fleet = [p \in Printer |-> "active"]
    /\ online = {}

-----------------------------------------------------------------------------

Exists(j) == jobs[j].status \notin {"absent", "deleted"}

\* Rows are created in order: j is the next id.
IsNext(j) ==
    /\ jobs[j].status = "absent"
    /\ \A k \in Job : k < j => jobs[k].status # "absent"

\* The rows whose job was sent to printer p.
RowsOn(p) == {j \in Job : Exists(j) /\ QueueOf[jobs[j].cups] = p}

\* A status write; completed_at (or held_expires_at) is written with it.
Closed(row, status) == [row EXCEPT !.status = status, !.age = 0]

\* ... and one that clears held_file_path as well.
Disposed(row, status) == [Closed(row, status) EXCEPT !.path = FALSE]

\* Fault: a row that is already closed is left alone.
OpenAttempts(c, j) ==
    {k \in Job \ {j} : jobs[k].status = "forwarding" /\ jobs[k].cups = c}

\* Fault: a forwarded row is superseded too.
AllAttempts(c, j) ==
    {k \in Job \ {j} : Exists(k) /\ jobs[k].cups = c /\ jobs[k].status # "held"}

\* _supersede_earlier_attempts: the rows of the same job-uuid that are neither
\* forwarded nor held.
EarlierAttempts(c, j) ==
    {k \in Job \ {j} : /\ Exists(k) /\ jobs[k].cups = c
                       /\ jobs[k].status \notin {"forwarded", "held"}}

Supersede(row, j) == [Closed(row, "cancelled") EXCEPT !.superseded = j]

\* An unlink is only issued by a handler that has a path to unlink.
Unlink(files, j, path) == IF path THEN files \ {j} ELSE files
=============================================================================
