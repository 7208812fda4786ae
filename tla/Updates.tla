------------------------------ MODULE Updates ------------------------------
(***************************************************************************)
(* Scheduled software updates: the admin endpoints (routers/updates.py),   *)
(* the watcher that the host starts every minute (update-watcher.sh) and   *)
(* the update it runs (apply-update.sh), which restarts the API.           *)
(*                                                                         *)
(* Every endpoint selects a row and writes it in a later step; what other  *)
(* requests did in between is overwritten.  Neither of the watcher's       *)
(* reports is repeated when it gets no answer.                             *)
(***************************************************************************)
EXTENDS Naturals, FiniteSets

CONSTANTS
    Admin,           \* requests by administrators in progress at one time
    NumSchedules,    \* bound: rows of update_schedule
    Horizon,         \* bound: the latest time there is
    MaxLostReports   \* bound: reports that do not arrive

ASSUME UpdatesAssumption ==
    /\ NumSchedules \in Nat \ {0}
    /\ {Horizon, MaxLostReports} \subseteq Nat

VARIABLES
    schedules,   \* the rows
    now,
    request,     \* what each administrator's request has read
    watcher,     \* the watcher's run, which has a row in hand while it reports
    lostReports,
    doubled      \* history: there have been two active rows at once

updatesVars == <<schedules, now, request, watcher, lostReports, doubled>>

Schedule == 1..NumSchedules

Time == 0..Horizon

ScheduleRow == [status: {"none", "pending", "in_progress", "completed", "failed"}, at: Time]

NoSchedule == [status |-> "none", at |-> 0]

ACTIVE_STATUSES == {"pending", "in_progress"}

\* row 0: there was none.
AdminRequest == [pc: {"idle", "schedule", "cancel"}, row: 0..NumSchedules]

NoRequest == [pc |-> "idle", row |-> 0]

Watcher == [pc: {"idle", "start", "started", "apply", "done", "reported"},
            row: 0..NumSchedules, ok: BOOLEAN]

NoWatcher == [pc |-> "idle", row |-> 0, ok |-> FALSE]

UpdatesTypeOK ==
    /\ schedules \in [Schedule -> ScheduleRow]
    /\ now \in Time
    /\ request \in [Admin -> AdminRequest]
    /\ watcher \in Watcher
    /\ lostReports \in 0..MaxLostReports
    /\ doubled \in BOOLEAN

UpdatesInit ==
    /\ schedules = [r \in Schedule |-> NoSchedule]
    /\ now = 0
    /\ request = [a \in Admin |-> NoRequest]
    /\ watcher = NoWatcher
    /\ lostReports = 0
    /\ doubled = FALSE

Active(rows) == {r \in Schedule : rows[r].status \in ACTIVE_STATUSES}

\* What a query for the active row with the earliest time may return.
Earliest ==
    LET first == {r \in Active(schedules) :
                     \A q \in Active(schedules) : schedules[r].at <= schedules[q].at}
    IN IF first = {} THEN {0} ELSE first

Writes(rows) ==
    /\ schedules' = rows
    /\ doubled' = (doubled \/ Cardinality(Active(rows)) > 1)

-----------------------------------------------------------------------------
(* Administrators.                                                         *)

\* More than one active row is an error, and so is one in progress.
ReadSchedule(a) ==
    /\ request[a] = NoRequest
    /\ \/ Active(schedules) = {} /\ request' = [request EXCEPT ![a] = [pc |-> "schedule", row |-> 0]]
       \/ \E r \in Schedule :
              /\ Active(schedules) = {r} /\ schedules[r].status = "pending"
              /\ request' = [request EXCEPT ![a] = [pc |-> "schedule", row |-> r]]
    /\ UNCHANGED <<schedules, now, watcher, lostReports, doubled>>

\* A new row, or a new time for the row that was read, whatever it is by now.
CommitSchedule(a) ==
    LET r == request[a].row
    IN /\ request[a].pc = "schedule"
       /\ \E at \in now..Horizon :
              IF r # 0 THEN Writes([schedules EXCEPT ![r].at = at])
              ELSE \E new \in Schedule :
                       /\ schedules[new] = NoSchedule
                       /\ \A q \in 1..(new - 1) : schedules[q] # NoSchedule
                       /\ Writes([schedules EXCEPT ![new] = [status |-> "pending", at |-> at]])
       /\ request' = [request EXCEPT ![a] = NoRequest]
       /\ UNCHANGED <<now, watcher, lostReports>>

ReadCancelSchedule(a) ==
    /\ request[a] = NoRequest
    /\ \E r \in Active(schedules) :
           request' = [request EXCEPT ![a] = [pc |-> "cancel", row |-> r]]
    /\ UNCHANGED <<schedules, now, watcher, lostReports, doubled>>

CancelSchedule(a) ==
    /\ request[a].pc = "cancel"
    /\ Writes([schedules EXCEPT ![request[a].row].status = "failed"])
    /\ request' = [request EXCEPT ![a] = NoRequest]
    /\ UNCHANGED <<now, watcher, lostReports>>

-----------------------------------------------------------------------------
(* The watcher.                                                            *)

WatcherGoes(pc, row, ok) == watcher' = [pc |-> pc, row |-> row, ok |-> ok]

\* update_status, and the watcher's look at the clock.
UpdateStatus ==
    /\ watcher.pc = "idle"
    /\ \E r \in Earliest :
           /\ r # 0 /\ schedules[r].status = "pending" /\ schedules[r].at <= now
           /\ WatcherGoes("start", 0, FALSE)
    /\ UNCHANGED <<schedules, now, request, lostReports, doubled>>

\* Fault: the final report looks for a row that waits, like the first one.
EarliestPending ==
    LET first == {r \in Active(schedules) : schedules[r].status = "pending"}
    IN IF first = {} THEN {0} ELSE first

ReportFinds == Earliest

\* complete_update reads: the row, and nothing says that it is the one that
\* the watcher was told of.
ReadReport ==
    /\ \/ watcher.pc = "start" /\ \E r \in ReportFinds : WatcherGoes("started", r, FALSE)
       \/ watcher.pc = "done" /\ \E r \in ReportFinds : WatcherGoes("reported", r, watcher.ok)
    /\ UNCHANGED <<schedules, now, request, lostReports, doubled>>

Reports(status) ==
    IF watcher.row = 0 THEN UNCHANGED <<schedules, doubled>>
    ELSE Writes([schedules EXCEPT ![watcher.row].status = status])

CommitStarted ==
    /\ watcher.pc = "started"
    /\ Reports("in_progress")
    /\ WatcherGoes("apply", 0, FALSE)
    /\ UNCHANGED <<now, request, lostReports>>

CommitFinished ==
    /\ watcher.pc = "reported"
    /\ Reports(IF watcher.ok THEN "completed" ELSE "failed")
    /\ watcher' = NoWatcher
    /\ UNCHANGED <<now, request, lostReports>>

\* Requests that were in progress do not survive the restart, and an update
\* that fails early does not get that far.
ApplyUpdate ==
    /\ watcher.pc = "apply"
    /\ \/ \E ok \in BOOLEAN : WatcherGoes("done", 0, ok)
          /\ request' = [a \in Admin |-> NoRequest]
       \/ WatcherGoes("done", 0, FALSE) /\ UNCHANGED request
    /\ UNCHANGED <<schedules, now, lostReports, doubled>>

\* Before or after the update; an API that does not come back looks the same.
ReportLost ==
    /\ watcher.pc \in {"start", "done"}
    /\ lostReports < MaxLostReports /\ lostReports' = lostReports + 1
    /\ watcher' = IF watcher.pc = "start" THEN [watcher EXCEPT !.pc = "apply"] ELSE NoWatcher
    /\ UNCHANGED <<schedules, now, request, doubled>>

Clock ==
    /\ now < Horizon /\ now' = now + 1
    /\ UNCHANGED <<schedules, request, watcher, lostReports, doubled>>

UpdatesNext ==
    \/ \E a \in Admin : \/ ReadSchedule(a) \/ CommitSchedule(a)
                        \/ ReadCancelSchedule(a) \/ CancelSchedule(a)
    \/ UpdateStatus \/ ReadReport \/ CommitStarted \/ ApplyUpdate \/ CommitFinished
    \/ ReportLost \/ Clock

UpdatesSpec == UpdatesInit /\ [][UpdatesNext]_updatesVars

-----------------------------------------------------------------------------
(* Properties.                                                             *)

\* A row that stays in progress keeps new schedules out until somebody cancels
\* it.  With no update running that only happens when a report got lost or two
\* rows were active at once: no order of cancelling, scheduling again and
\* reporting does it (complete_update).
StuckIsExplained ==
    /\ watcher.pc = "idle"
    /\ \E r \in Schedule : schedules[r].status = "in_progress"
    => lostReports > 0 \/ doubled
=============================================================================
