----------------------------- MODULE CopierSync -----------------------------
(***************************************************************************)
(* Putting staff accounts on one copier (copiers/sync_jobs.py and the      *)
(* Konica connector, copiers/konica_bizhub.py): jobs, the run each job     *)
(* gets, the copier's single admin session, and the record of who holds    *)
(* which account.                                                          *)
(*                                                                         *)
(* The rewrite of accounts in place is not here: sync_device_users does    *)
(* not pass its rewrite parameter on, so that no run is started with it.   *)
(***************************************************************************)
EXTENDS Integers, FiniteSetsExt

CONSTANTS
    NumStaff,       \* identities, in order of staff_email
    MAX_ACCOUNTS,   \* accounts the copier has room for
    Starter,        \* the request and the loop that start jobs
    NumJobs,        \* bound: rows of copier_sync_jobs
    MaxBreaks       \* bound: connections that break, and deaths of the process

ASSUME CopierSyncAssumption ==
    {NumStaff, MAX_ACCOUNTS, NumJobs, MaxBreaks} \subseteq Nat

VARIABLES
    account,    \* the copier: who holds each account
    records,    \* copier_provisioned_accounts that are not removed
    syncJobs,   \* status of each job
    starting,   \* starters that have found no job in flight
    run,        \* what the run of each job is doing
    breaks,
    put         \* history: the accounts that PrintOps has put on the copier

copierSyncVars == <<account, records, syncJobs, starting, run, breaks, put>>

Staff == 1..NumStaff
Number == 1..MAX_ACCOUNTS
SyncJob == 1..NumJobs

Nobody == 0
ByHand == -1     \* entered at the copier by an administrator

\* plan: who is in scope and not recorded yet; used: account numbers that the
\* run takes as used; added: what it has to record when it ends.
Run == [pc: {"off", "queued", "plan", "wait", "write"}, plan: SUBSET Staff,
        used: SUBSET Number, added: SUBSET (Staff \X Number), failed: BOOLEAN]

NoRun == [pc |-> "off", plan |-> {}, used |-> {}, added |-> {}, failed |-> FALSE]

CopierSyncTypeOK ==
    /\ account \in [Number -> Staff \cup {Nobody, ByHand}]
    /\ records \subseteq Staff \X Number
    /\ syncJobs \in [SyncJob -> {"none", "pending", "running", "succeeded", "failed"}]
    /\ starting \subseteq Starter
    /\ run \in [SyncJob -> Run]
    /\ breaks \in 0..MaxBreaks
    /\ put \subseteq Staff \X Number

CopierSyncInit ==
    /\ account = [n \in Number |-> Nobody]
    /\ records = {}
    /\ syncJobs = [j \in SyncJob |-> "none"]
    /\ starting = {}
    /\ run = [j \in SyncJob |-> NoRun]
    /\ breaks = 0
    /\ put = {}

-----------------------------------------------------------------------------
(* Jobs.                                                                   *)

InFlightJobs == {j \in SyncJob : syncJobs[j] \in {"pending", "running"}}

FindNoJob(s) ==
    /\ InFlightJobs = {}
    /\ starting' = starting \cup {s}
    /\ UNCHANGED <<account, records, syncJobs, run, breaks, put>>

\* Two starters that looked at the same time both get a job.
CreateSyncJob(s) ==
    /\ s \in starting
    /\ starting' = starting \ {s}
    /\ \E j \in SyncJob :
           /\ syncJobs[j] = "none" /\ \A i \in 1..(j - 1) : syncJobs[i] # "none"
           /\ syncJobs' = [syncJobs EXCEPT ![j] = "pending"]
           /\ run' = [run EXCEPT ![j].pc = "queued"]
    /\ UNCHANGED <<account, records, breaks, put>>

BeginRun(j) ==
    /\ run[j].pc = "queued"
    /\ syncJobs' = [syncJobs EXCEPT ![j] = "running"]
    /\ run' = [run EXCEPT ![j].pc = "plan"]
    /\ UNCHANGED <<account, records, starting, breaks, put>>

\* Who is in scope follows the directory and the copier's settings.
ProvisioningPlan(j) ==
    /\ run[j].pc = "plan"
    /\ \E scope \in SUBSET Staff :
           run' = [run EXCEPT ![j].pc = "wait",
                              ![j].plan = {p \in scope : \A n \in Number : <<p, n>> \notin records}]
    /\ UNCHANGED <<account, records, syncJobs, starting, breaks, put>>

-----------------------------------------------------------------------------
(* The run, in the copier's admin session (sync_users_to_device).          *)

SessionFree == \A i \in SyncJob : run[i].pc # "write"

Taken == {n \in Number : account[n] # Nobody}

\* Fault: the accounts are listed before the session is the run's own.
ListEarly(j) ==
    /\ run[j].pc = "wait"
    /\ IF run[j].used = {} /\ Taken # {}
       THEN run' = [run EXCEPT ![j].used = Taken]
       ELSE /\ SessionFree
            /\ run' = [run EXCEPT ![j].pc = "write"]
    /\ UNCHANGED <<account, records, syncJobs, starting, breaks, put>>

OpenSession(j) ==
    /\ run[j].pc = "wait" /\ SessionFree
    /\ run' = [run EXCEPT ![j].pc = "write", ![j].used = Taken]
    /\ UNCHANGED <<account, records, syncJobs, starting, breaks, put>>

Next1(j) == Min(run[j].plan)                 \* the next identity
Free(j) == Min(Number \ run[j].used)         \* the next account number

CanWrite(j) == run[j].pc = "write" /\ run[j].plan # {} /\ run[j].used # Number

\* The copier refuses a code it has already.  What it does with a number that
\* is in use is not known: it may refuse, or give it to the new holder.
Accepts(p) == \A n \in Number : account[n] # p

AccountWritten(j) ==
    /\ CanWrite(j) /\ Accepts(Next1(j))
    /\ account' = [account EXCEPT ![Free(j)] = Next1(j)]
    /\ put' = put \cup {<<Next1(j), Free(j)>>}
    /\ run' = [run EXCEPT ![j].plan = @ \ {Next1(j)}, ![j].used = @ \cup {Free(j)},
                          ![j].added = @ \cup {<<Next1(j), Free(j)>>}]
    /\ UNCHANGED <<records, syncJobs, starting, breaks>>

\* A refusal is counted, and the run goes on.
AccountRefused(j) ==
    /\ CanWrite(j)
    /\ run' = [run EXCEPT ![j].plan = @ \ {Next1(j)}, ![j].failed = TRUE]
    /\ UNCHANGED <<account, records, syncJobs, starting, breaks, put>>

\* Done, or stopped at the copier's limit, which is no failure: what the run
\* added is recorded now.
FinishRun(j) ==
    /\ run[j].pc = "write" /\ (run[j].plan = {} \/ run[j].used = Number)
    /\ records' = records \cup run[j].added
    /\ syncJobs' = [syncJobs EXCEPT ![j] = IF run[j].failed THEN "failed" ELSE "succeeded"]
    /\ run' = [run EXCEPT ![j] = NoRun]
    /\ UNCHANGED <<account, starting, breaks, put>>

\* No session to be had, Account Track off, no password stored.
SessionRefused(j) ==
    /\ run[j].pc = "wait"
    /\ syncJobs' = [syncJobs EXCEPT ![j] = "failed"]
    /\ run' = [run EXCEPT ![j] = NoRun]
    /\ UNCHANGED <<account, records, starting, breaks, put>>

\* The connection breaks in the middle of a write, which may have been done:
\* cgi lets the error out, and the run ends without its result.
ConnectionBreaks(j) ==
    /\ CanWrite(j) /\ breaks < MaxBreaks
    /\ \/ UNCHANGED <<account, put>>
       \/ /\ Accepts(Next1(j))
          /\ account' = [account EXCEPT ![Free(j)] = Next1(j)]
          /\ put' = put \cup {<<Next1(j), Free(j)>>}
    /\ syncJobs' = [syncJobs EXCEPT ![j] = "failed"]
    /\ run' = [run EXCEPT ![j] = NoRun]
    /\ breaks' = breaks + 1
    /\ UNCHANGED <<records, starting>>

RunStep(j) ==
    \/ BeginRun(j) \/ ProvisioningPlan(j) \/ OpenSession(j) \/ SessionRefused(j)
    \/ AccountWritten(j) \/ AccountRefused(j) \/ ConnectionBreaks(j) \/ FinishRun(j)

-----------------------------------------------------------------------------
(* Everything else.                                                        *)

\* A job whose process died stays as it is: nothing looks for it.
SyncProcessDies ==
    /\ breaks < MaxBreaks /\ breaks' = breaks + 1
    /\ starting' = {}
    /\ run' = [j \in SyncJob |-> NoRun]
    /\ UNCHANGED <<account, records, syncJobs, put>>

AccountAddedByHand(n) ==
    /\ account[n] = Nobody /\ SessionFree
    /\ account' = [account EXCEPT ![n] = ByHand]
    /\ UNCHANGED <<records, syncJobs, starting, run, breaks, put>>

CopierSyncNext ==
    \/ \E s \in Starter : FindNoJob(s) \/ CreateSyncJob(s)
    \/ \E j \in SyncJob : RunStep(j)
    \/ SyncProcessDies
    \/ \E n \in Number : AccountAddedByHand(n)

CopierSyncSpec == CopierSyncInit /\ [][CopierSyncNext]_copierSyncVars

-----------------------------------------------------------------------------
(* Properties.                                                             *)

\* The record is true: nobody is recorded against an account that someone else
\* holds, so that no page is charged to the wrong person, although two jobs may
\* run for one copier (create_sync_job) and each takes the account numbers that
\* were free when it got the session.
RecordIsTrue == \A r \in records : account[r[2]] = r[1]
=============================================================================
