---------------------------- MODULE Copiers_proofs ----------------------------
(***************************************************************************)
(* Proofs about the copiers: their accounts and who has which              *)
(* (CopierSync), the logs they export (CopierImports), the counters of     *)
(* the accounts (CopierUsage), and the copies of a copier that has one     *)
(* owner (DeviceOwner), for any number of people, accounts, lines,         *)
(* requests, polls, readings and mishaps.                                  *)
(***************************************************************************)
EXTENDS CopierSync, CopierImports, CopierUsage, DeviceOwner, FiniteSetTheorems,
        WellFoundedInduction, TLAPS

-----------------------------------------------------------------------------
(***************************************************************************)
(* CopierSync. That the record is true rests on the copier's single        *)
(* admin session: who holds it knows every account that is taken           *)
(* (SessionKnows), so that no account that somebody holds is given to      *)
(* another person, and what a run has added is still so when it records    *)
(* it (AddedIsTrue).                                                       *)
(***************************************************************************)

\* One run at a time holds the admin session.
OneSession ==
    \A i, j \in SyncJob : run[i].pc = "write" /\ run[j].pc = "write" => i = j

\* Who holds the session takes every account as used that somebody holds.
SessionKnows ==
    \A j \in SyncJob : run[j].pc = "write" =>
        \A n \in Number : account[n] # Nobody => n \in run[j].used

\* What a run has added is on the copier.
AddedIsTrue ==
    \A j \in SyncJob : \A r \in run[j].added : account[r[2]] = r[1]

SyncInv == CopierSyncTypeOK /\ RecordIsTrue /\ OneSession /\ SessionKnows /\ AddedIsTrue

-----------------------------------------------------------------------------
\* A set of numbers that is not empty has a least element, which Min chooses.
LEMMA MinIsLeast ==
    ASSUME NEW S, S \subseteq Nat, S # {} PROVE Min(S) \in S
  <1>1. PICK x \in S : \A y \in S : <<y, x>> \notin OpToRel(<, Nat)
    BY NatLessThanWellFounded, WFMin
  <1>2. \A y \in S : ~(y < x)
    BY <1>1 DEF OpToRel
  <1>3. \A y \in S : x <= y
    BY <1>2
  <1> QED
    BY <1>1, <1>3 DEF Min

\* The run of a job that can write has somebody to write, and a number for them
\* that nobody holds.
LEMMA NextIsFree ==
    ASSUME SyncInv, NEW j \in SyncJob, CanWrite(j)
    PROVE  Next1(j) \in Staff /\ Free(j) \in Number /\ account[Free(j)] = Nobody
  <1>1. /\ run[j] \in Run /\ run[j].plan \subseteq Staff /\ run[j].used \subseteq Number
        /\ run[j].pc = "write" /\ run[j].plan # {} /\ run[j].used # Number
    BY DEF CanWrite, SyncInv, CopierSyncTypeOK, Run
  <1>2. Staff \subseteq Nat /\ Number \subseteq Nat
    BY CopierSyncAssumption DEF Staff, Number
  <1>3. Next1(j) \in run[j].plan
    BY <1>1, <1>2, MinIsLeast DEF Next1
  <1>4. Free(j) \in Number \ run[j].used
    BY <1>1, <1>2, MinIsLeast DEF Free
  <1> QED
    BY <1>1, <1>3, <1>4 DEF SyncInv, SessionKnows

LEMMA NoRunIsRun == NoRun \in Run /\ NoRun.pc = "off" /\ NoRun.added = {}
  BY DEF NoRun, Run

LEMMA SyncStarts == CopierSyncInit => SyncInv
  <1> SUFFICES ASSUME CopierSyncInit PROVE SyncInv
    OBVIOUS
  <1>1. run \in [SyncJob -> Run] /\ 0 \in 0..MaxBreaks
    BY NoRunIsRun, CopierSyncAssumption DEF CopierSyncInit
  <1>2. CopierSyncTypeOK
    BY <1>1 DEF CopierSyncInit, CopierSyncTypeOK
  <1>3. RecordIsTrue /\ OneSession /\ SessionKnows /\ AddedIsTrue
    BY NoRunIsRun DEF CopierSyncInit, RecordIsTrue, OneSession, SessionKnows, AddedIsTrue
  <1> QED
    BY <1>2, <1>3 DEF SyncInv

-----------------------------------------------------------------------------
\* A step that leaves the copier and the record as they are: one run changes, it
\* adds nothing to its list, and the session it holds is one that it held or that
\* was free, with every taken account in view.
LEMMA RunKeeps ==
    ASSUME SyncInv, NEW j \in SyncJob, NEW new \in Run,
           run' = [run EXCEPT ![j] = new], UNCHANGED <<account, records, put>>,
           new.added \subseteq run[j].added,
           new.pc = "write" =>
               /\ run[j].pc = "write" \/ SessionFree
               /\ \A n \in Number : account[n] # Nobody => n \in new.used,
           syncJobs' \in [SyncJob -> {"none", "pending", "running", "succeeded", "failed"}],
           starting' \subseteq Starter, breaks' \in 0..MaxBreaks
    PROVE  SyncInv'
  <1>1. run'[j] = new /\ \A i \in SyncJob \ {j} : run'[i] = run[i]
    BY DEF SyncInv, CopierSyncTypeOK
  <1>2. CopierSyncTypeOK'
    BY DEF SyncInv, CopierSyncTypeOK
  <1>3. RecordIsTrue'
    BY DEF SyncInv, RecordIsTrue
  <1>4. OneSession'
    BY <1>1 DEF SyncInv, OneSession, SessionFree
  <1>5. SessionKnows'
    BY <1>1 DEF SyncInv, SessionKnows
  <1>6. AddedIsTrue'
    BY <1>1 DEF SyncInv, AddedIsTrue
  <1> QED
    BY <1>2, <1>3, <1>4, <1>5, <1>6 DEF SyncInv

\* An account that nobody holds is given to somebody by the run that holds the
\* session, which then knows of it, or ends.
LEMMA GivenKeeps ==
    ASSUME SyncInv, NEW j \in SyncJob, CanWrite(j), NEW new \in Run,
           run' = [run EXCEPT ![j] = new],
           account' = [account EXCEPT ![Free(j)] = Next1(j)],
           put' = put \cup {<<Next1(j), Free(j)>>}, records' = records,
           new.added \subseteq run[j].added \cup {<<Next1(j), Free(j)>>},
           new.pc = "write" => new.used = run[j].used \cup {Free(j)},
           syncJobs' \in [SyncJob -> {"none", "pending", "running", "succeeded", "failed"}],
           starting' \subseteq Starter, breaks' \in 0..MaxBreaks
    PROVE  SyncInv'
  <1> DEFINE n == Free(j)
             p == Next1(j)
  <1>1. p \in Staff /\ n \in Number /\ account[n] = Nobody
    BY NextIsFree
  <1>2. run'[j] = new /\ \A i \in SyncJob \ {j} : run'[i] = run[i]
    BY DEF SyncInv, CopierSyncTypeOK
  <1>3. account'[n] = p /\ \A m \in Number \ {n} : account'[m] = account[m]
    BY <1>1 DEF SyncInv, CopierSyncTypeOK
  <1>4. CopierSyncTypeOK'
    <2>1. account' \in [Number -> Staff \cup {Nobody, ByHand}]
      BY <1>1 DEF SyncInv, CopierSyncTypeOK
    <2>2. run' \in [SyncJob -> Run]
      BY DEF SyncInv, CopierSyncTypeOK
    <2>3. put' \subseteq Staff \X Number
      BY <1>1 DEF SyncInv, CopierSyncTypeOK
    <2>4. records' \subseteq Staff \X Number
      BY DEF SyncInv, CopierSyncTypeOK
    <2> QED
      BY <2>1, <2>2, <2>3, <2>4 DEF CopierSyncTypeOK
  <1>5. Nobody \notin Staff
    BY CopierSyncAssumption DEF Nobody, Staff
  <1> HIDE DEF n, p
  <1>6. \A r \in Staff \X Number : account[r[2]] = r[1] => account'[r[2]] = r[1]
    BY <1>1, <1>3, <1>5
  <1>7. RecordIsTrue'
    BY <1>6 DEF SyncInv, CopierSyncTypeOK, RecordIsTrue
  <1>8. run[j].pc = "write"
    BY DEF CanWrite
  <1>9. OneSession'
    BY <1>2, <1>8 DEF SyncInv, OneSession
  <1>10. SessionKnows'
    <2>1. \A i \in SyncJob \ {j} : run'[i].pc # "write"
      BY <1>2, <1>8 DEF SyncInv, OneSession
    <2>2. new.pc = "write" => new.used = run[j].used \cup {n}
      BY DEF n
    <2> QED
      BY <1>2, <1>3, <1>8, <2>1, <2>2 DEF SyncInv, SessionKnows
  <1>11. AddedIsTrue'
    <2>1. \A i \in SyncJob : run[i].added \subseteq Staff \X Number
      BY DEF SyncInv, CopierSyncTypeOK, Run
    <2>2. \A r \in new.added : account'[r[2]] = r[1]
      <3>1. new.added \subseteq run[j].added \cup {<<p, n>>}
        BY DEF n, p
      <3> QED
        BY <1>3, <1>6, <2>1, <3>1 DEF SyncInv, AddedIsTrue
    <2>3. \A i \in SyncJob \ {j} : \A r \in run'[i].added : account'[r[2]] = r[1]
      BY <1>2, <1>6, <2>1 DEF SyncInv, AddedIsTrue
    <2> QED
      BY <1>2, <2>2, <2>3 DEF AddedIsTrue
  <1> QED
    BY <1>4, <1>7, <1>9, <1>10, <1>11 DEF SyncInv

-----------------------------------------------------------------------------
LEMMA JobKeeps ==
    ASSUME SyncInv, NEW s \in Starter, FindNoJob(s) \/ CreateSyncJob(s) PROVE SyncInv'
  <1>1. CASE FindNoJob(s)
    BY <1>1 DEF FindNoJob, SyncInv, CopierSyncTypeOK, RecordIsTrue, OneSession, SessionKnows,
                AddedIsTrue
  <1>2. CASE CreateSyncJob(s)
    <2>1. PICK j \in SyncJob : /\ syncJobs' = [syncJobs EXCEPT ![j] = "pending"]
                               /\ run' = [run EXCEPT ![j].pc = "queued"]
      BY <1>2 DEF CreateSyncJob
    <2> DEFINE new == [run[j] EXCEPT !.pc = "queued"]
    <2>2. run[j] \in Run
      BY DEF SyncInv, CopierSyncTypeOK
    <2>3. new \in Run /\ new.pc = "queued" /\ new.added = run[j].added
      BY <2>2 DEF Run
    <2>4. run' = [run EXCEPT ![j] = new]
      BY <2>1 DEF SyncInv, CopierSyncTypeOK
    <2>5. /\ syncJobs' \in [SyncJob -> {"none", "pending", "running", "succeeded", "failed"}]
          /\ starting' \subseteq Starter /\ breaks' \in 0..MaxBreaks
          /\ UNCHANGED <<account, records, put>>
      BY <1>2, <2>1 DEF CreateSyncJob, SyncInv, CopierSyncTypeOK
    <2> HIDE DEF new
    <2> QED
      BY <2>3, <2>4, <2>5, RunKeeps
  <1> QED
    BY <1>1, <1>2

LEMMA StartRunKeeps ==
    ASSUME SyncInv, NEW j \in SyncJob,
           BeginRun(j) \/ ProvisioningPlan(j) \/ OpenSession(j) \/ SessionRefused(j)
    PROVE  SyncInv'
  <1> DEFINE States == {"none", "pending", "running", "succeeded", "failed"}
  <1>0. /\ run[j] \in Run /\ run \in [SyncJob -> Run]
        /\ syncJobs \in [SyncJob -> States] /\ starting \subseteq Starter
        /\ breaks \in 0..MaxBreaks
    BY DEF SyncInv, CopierSyncTypeOK
  <1>1. CASE BeginRun(j)
    <2> DEFINE new == [run[j] EXCEPT !.pc = "plan"]
    <2>1. new \in Run /\ new.pc = "plan" /\ new.added = run[j].added
      BY <1>0 DEF Run
    <2>2. run' = [run EXCEPT ![j] = new]
      BY <1>0, <1>1 DEF BeginRun
    <2>3. /\ syncJobs' \in [SyncJob -> States] /\ starting' \subseteq Starter
          /\ breaks' \in 0..MaxBreaks /\ UNCHANGED <<account, records, put>>
      BY <1>0, <1>1 DEF BeginRun
    <2> HIDE DEF new
    <2> QED
      BY <2>1, <2>2, <2>3, RunKeeps
  <1>2. CASE ProvisioningPlan(j)
    <2>1. PICK scope \in SUBSET Staff :
              run' = [run EXCEPT ![j].pc = "wait",
                                 ![j].plan = {p \in scope : \A n \in Number : <<p, n>> \notin records}]
      BY <1>2 DEF ProvisioningPlan
    <2> DEFINE plan == {p \in scope : \A n \in Number : <<p, n>> \notin records}
               new == [run[j] EXCEPT !.pc = "wait", !.plan = plan]
    <2>2. run' = [run EXCEPT ![j] = new]
      BY <1>0, <2>1
    <2>3. plan \subseteq Staff
      OBVIOUS
    <2> HIDE DEF plan
    <2>4. new \in Run /\ new.pc = "wait" /\ new.added = run[j].added
      BY <1>0, <2>3 DEF Run
    <2>5. /\ syncJobs' \in [SyncJob -> States] /\ starting' \subseteq Starter
          /\ breaks' \in 0..MaxBreaks /\ UNCHANGED <<account, records, put>>
      BY <1>0, <1>2 DEF ProvisioningPlan
    <2> HIDE DEF new
    <2> QED
      BY <2>2, <2>4, <2>5, RunKeeps
  <1>3. CASE OpenSession(j)
    <2> DEFINE new == [run[j] EXCEPT !.pc = "write", !.used = Taken]
    <2>1. Taken \subseteq Number
      BY DEF Taken
    <2>2. new \in Run /\ new.pc = "write" /\ new.added = run[j].added /\ new.used = Taken
      BY <1>0, <2>1 DEF Run
    <2>3. run' = [run EXCEPT ![j] = new] /\ SessionFree
      BY <1>0, <1>3 DEF OpenSession
    <2>4. /\ syncJobs' \in [SyncJob -> States] /\ starting' \subseteq Starter
          /\ breaks' \in 0..MaxBreaks /\ UNCHANGED <<account, records, put>>
      BY <1>0, <1>3 DEF OpenSession
    <2>5. \A n \in Number : account[n] # Nobody => n \in new.used
      BY <2>2 DEF Taken
    <2> HIDE DEF new
    <2> QED
      BY <2>2, <2>3, <2>4, <2>5, RunKeeps
  <1>4. CASE SessionRefused(j)
    <2>1. run' = [run EXCEPT ![j] = NoRun] /\ UNCHANGED <<account, records, put>>
      BY <1>4 DEF SessionRefused
    <2>2. /\ syncJobs' \in [SyncJob -> States] /\ starting' \subseteq Starter
          /\ breaks' \in 0..MaxBreaks
      BY <1>0, <1>4 DEF SessionRefused
    <2> QED
      BY <2>1, <2>2, NoRunIsRun, RunKeeps
  <1> QED
    BY <1>1, <1>2, <1>3, <1>4

LEMMA WriteKeeps ==
    ASSUME SyncInv, NEW j \in SyncJob, AccountWritten(j) \/ AccountRefused(j) PROVE SyncInv'
  <1> DEFINE States == {"none", "pending", "running", "succeeded", "failed"}
  <1>0. /\ run[j] \in Run /\ run \in [SyncJob -> Run]
        /\ syncJobs \in [SyncJob -> States] /\ starting \subseteq Starter
        /\ breaks \in 0..MaxBreaks
    BY DEF SyncInv, CopierSyncTypeOK
  <1>1. CASE AccountWritten(j)
    <2> DEFINE p == Next1(j)
               n == Free(j)
               new == [run[j] EXCEPT !.plan = @ \ {p}, !.used = @ \cup {n},
                                     !.added = @ \cup {<<p, n>>}]
    <2>1. CanWrite(j) /\ p \in Staff /\ n \in Number
      BY <1>1, NextIsFree DEF AccountWritten
    <2>2. run' = [run EXCEPT ![j] = new]
      BY <1>0, <1>1 DEF AccountWritten
    <2>3. /\ account' = [account EXCEPT ![n] = p] /\ put' = put \cup {<<p, n>>}
          /\ UNCHANGED <<records, syncJobs, starting, breaks>>
      BY <1>1 DEF AccountWritten
    <2> HIDE DEF p, n
    <2>4. /\ new \in Run
          /\ new.added = run[j].added \cup {<<p, n>>} /\ new.used = run[j].used \cup {n}
      <3> DEFINE plan == run[j].plan \ {p}
                 used == run[j].used \cup {n}
                 added == run[j].added \cup {<<p, n>>}
      <3>1. plan \in SUBSET Staff /\ used \in SUBSET Number
        BY <1>0, <2>1 DEF Run
      <3>2. added \in SUBSET (Staff \X Number)
        BY <1>0, <2>1 DEF Run
      <3>3. new = [run[j] EXCEPT !.plan = plan, !.used = used, !.added = added]
        OBVIOUS
      <3> HIDE DEF plan, used, added, new
      <3>4. new \in Run /\ new.added = added /\ new.used = used
        BY <1>0, <3>1, <3>2, <3>3 DEF Run
      <3> QED
        BY <3>4 DEF added, used
    <2> HIDE DEF new
    <2> QED
      BY <1>0, <2>1, <2>2, <2>3, <2>4, GivenKeeps DEF p, n
  <1>2. CASE AccountRefused(j)
    <2> DEFINE p == Next1(j)
               new == [run[j] EXCEPT !.plan = @ \ {p}, !.failed = TRUE]
    <2>1. run' = [run EXCEPT ![j] = new] /\ run[j].pc = "write"
      BY <1>0, <1>2 DEF AccountRefused, CanWrite
    <2> HIDE DEF p
    <2>2. new \in Run /\ new.added = run[j].added /\ new.used = run[j].used
      BY <1>0 DEF Run
    <2>3. \A n \in Number : account[n] # Nobody => n \in new.used
      BY <2>1, <2>2 DEF SyncInv, SessionKnows
    <2>4. UNCHANGED <<account, records, put, syncJobs, starting, breaks>>
      BY <1>2 DEF AccountRefused
    <2> HIDE DEF new
    <2> QED
      BY <1>0, <2>1, <2>2, <2>3, <2>4, RunKeeps
  <1> QED
    BY <1>1, <1>2

LEMMA FinishKeeps == ASSUME SyncInv, NEW j \in SyncJob, FinishRun(j) PROVE SyncInv'
  <1>1. /\ run[j] \in Run /\ run[j].added \subseteq Staff \X Number
        /\ records' = records \cup run[j].added /\ run' = [run EXCEPT ![j] = NoRun]
        /\ UNCHANGED <<account, starting, breaks, put>>
    BY DEF FinishRun, SyncInv, CopierSyncTypeOK, Run
  <1>2. syncJobs' \in [SyncJob -> {"none", "pending", "running", "succeeded", "failed"}]
    BY DEF FinishRun, SyncInv, CopierSyncTypeOK
  <1>3. CopierSyncTypeOK'
    BY <1>1, <1>2, NoRunIsRun DEF SyncInv, CopierSyncTypeOK
  <1>4. RecordIsTrue'
    BY <1>1 DEF SyncInv, RecordIsTrue, AddedIsTrue
  <1>5. run'[j] = NoRun /\ \A i \in SyncJob \ {j} : run'[i] = run[i]
    BY <1>1 DEF SyncInv, CopierSyncTypeOK
  <1>6. OneSession' /\ SessionKnows' /\ AddedIsTrue'
    BY <1>1, <1>5, NoRunIsRun DEF SyncInv, OneSession, SessionKnows, AddedIsTrue
  <1> QED
    BY <1>3, <1>4, <1>6 DEF SyncInv

LEMMA BreakKeeps == ASSUME SyncInv, NEW j \in SyncJob, ConnectionBreaks(j) PROVE SyncInv'
  <1>1. /\ run' = [run EXCEPT ![j] = NoRun] /\ CanWrite(j)
        /\ UNCHANGED <<records, starting>>
        /\ syncJobs' = [syncJobs EXCEPT ![j] = "failed"]
    BY DEF ConnectionBreaks
  <1>2. breaks' \in 0..MaxBreaks
    BY CopierSyncAssumption DEF ConnectionBreaks, SyncInv, CopierSyncTypeOK
  <1>3. /\ syncJobs' \in [SyncJob -> {"none", "pending", "running", "succeeded", "failed"}]
        /\ starting' \subseteq Starter
    BY <1>1 DEF SyncInv, CopierSyncTypeOK
  <1>4. CASE UNCHANGED <<account, put>>
    BY <1>1, <1>2, <1>3, <1>4, NoRunIsRun, RunKeeps
  <1>5. CASE /\ account' = [account EXCEPT ![Free(j)] = Next1(j)]
             /\ put' = put \cup {<<Next1(j), Free(j)>>}
    BY <1>1, <1>2, <1>3, <1>5, NoRunIsRun, GivenKeeps
  <1> QED
    BY <1>4, <1>5 DEF ConnectionBreaks

LEMMA ElseKeeps ==
    ASSUME SyncInv, SyncProcessDies \/ \E n \in Number : AccountAddedByHand(n) PROVE SyncInv'
  <1>1. CASE SyncProcessDies
    <2>1. breaks' \in 0..MaxBreaks /\ starting' = {}
      BY <1>1, CopierSyncAssumption DEF SyncProcessDies, SyncInv, CopierSyncTypeOK
    <2>2. run' = [j \in SyncJob |-> NoRun] /\ UNCHANGED <<account, records, syncJobs, put>>
      BY <1>1 DEF SyncProcessDies
    <2>3. CopierSyncTypeOK'
      BY <2>1, <2>2, NoRunIsRun DEF SyncInv, CopierSyncTypeOK
    <2> QED
      BY <2>2, <2>3, NoRunIsRun DEF SyncInv, RecordIsTrue, OneSession, SessionKnows, AddedIsTrue
  <1>2. CASE \E n \in Number : AccountAddedByHand(n)
    <2>1. PICK n \in Number : AccountAddedByHand(n)
      BY <1>2
    <2>2. /\ account[n] = Nobody /\ SessionFree
          /\ account' = [account EXCEPT ![n] = ByHand]
          /\ UNCHANGED <<records, syncJobs, starting, run, breaks, put>>
      BY <2>1 DEF AccountAddedByHand
    <2>3. CopierSyncTypeOK'
      BY <2>2 DEF SyncInv, CopierSyncTypeOK
    <2>4. \A r \in Staff \X Number : account[r[2]] = r[1] => account'[r[2]] = r[1]
      <3>1. Nobody \notin Staff
        BY CopierSyncAssumption DEF Nobody, Staff
      <3> QED
        BY <2>2, <3>1 DEF SyncInv, CopierSyncTypeOK
    <2>5. RecordIsTrue'
      BY <2>2, <2>4 DEF SyncInv, CopierSyncTypeOK, RecordIsTrue
    <2>6. AddedIsTrue'
      <3>1. \A i \in SyncJob : run[i].added \subseteq Staff \X Number
        BY DEF SyncInv, CopierSyncTypeOK, Run
      <3> QED
        BY <2>2, <2>4, <3>1 DEF SyncInv, AddedIsTrue
    <2>7. OneSession' /\ SessionKnows'
      BY <2>2 DEF SyncInv, OneSession, SessionKnows, SessionFree
    <2> QED
      BY <2>3, <2>5, <2>6, <2>7 DEF SyncInv
  <1> QED
    BY <1>1, <1>2

LEMMA SyncIsKept == ASSUME SyncInv, [CopierSyncNext]_copierSyncVars PROVE SyncInv'
  <1>1. CASE \E s \in Starter : FindNoJob(s) \/ CreateSyncJob(s)
    BY <1>1, JobKeeps
  <1>2. CASE \E j \in SyncJob : RunStep(j)
    BY <1>2, StartRunKeeps, WriteKeeps, FinishKeeps, BreakKeeps DEF RunStep
  <1>3. CASE SyncProcessDies \/ \E n \in Number : AccountAddedByHand(n)
    BY <1>3, ElseKeeps
  <1>4. CASE UNCHANGED copierSyncVars
    BY <1>4 DEF copierSyncVars, SyncInv, CopierSyncTypeOK, RecordIsTrue, OneSession,
                SessionKnows, AddedIsTrue
  <1> QED
    BY <1>1, <1>2, <1>3, <1>4 DEF CopierSyncNext

-----------------------------------------------------------------------------
\* Every variable of CopierSync keeps its type, and the invariant holds
\* (run_sync_job, sync_users_to_device).
THEOREM SyncInvHolds == CopierSyncSpec => []SyncInv
  <1>1. CopierSyncInit => SyncInv
    BY SyncStarts
  <1>2. SyncInv /\ [CopierSyncNext]_copierSyncVars => SyncInv'
    BY SyncIsKept
  <1> QED
    BY <1>1, <1>2, PTL DEF CopierSyncSpec

\* Nobody is recorded against an account that someone else holds, however many
\* jobs are started at once and wherever they are cut off (create_sync_job).
THEOREM RecordStaysTrue == CopierSyncSpec => []RecordIsTrue
  <1>1. SyncInv => RecordIsTrue
    BY DEF SyncInv
  <1> QED
    BY <1>1, SyncInvHolds, PTL

-----------------------------------------------------------------------------
(***************************************************************************)
(* CopierImports. A line is counted once because of what is true of a      *)
(* commit between its look at the records and its write: what it is        *)
(* about to record was not recorded (PendingIsNew), and no other commit    *)
(* is about to record it too (PendingIsSole), lines in repeated aside.     *)
(***************************************************************************)

\* s has looked for l, and will record it.
Pending(s, l) ==
    importing[s].pc = "write" /\ importing[s].op = "commit" /\ l \in importing[s].new

PendingIsNew ==
    \A l \in Line \ repeated, s \in ImportSession : Pending(s, l) => usage[l] = 0

PendingIsSole ==
    \A l \in Line \ repeated, s, t \in ImportSession :
        Pending(s, l) /\ Pending(t, l) => s = t

ImportsInv == CopierImportsTypeOK /\ CountedOncePerLine /\ PendingIsNew /\ PendingIsSole

-----------------------------------------------------------------------------
LEMMA IdleIsImport ==
    ASSUME NEW b \in Batch
    PROVE  IdleImport \in ImportState /\ IdleImport.pc = "idle"
  BY DEF IdleImport, ImportState

\* The count of a line goes up by one, and stays at two.
LEMMA NextCount ==
    ASSUME NEW n \in 0..2
    PROVE  Min({n + 1, 2}) \in 0..2 /\ (n = 0 => Min({n + 1, 2}) = 1)
  <1>1. CASE n = 2
    <2>1. Min({3, 2}) = 2
      BY DEF Min
    <2> QED
      BY <1>1, <2>1
  <1>2. CASE n = 1
    <2>1. Min({2, 2}) = 2
      BY DEF Min
    <2> QED
      BY <1>2, <2>1
  <1>3. CASE n = 0
    <2>1. Min({1, 2}) = 1
      BY DEF Min
    <2> QED
      BY <1>3, <2>1
  <1> QED
    BY <1>1, <1>2, <1>3

LEMMA ImportsStart == CopierImportsInit /\ Batch # {} => ImportsInv
  <1> SUFFICES ASSUME CopierImportsInit, Batch # {} PROVE ImportsInv
    OBVIOUS
  <1>1. importing \in [ImportSession -> ImportState]
    BY IdleIsImport DEF CopierImportsInit
  <1>2. batches \in [Batch -> BatchRow]
    BY DEF CopierImportsInit, NoBatch, BatchRow
  <1>3. usage \in [Line -> 0..2] /\ forced \in 0..MaxForced
    BY CopierImportsAssumption DEF CopierImportsInit
  <1>4. CopierImportsTypeOK
    BY <1>1, <1>2, <1>3 DEF CopierImportsInit, CopierImportsTypeOK
  <1>5. \A s \in ImportSession : importing[s].pc = "idle"
    BY IdleIsImport DEF CopierImportsInit
  <1>6. CountedOncePerLine
    BY DEF CopierImportsInit, CountedOncePerLine
  <1>7. PendingIsNew /\ PendingIsSole
    BY <1>5 DEF PendingIsNew, PendingIsSole, Pending
  <1> QED
    BY <1>4, <1>6, <1>7 DEF ImportsInv

-----------------------------------------------------------------------------
\* A step after which no request is about to record more than before, and no
\* line has more records.
LEMMA NothingRecorded ==
    ASSUME ImportsInv, CopierImportsTypeOK', usage' = usage, repeated' = repeated,
           \A s \in ImportSession, l \in Line : Pending(s, l)' => Pending(s, l)
    PROVE  ImportsInv'
  <1>1. CountedOncePerLine'
    BY DEF ImportsInv, CountedOncePerLine
  <1>2. PendingIsNew' /\ PendingIsSole'
    BY DEF ImportsInv, PendingIsNew, PendingIsSole
  <1> QED
    BY <1>1, <1>2 DEF ImportsInv

\* The request of s is over.
LEMMA DoneKeeps ==
    ASSUME ImportsInv, Batch # {}, NEW s \in ImportSession, Done(s),
           batches' \in [Batch -> BatchRow],
           UNCHANGED <<spooled, usage, forced, repeated>>
    PROVE  ImportsInv'
  <1>1. IdleImport \in ImportState /\ IdleImport.pc = "idle"
    BY IdleIsImport
  <1>2. CopierImportsTypeOK'
    BY <1>1 DEF Done, ImportsInv, CopierImportsTypeOK
  <1>3. /\ importing'[s] = IdleImport
        /\ \A t \in ImportSession \ {s} : importing'[t] = importing[t]
    BY DEF Done, ImportsInv, CopierImportsTypeOK
  <1>4. \A t \in ImportSession, l \in Line : Pending(t, l)' => Pending(t, l)
    BY <1>1, <1>3 DEF Pending
  <1> QED
    BY <1>2, <1>4, NothingRecorded

LEMMA UploadKeeps == ASSUME ImportsInv, NEW b \in Batch, UploadImportFile(b) PROVE ImportsInv'
  <1>1. PICK lines \in SUBSET Line :
            batches' = [batches EXCEPT ![b] = [status |-> "uploaded", lines |-> lines]]
    BY DEF UploadImportFile
  <1>2. spooled' = spooled \cup {b} /\ UNCHANGED <<importing, usage, forced, repeated>>
    BY DEF UploadImportFile
  <1>3. batches' \in [Batch -> BatchRow]
    BY <1>1 DEF ImportsInv, CopierImportsTypeOK, BatchRow
  <1>4. CopierImportsTypeOK'
    BY <1>2, <1>3 DEF ImportsInv, CopierImportsTypeOK
  <1> QED
    BY <1>2, <1>4, NothingRecorded DEF Pending

LEMMA OpenKeeps ==
    ASSUME ImportsInv, NEW s \in ImportSession, NEW b \in Batch,
           NEW op \in {"preview", "commit", "delete"}, OpenBatch(s, b, op)
    PROVE  ImportsInv'
  <1>1. PICK force \in BOOLEAN :
            /\ force => op = "commit" /\ forced < MaxForced
            /\ forced' = forced + (IF force THEN 1 ELSE 0)
            /\ importing' = [importing EXCEPT ![s] =
                   [pc |-> IF op = "delete" THEN "write" ELSE "parse", op |-> op, batch |-> b,
                    loaded |-> batches[b].status, new |-> {}, force |-> force]]
    BY DEF OpenBatch
  <1> DEFINE new == [pc |-> IF op = "delete" THEN "write" ELSE "parse", op |-> op,
                     batch |-> b, loaded |-> batches[b].status, new |-> {}, force |-> force]
  <1>2. batches[b].status \in {"uploaded", "previewed"}
    BY DEF OpenBatch
  <1>3. new \in ImportState /\ new.new = {}
    BY <1>2 DEF ImportState
  <1>4. importing' = [importing EXCEPT ![s] = new]
    BY <1>1
  <1> HIDE DEF new
  <1>5. forced' \in 0..MaxForced
    BY <1>1, CopierImportsAssumption DEF ImportsInv, CopierImportsTypeOK
  <1>6. spooled' \subseteq Batch /\ UNCHANGED <<batches, usage, repeated>>
    BY DEF OpenBatch, ImportsInv, CopierImportsTypeOK
  <1>7. CopierImportsTypeOK'
    BY <1>3, <1>4, <1>5, <1>6 DEF ImportsInv, CopierImportsTypeOK
  <1>8. \A t \in ImportSession, l \in Line : Pending(t, l)' => Pending(t, l)
    BY <1>3, <1>4 DEF Pending, ImportsInv, CopierImportsTypeOK
  <1> QED
    BY <1>6, <1>7, <1>8, NothingRecorded

-----------------------------------------------------------------------------
\* A request looks for what is new, and lines that another is about to record are
\* counted among those that may repeat.
LEMMA ParseKeeps == ASSUME ImportsInv, NEW s \in ImportSession, ParseBatch(s) PROVE ImportsInv'
  <1> DEFINE new == NewLines(s)
             rivals == CommitsOf(ImportSession \ {s})
  <1>1. /\ importing[s] \in ImportState /\ importing[s].batch \in Batch
        /\ importing' = [importing EXCEPT ![s].pc = "write", ![s].new = new]
        /\ UNCHANGED <<batches, spooled, usage, forced>>
        /\ repeated' = repeated \cup (new \cap UNION {importing[t].new : t \in rivals})
                               \cup (IF importing[s].force THEN new \cap Recorded ELSE {})
    BY DEF ParseBatch, ImportsInv, CopierImportsTypeOK, ImportState
  <1>2. new \subseteq Line
    BY <1>1 DEF NewLines, ImportsInv, CopierImportsTypeOK, BatchRow
  <1>3. \A l \in new : l \in Recorded => importing[s].force
    BY DEF NewLines
  <1> HIDE DEF new
  <1>4. repeated' \subseteq Line /\ repeated \subseteq repeated'
    BY <1>1, <1>2 DEF ImportsInv, CopierImportsTypeOK
  <1>5. /\ importing'[s].op = importing[s].op /\ importing'[s].new = new
        /\ \A t \in ImportSession \ {s} : importing'[t] = importing[t]
    BY <1>1 DEF ImportsInv, CopierImportsTypeOK, ImportState
  <1>6. CopierImportsTypeOK'
    <2>1. importing' \in [ImportSession -> ImportState]
      BY <1>1, <1>2 DEF ImportsInv, CopierImportsTypeOK, ImportState
    <2> QED
      BY <1>1, <1>4, <2>1 DEF ImportsInv, CopierImportsTypeOK
  <1>7. CountedOncePerLine'
    BY <1>1, <1>4 DEF ImportsInv, CountedOncePerLine
  <1>8. \A t \in ImportSession \ {s}, l \in Line : Pending(t, l)' <=> Pending(t, l)
    BY <1>5 DEF Pending
  <1>9. PendingIsNew'
    <2>1. ASSUME NEW l \in Line \ repeated', l \in new PROVE usage[l] = 0
      <3>1. l \notin Recorded
        BY <1>1, <1>3, <2>1
      <3> QED
        BY <3>1 DEF Recorded, ImportsInv, CopierImportsTypeOK
    <2>2. ASSUME NEW l \in Line \ repeated', NEW t \in ImportSession, Pending(t, l)'
          PROVE  usage'[l] = 0
      <3>1. CASE t = s
        BY <1>1, <1>5, <2>1, <2>2, <3>1 DEF Pending
      <3>2. CASE t # s
        BY <1>1, <1>4, <1>8, <2>2, <3>2 DEF ImportsInv, PendingIsNew
      <3> QED
        BY <3>1, <3>2
    <2> QED
      BY <2>2 DEF PendingIsNew
  <1>10. PendingIsSole'
    <2>1. ASSUME NEW l \in Line \ repeated', NEW t \in ImportSession \ {s}, Pending(t, l)
          PROVE  l \notin new
      <3>1. t \in rivals
        BY <2>1 DEF CommitsOf, Pending
      <3> QED
        BY <1>1, <2>1, <3>1 DEF Pending
    <2>2. ASSUME NEW l \in Line \ repeated', NEW t \in ImportSession, NEW u \in ImportSession,
                 Pending(t, l)', Pending(u, l)', t # u
          PROVE  FALSE
      <3>1. CASE t # s /\ u # s
        BY <1>4, <1>8, <2>2, <3>1 DEF ImportsInv, PendingIsSole
      <3>2. CASE t = s
        BY <1>5, <1>8, <2>1, <2>2, <3>2 DEF Pending
      <3>3. CASE u = s
        BY <1>5, <1>8, <2>1, <2>2, <3>3 DEF Pending
      <3> QED
        BY <3>1, <3>2, <3>3
    <2> QED
      BY <2>2 DEF PendingIsSole
  <1> QED
    BY <1>6, <1>7, <1>9, <1>10 DEF ImportsInv

\* A commit records what was not recorded and what nobody else will.
LEMMA CommitBatchKeeps ==
    ASSUME ImportsInv, Batch # {}, NEW s \in ImportSession, CommitImportBatch(s) PROVE ImportsInv'
  <1> DEFINE new == importing[s].new
  <1>1. /\ importing[s].pc = "write" /\ importing[s].op = "commit"
        /\ importing[s] \in ImportState /\ Done(s)
        /\ usage' = [l \in Line |-> IF l \in new THEN Min({usage[l] + 1, 2}) ELSE usage[l]]
        /\ UNCHANGED <<spooled, forced, repeated>>
    BY DEF CommitImportBatch, ImportsInv, CopierImportsTypeOK
  <1>2. IdleImport \in ImportState /\ IdleImport.pc = "idle"
    BY IdleIsImport
  <1>3. /\ importing'[s] = IdleImport
        /\ \A t \in ImportSession \ {s} : importing'[t] = importing[t]
    BY <1>1 DEF Done, ImportsInv, CopierImportsTypeOK
  <1>4. CopierImportsTypeOK'
    <2>1. batches' \in [Batch -> BatchRow]
      <3> DEFINE b == importing[s].batch
                 row == [batches[b] EXCEPT !.status = "committed"]
      <3>1. batches \in [Batch -> BatchRow] /\ b \in Batch
        BY <1>1 DEF ImportsInv, CopierImportsTypeOK, ImportState
      <3>2. row \in BatchRow
        BY <3>1 DEF BatchRow
      <3>3. batches' = [batches EXCEPT ![b] = row]
        BY DEF CommitImportBatch
      <3> HIDE DEF b, row
      <3> QED BY <3>1, <3>2, <3>3
    <2>2. importing' \in [ImportSession -> ImportState]
      BY <1>1, <1>2 DEF Done, ImportsInv, CopierImportsTypeOK
    <2>3. usage' \in [Line -> 0..2]
      BY <1>1, NextCount DEF ImportsInv, CopierImportsTypeOK
    <2> QED
      BY <1>1, <2>1, <2>2, <2>3 DEF ImportsInv, CopierImportsTypeOK
  <1>5. \A l \in new \ repeated : l \in Line => usage[l] = 0
    BY <1>1 DEF ImportsInv, PendingIsNew, Pending
  <1>6. CountedOncePerLine'
    <2>1. ASSUME NEW l \in Line \ repeated PROVE usage'[l] <= 1
      <3>1. CASE l \in new
        <4>1. usage'[l] = 1
          BY <1>1, <1>5, <3>1, NextCount
        <4> QED
          BY <4>1
      <3>2. CASE l \notin new
        BY <1>1, <3>2 DEF ImportsInv, CountedOncePerLine
      <3> QED
        BY <3>1, <3>2
    <2> QED
      BY <1>1, <2>1 DEF CountedOncePerLine
  <1>7. \A t \in ImportSession, l \in Line : Pending(t, l)' => t # s /\ Pending(t, l)
    BY <1>2, <1>3 DEF Pending
  <1>8. PendingIsNew'
    <2>1. ASSUME NEW l \in Line \ repeated, NEW t \in ImportSession, Pending(t, l)'
          PROVE  usage'[l] = 0
      <3>1. t # s /\ Pending(t, l)
        BY <1>7, <2>1
      <3>2. l \notin new
        BY <1>1, <3>1 DEF ImportsInv, PendingIsSole, Pending
      <3> QED
        BY <1>1, <3>1, <3>2 DEF ImportsInv, PendingIsNew
    <2> QED
      BY <1>1, <2>1 DEF PendingIsNew
  <1>9. PendingIsSole'
    BY <1>1, <1>7 DEF ImportsInv, PendingIsSole
  <1> QED
    BY <1>4, <1>6, <1>8, <1>9 DEF ImportsInv

LEMMA ImportsAreKept ==
    ASSUME ImportsInv, Batch # {}, [CopierImportsNext]_copierImportsVars PROVE ImportsInv'
  <1>1. CASE \E b \in Batch : UploadImportFile(b)
    BY <1>1, UploadKeeps
  <1>2. CASE \E s \in ImportSession, b \in Batch, op \in {"preview", "commit", "delete"} :
                 OpenBatch(s, b, op)
    BY <1>2, OpenKeeps
  <1>3. CASE \E s \in ImportSession : ParseBatch(s)
    BY <1>3, ParseKeeps
  <1>4. CASE \E s \in ImportSession : PreviewImportBatch(s)
    <2>1. PICK s \in ImportSession : PreviewImportBatch(s)
      BY <1>4
    <2>2. batches' \in [Batch -> BatchRow]
      <3>1. batches \in [Batch -> BatchRow]
        BY DEF ImportsInv, CopierImportsTypeOK
      <3>2. \A b \in Batch : [batches[b] EXCEPT !.status = "previewed"] \in BatchRow
        BY <3>1 DEF BatchRow
      <3>3. \/ batches' = batches
            \/ LET b == importing[s].batch
               IN  batches' = [batches EXCEPT ![b] = [batches[b] EXCEPT !.status = "previewed"]]
        BY <2>1 DEF PreviewImportBatch
      <3> QED
        BY <3>1, <3>2, <3>3
    <2> QED
      BY <2>1, <2>2, DoneKeeps DEF PreviewImportBatch
  <1>5. CASE \E s \in ImportSession : CommitImportBatch(s)
    BY <1>5, CommitBatchKeeps
  <1>6. CASE \E s \in ImportSession : DeleteImportBatch(s)
    <2>1. PICK s \in ImportSession : DeleteImportBatch(s)
      BY <1>6
    <2>2. batches' \in [Batch -> BatchRow]
      BY <2>1 DEF DeleteImportBatch, ImportsInv, CopierImportsTypeOK, BatchRow
    <2> QED
      BY <2>1, <2>2, DoneKeeps DEF DeleteImportBatch
  <1>7. CASE \E s \in ImportSession : ImportFails(s)
    BY <1>7, DoneKeeps DEF ImportFails, ImportsInv, CopierImportsTypeOK
  <1>8. CASE UNCHANGED copierImportsVars
    BY <1>8 DEF copierImportsVars, ImportsInv, CopierImportsTypeOK, CountedOncePerLine,
                PendingIsNew, PendingIsSole, Pending
  <1> QED
    BY <1>1, <1>2, <1>3, <1>4, <1>5, <1>6, <1>7, <1>8 DEF CopierImportsNext

-----------------------------------------------------------------------------
\* Every variable of CopierImports keeps its type, and the invariant holds
\* (preview_import_batch, commit_import_batch).
THEOREM ImportsInvHolds ==
    ASSUME Batch # {} PROVE CopierImportsSpec => []ImportsInv
  <1>1. CopierImportsInit => ImportsInv
    BY ImportsStart
  <1>2. ImportsInv /\ [CopierImportsNext]_copierImportsVars => ImportsInv'
    BY ImportsAreKept
  <1> QED
    BY <1>1, <1>2, PTL DEF CopierImportsSpec

\* What a copier logged is counted once, in however many files it is and however
\* many requests are at work on them, but for lines that two commits look for at
\* one time and duplicates that are asked for (commit_import_batch).
THEOREM CountedOnceHolds ==
    ASSUME Batch # {} PROVE CopierImportsSpec => []CountedOncePerLine
  <1>1. ImportsInv => CountedOncePerLine
    BY DEF ImportsInv
  <1> QED
    BY <1>1, ImportsInvHolds, PTL

-----------------------------------------------------------------------------
(***************************************************************************)
(* CopierUsage. All that was read is charged because a poll charges no     *)
(* less than what separates the readings it loaded from those it leaves    *)
(* (ChargedAsRead). That no more is charged than was made rests on a       *)
(* margin: what is charged, and what the polls at work and the next        *)
(* reading may add to it, is at most what was made (Margin), as long as    *)
(* no two polls are at work at once.                                       *)
(***************************************************************************)

\* What the next poll will charge on an account that was read as x.
Due(x, total) == IF total = Absent THEN 0 ELSE DiffCounters(x, total)

\* The account was last read as x, or as nothing.
LastRead(n, x) ==
    \/ \E r \in readings : r.account = n /\ r.pages = x
    \/ x = 0 /\ \A r \in readings : r.account # n

CounterIsMade == \A n \in Account : counter[n] <= made[n]

\* What was read is charged, also what a poll that is at work has found.
ChargedAsRead ==
    \A n \in Account \ inexact :
        /\ \A r \in readings : r.account = n => charged[n] >= r.pages
        /\ \A p \in Poll : \A r \in poll[p].previous :
              r.account = n => charged[n] >= r.pages

\* One poll at a time looks at its readings ...
OnePoll == \A p, q \in Poll : AtWork(p) /\ AtWork(q) => p = q

\* ... which are what there is, one for each account.
OneReading ==
    /\ \A r, s \in readings : r.account = s.account => r = s
    /\ \A p \in Poll : poll[p].pc = "commit" => poll[p].previous = readings

\* What is charged and what may still be charged was made.
Margin ==
    \A n \in Account, x \in Pages :
        LastRead(n, x) =>
            /\ charged[n] + Due(x, counter[n]) <= made[n]
            /\ \A p \in Poll :
                  AtWork(p) /\ poll[p].seen[n] # Absent =>
                  charged[n] + DiffCounters(x, poll[p].seen[n])
                      + Due(poll[p].seen[n], counter[n]) <= made[n]

UsageInv ==
    /\ CopierUsageTypeOK /\ CounterIsMade /\ ChargedAsRead
    /\ ~overlapped => OnePoll /\ OneReading /\ Margin

-----------------------------------------------------------------------------
LEMMA LessOfTwoPages ==
    ASSUME NEW a \in Int, NEW b \in Int
    PROVE  Min({a, b}) \in {a, b} /\ Min({a, b}) <= a /\ Min({a, b}) <= b
  <1> DEFINE m == IF a <= b THEN a ELSE b
  <1>1. m \in {a, b} /\ \A y \in {a, b} : m <= y
    OBVIOUS
  <1>2. \A n \in {a, b} : (\A y \in {a, b} : n <= y) => n = m
    OBVIOUS
  <1> HIDE DEF m
  <1>3. Min({a, b}) = m
    BY <1>1, <1>2 DEF Min
  <1> QED
    BY <1>1, <1>3

LEMMA NewPollIsPoll ==
    /\ NewPoll \in PollState /\ NewPoll.pc = "new" /\ NewPoll.previous = {}
    /\ [NewPoll EXCEPT !.pc = "over"] \in PollState
    /\ [NewPoll EXCEPT !.pc = "over"].pc = "over"
    /\ [NewPoll EXCEPT !.pc = "over"].previous = {}
  BY DEF NewPoll, PollState, Absent

LEMMA UsageStarts == CopierUsageInit => UsageInv
<1> SUFFICES ASSUME CopierUsageInit PROVE UsageInv
  OBVIOUS
<1> USE DEF CopierUsageInit
<1>0. 0 \in Pages /\ 0 \in 0..MaxByHand /\ 0 \in 0..(MaxPages + 1)
  BY CopierUsageAssumption DEF Pages
<1>1. CopierUsageTypeOK
  BY <1>0, NewPollIsPoll, Zenon DEF CopierUsageTypeOK
<1>2. CounterIsMade /\ ChargedAsRead
  BY NewPollIsPoll DEF CounterIsMade, ChargedAsRead, Absent
<1>3. OnePoll /\ OneReading /\ Margin
  BY NewPollIsPoll DEF OnePoll, OneReading, Margin, AtWork, Due, LastRead
<1> QED
  BY <1>1, <1>2, <1>3 DEF UsageInv

-----------------------------------------------------------------------------
\* What a step does to one poll: p becomes b.
LEMMA PollIs ==
    ASSUME CopierUsageTypeOK, NEW p \in Poll, NEW b, poll' = [poll EXCEPT ![p] = b]
    PROVE  /\ poll'[p] = b /\ \A q \in Poll : q # p => poll'[q] = poll[q]
           /\ b \in PollState => poll' \in [Poll -> PollState]
  BY DEF CopierUsageTypeOK

LEMMA DueBounds ==
    ASSUME NEW x \in Pages, NEW total \in Pages \cup {Absent}
    PROVE  /\ Due(x, total) \in Nat
           /\ total # Absent => /\ DiffCounters(x, total) = Due(x, total)
                                /\ Due(x, total) <= total
                                /\ total <= x + Due(x, total)
           /\ total # Absent => Due(x, total + 1) <= Due(x, total) + 1
           /\ Due(x, 0) = 0 /\ Due(x, Absent) = 0 /\ Due(x, x) = 0
  BY CopierUsageAssumption DEF Pages, Due, DiffCounters, Absent

-----------------------------------------------------------------------------
(* Steps that leave the readings and the charges as they are.              *)

\* A poll that begins, or has ended, has nothing in hand.
LEMMA StartsOrFails ==
    ASSUME UsageInv, NEW p \in Poll, NEW b \in PollState, poll' = [poll EXCEPT ![p] = b],
           b.pc \notin {"rows", "commit"}, b.previous \subseteq poll[p].previous,
           UNCHANGED <<counter, recorded, readings, provisioning, byHand, made, charged,
                       inexact, overlapped>>
    PROVE  UsageInv'
<1>1. poll'[p] = b /\ poll' \in [Poll -> PollState] /\ \A q \in Poll : q # p => poll'[q] = poll[q]
  BY PollIs DEF UsageInv
<1>2. CopierUsageTypeOK' /\ CounterIsMade'
  BY <1>1 DEF UsageInv, CopierUsageTypeOK, CounterIsMade
<1>3. ChargedAsRead'
  BY <1>1 DEF UsageInv, ChargedAsRead
<1>4. ~overlapped' => OnePoll' /\ OneReading' /\ Margin'
  BY <1>1 DEF UsageInv, OnePoll, OneReading, Margin, AtWork, LastRead
<1> QED
  BY <1>2, <1>3, <1>4 DEF UsageInv

LEMMA ReadKeeps ==
    ASSUME UsageInv, NEW p \in Poll, ReadAccountCounters(p) PROVE UsageInv'
<1> DEFINE b == [poll[p] EXCEPT !.pc = "rows", !.seen = counter]
<1>1. /\ poll[p].pc = "wait" /\ poll' = [poll EXCEPT ![p] = b]
      /\ overlapped' = (overlapped \/ \E q \in Poll : AtWork(q))
      /\ UNCHANGED <<counter, recorded, readings, provisioning, byHand, made, charged, inexact>>
  BY DEF ReadAccountCounters
<1>2. poll[p] \in PollState /\ counter \in [Account -> Pages \cup {Absent}]
  BY DEF UsageInv, CopierUsageTypeOK
<1>3. /\ b \in PollState /\ b.pc = "rows" /\ b.seen = counter
      /\ b.previous = poll[p].previous
  BY <1>2 DEF PollState
<1> HIDE DEF b
<1>4. poll'[p] = b /\ poll' \in [Poll -> PollState] /\ \A q \in Poll : q # p => poll'[q] = poll[q]
  BY <1>1, <1>3, PollIs DEF UsageInv
<1>5. CopierUsageTypeOK' /\ CounterIsMade'
  BY <1>1, <1>4 DEF UsageInv, CopierUsageTypeOK, CounterIsMade
<1>6. ChargedAsRead'
  BY <1>1, <1>3, <1>4 DEF UsageInv, ChargedAsRead
<1>7. ASSUME ~overlapped' PROVE OnePoll' /\ OneReading' /\ Margin'
  <2>1. ~overlapped /\ \A q \in Poll : ~AtWork(q)
    BY <1>1, <1>7
  <2>2. \A q \in Poll : AtWork(q)' => q = p
    BY <1>4, <2>1 DEF AtWork
  <2>3. OnePoll' /\ OneReading'
    BY <1>1, <1>3, <1>4, <2>1, <2>2 DEF UsageInv, OnePoll, OneReading
  <2>4. ASSUME NEW n \in Account, NEW x \in Pages, LastRead(n, x)'
        PROVE  /\ charged'[n] + Due(x, counter'[n]) <= made'[n]
               /\ \A q \in Poll :
                     AtWork(q)' /\ poll'[q].seen[n] # Absent =>
                     charged'[n] + DiffCounters(x, poll'[q].seen[n])
                         + Due(poll'[q].seen[n], counter'[n]) <= made'[n]
    <3>1. charged[n] + Due(x, counter[n]) <= made[n]
      BY <1>1, <2>1, <2>4 DEF UsageInv, Margin, LastRead
    <3>2. charged[n] \in Int /\ made[n] \in Int /\ counter[n] \in Pages \cup {Absent}
      BY CopierUsageAssumption DEF UsageInv, CopierUsageTypeOK, Pages
    <3>3. ASSUME counter[n] # Absent
          PROVE  charged[n] + DiffCounters(x, counter[n]) + Due(counter[n], counter[n]) <= made[n]
      <4>1. counter[n] \in Pages /\ Due(counter[n], counter[n]) = 0
        BY <3>2, <3>3, DueBounds
      <4>2. DiffCounters(x, counter[n]) = Due(x, counter[n]) /\ Due(x, counter[n]) \in Nat
        BY <3>2, <3>3, DueBounds
      <4> QED BY <3>1, <3>2, <4>1, <4>2
    <3> QED
      BY <1>1, <1>3, <1>4, <2>2, <3>1, <3>3
  <2> QED BY <2>3, <2>4 DEF Margin
<1> QED
  BY <1>5, <1>6, <1>7 DEF UsageInv

LEMMA ReadingsKeep ==
    ASSUME UsageInv, NEW p \in Poll, ReadReadings(p) PROVE UsageInv'
<1>0. PICK previous \in SUBSET readings :
        /\ \A n \in Account : (\E r \in readings : r.account = n) =>
               Cardinality({r \in previous : r.account = n}) = 1
        /\ poll' = [poll EXCEPT ![p].pc = "commit", ![p].previous = previous]
  BY DEF ReadReadings
<1> DEFINE b == [poll[p] EXCEPT !.pc = "commit", !.previous = previous]
<1>1. /\ poll[p].pc = "rows" /\ poll' = [poll EXCEPT ![p] = b]
      /\ UNCHANGED <<counter, recorded, readings, provisioning, byHand, made, charged,
                     inexact, overlapped>>
  BY <1>0 DEF ReadReadings
<1>2. poll[p] \in PollState /\ readings \subseteq Reading
  BY DEF UsageInv, CopierUsageTypeOK
<1>3. /\ b \in PollState /\ b.pc = "commit" /\ b.seen = poll[p].seen
      /\ b.previous = previous
  BY <1>2 DEF PollState
<1> HIDE DEF b
<1>4. poll'[p] = b /\ poll' \in [Poll -> PollState] /\ \A q \in Poll : q # p => poll'[q] = poll[q]
  BY <1>1, <1>3, PollIs DEF UsageInv
<1>5. CopierUsageTypeOK' /\ CounterIsMade'
  BY <1>1, <1>4 DEF UsageInv, CopierUsageTypeOK, CounterIsMade
<1>6. ChargedAsRead'
  BY <1>1, <1>3, <1>4 DEF UsageInv, ChargedAsRead
<1>7. ASSUME ~overlapped PROVE OnePoll' /\ OneReading' /\ Margin'
  <2>1. \A q \in Poll : AtWork(q)' <=> AtWork(q)
    BY <1>1, <1>3, <1>4 DEF AtWork
  <2>2. OnePoll' /\ Margin'
    BY <1>1, <1>3, <1>4, <1>7, <2>1 DEF UsageInv, OnePoll, Margin, LastRead
  <2>3. previous = readings
    <3>1. ASSUME NEW r \in readings PROVE r \in previous
      <4>1. r.account \in Account
        BY <1>2 DEF Reading
      <4>2. Cardinality({s \in previous : s.account = r.account}) = 1
        BY <1>0, <4>1
      <4>3. {s \in previous : s.account = r.account} # {}
        BY <4>2, FS_EmptySet
      <4>4. PICK s \in previous : s.account = r.account
        BY <4>3
      <4> QED BY <1>7, <4>4 DEF UsageInv, OneReading
    <3> QED BY <3>1
  <2>4. OneReading'
    <3>1. \A q \in Poll : poll[q].pc = "commit" => q = p
      BY <1>1, <1>7 DEF UsageInv, OnePoll, AtWork
    <3> QED
      BY <1>1, <1>3, <1>4, <1>7, <2>3, <3>1 DEF UsageInv, OneReading
  <2> QED BY <2>2, <2>4
<1> QED
  BY <1>1, <1>5, <1>6, <1>7 DEF UsageInv

-----------------------------------------------------------------------------
(* The poll that commits.                                                  *)

LEMMA UsageFits ==
    ASSUME UsageInv, NEW p \in Poll, NEW n \in Account
    PROVE  /\ UsagePages(p, n) \in Nat
           /\ n \in NewlyRead(p) =>
                 /\ poll[p].seen[n] \in Pages
                 /\ \/ Previous(p, n) = {} /\ n \notin poll[p].owners
                    \/ Previous(p, n) = {} /\ UsagePages(p, n) = poll[p].seen[n]
                    \/ \E r \in poll[p].previous :
                          r.account = n /\ poll[p].seen[n] <= r.pages + UsagePages(p, n)
<1>1. poll[p].seen[n] \in Pages \cup {Absent} /\ poll[p].previous \subseteq Reading
  BY DEF UsageInv, CopierUsageTypeOK, PollState
<1>2. CASE n \notin SeenAccounts(p)
  BY <1>2 DEF UsagePages, NewlyRead
<1>3. CASE n \in SeenAccounts(p)
  <2>1. poll[p].seen[n] \in Pages /\ poll[p].seen[n] # Absent /\ poll[p].seen[n] \in Nat
    BY <1>1, <1>3, CopierUsageAssumption DEF SeenAccounts, Pages
  <2>2. CASE Previous(p, n) = {}
    BY <1>3, <2>1, <2>2 DEF UsagePages
  <2>3. CASE Previous(p, n) # {}
    <3> DEFINE r == CHOOSE r \in Previous(p, n) : TRUE
    <3>1. r \in Previous(p, n)
      BY <2>3
    <3>2. UsagePages(p, n) = DiffCounters(r.pages, poll[p].seen[n])
      BY <1>3, <2>3 DEF UsagePages
    <3> HIDE DEF r
    <3>3. r \in poll[p].previous /\ r.account = n /\ r.pages \in Pages
      BY <1>1, <3>1 DEF Previous, Reading
    <3>4. /\ UsagePages(p, n) \in Nat
          /\ poll[p].seen[n] <= r.pages + UsagePages(p, n)
      BY <2>1, <3>2, <3>3, DueBounds DEF Due
    <3> QED BY <2>1, <3>3, <3>4
  <2> QED BY <2>2, <2>3
<1> QED
  BY <1>2, <1>3

LEMMA CommitPollKeeps ==
    ASSUME UsageInv, NEW p \in Poll, CommitPoll(p) PROVE UsageInv'
<1> DEFINE over == [NewPoll EXCEPT !.pc = "over"]
<1>0. over \in PollState /\ over.pc = "over" /\ over.previous = {}
  BY NewPollIsPoll
<1>1. /\ poll[p].pc = "commit" /\ poll' = [poll EXCEPT ![p] = over]
      /\ readings' = (readings \ Replaced(p)) \cup NewReadings(p)
      /\ charged' = [n \in Account |-> Min({charged[n] + UsagePages(p, n), MaxPages + 1})]
      /\ inexact' = inexact \cup {n \in NewlyRead(p) : Previous(p, n) = {} /\ n \notin poll[p].owners}
      /\ UNCHANGED <<counter, recorded, provisioning, byHand, made, overlapped>>
  BY DEF CommitPoll, Charges, Over
<1> HIDE DEF over
<1>2. poll'[p] = over /\ poll' \in [Poll -> PollState] /\ \A q \in Poll : q # p => poll'[q] = poll[q]
  BY <1>0, <1>1, PollIs DEF UsageInv
<1>3. MaxPages \in Nat /\ \A n \in Account : charged[n] \in 0..(MaxPages + 1)
  BY CopierUsageAssumption DEF UsageInv, CopierUsageTypeOK
<1>4. ASSUME NEW n \in Account
      PROVE  /\ charged'[n] \in 0..(MaxPages + 1) /\ charged[n] <= charged'[n]
             /\ charged'[n] <= charged[n] + UsagePages(p, n)
             /\ charged'[n] = charged[n] + UsagePages(p, n) \/ charged'[n] = MaxPages + 1
  <2>1. UsagePages(p, n) \in Nat
    BY UsageFits
  <2> DEFINE a == charged[n] + UsagePages(p, n)
  <2>2. a \in Int /\ MaxPages + 1 \in Int /\ charged[n] <= a /\ charged[n] <= MaxPages + 1
        /\ charged[n] >= 0
    BY <1>3, <2>1
  <2>3. charged'[n] = Min({a, MaxPages + 1})
    BY <1>1
  <2> HIDE DEF a
  <2>4. charged'[n] \in {a, MaxPages + 1} /\ charged'[n] <= a /\ charged'[n] <= MaxPages + 1
    BY <2>2, <2>3, LessOfTwoPages
  <2>5. charged'[n] \in 0..(MaxPages + 1) /\ charged[n] <= charged'[n]
    BY <1>3, <2>2, <2>4
  <2> QED
    BY <2>4, <2>5 DEF a
<1>5. ASSUME NEW r \in NewReadings(p)
      PROVE  /\ r \in Reading /\ r.account \in NewlyRead(p)
             /\ r.pages = poll[p].seen[r.account]
  <2>1. PICK n \in NewlyRead(p) : r = [poll |-> p, account |-> n, pages |-> poll[p].seen[n]]
    BY DEF NewReadings
  <2>2. n \in Account
    BY <2>1 DEF NewlyRead, SeenAccounts
  <2> QED BY <2>1, <2>2, UsageFits DEF Reading
<1>6. NewlyRead(p) \subseteq Account
  BY DEF NewlyRead, SeenAccounts
<1>7. CopierUsageTypeOK'
  <2>1. readings' \subseteq Reading
    BY <1>1, <1>5 DEF UsageInv, CopierUsageTypeOK
  <2>2. charged' \in [Account -> 0..(MaxPages + 1)]
    BY <1>1, <1>4
  <2>3. inexact' \subseteq Account
    BY <1>1, <1>6 DEF UsageInv, CopierUsageTypeOK
  <2> QED
    BY <1>1, <1>2, <2>1, <2>2, <2>3 DEF UsageInv, CopierUsageTypeOK
<1>8. CounterIsMade'
  BY <1>1 DEF UsageInv, CounterIsMade
<1>9. ChargedAsRead'
  <2> SUFFICES ASSUME NEW n \in Account, n \notin inexact'
               PROVE  /\ \A r \in readings' : r.account = n => charged'[n] >= r.pages
                      /\ \A q \in Poll : \A r \in poll'[q].previous :
                            r.account = n => charged'[n] >= r.pages
    BY DEF ChargedAsRead
  <2>1. /\ n \notin inexact
        /\ n \in NewlyRead(p) => Previous(p, n) # {} \/ n \in poll[p].owners
    BY <1>1
  <2>2. \A r \in Reading : r.pages \in Pages /\ r.pages \in 0..MaxPages
    BY DEF Reading, Pages
  <2>3. ASSUME NEW r \in Reading, charged[n] >= r.pages PROVE charged'[n] >= r.pages
    BY <1>3, <1>4, <2>2, <2>3
  <2>4. ASSUME NEW r \in readings, r.account = n PROVE charged'[n] >= r.pages
    BY <2>1, <2>3, <2>4 DEF UsageInv, ChargedAsRead, CopierUsageTypeOK
  <2>5. ASSUME NEW q \in Poll, NEW r \in poll'[q].previous, r.account = n
        PROVE  charged'[n] >= r.pages
    <3>1. q # p /\ r \in poll[q].previous /\ poll[q] \in PollState
      BY <1>0, <1>2, <2>5 DEF UsageInv, CopierUsageTypeOK
    <3>2. r \in Reading
      BY <3>1 DEF PollState
    <3> QED BY <2>1, <2>3, <2>5, <3>1, <3>2 DEF UsageInv, ChargedAsRead
  <2>6. ASSUME NEW r \in NewReadings(p), r.account = n PROVE charged'[n] >= r.pages
    <3>1. n \in NewlyRead(p) /\ r.pages = poll[p].seen[n] /\ r.pages \in 0..MaxPages
      BY <1>5, <2>2, <2>6
    <3>2. \/ UsagePages(p, n) = r.pages
          \/ \E s \in poll[p].previous : s.account = n /\ r.pages <= s.pages + UsagePages(p, n)
      BY <2>1, <3>1, UsageFits
    <3>3. r.pages <= charged[n] + UsagePages(p, n)
      <4>0. UsagePages(p, n) \in Nat
        BY UsageFits
      <4>1. CASE UsagePages(p, n) = r.pages
        BY <1>3, <3>1, <4>0, <4>1
      <4>2. CASE \E s \in poll[p].previous : s.account = n /\ r.pages <= s.pages + UsagePages(p, n)
        <5>1. PICK s \in poll[p].previous : s.account = n /\ r.pages <= s.pages + UsagePages(p, n)
          BY <4>2
        <5>2. s \in Reading /\ charged[n] >= s.pages
          BY <2>1, <5>1 DEF UsageInv, ChargedAsRead, CopierUsageTypeOK, PollState
        <5> QED BY <1>3, <2>2, <3>1, <4>0, <5>1, <5>2
      <4> QED BY <3>2, <4>1, <4>2
    <3> QED BY <1>3, <1>4, <3>1, <3>3
  <2> QED BY <1>1, <2>4, <2>5, <2>6
<1>10. ASSUME ~overlapped PROVE OnePoll' /\ OneReading' /\ Margin'
  <2>1. /\ poll[p].previous = readings
        /\ \A r, s \in readings : r.account = s.account => r = s
        /\ \A q \in Poll : AtWork(q) => q = p
    BY <1>1, <1>10 DEF UsageInv, OnePoll, OneReading, AtWork
  <2>2. \A q \in Poll : ~AtWork(q)'
    BY <1>0, <1>2, <2>1 DEF AtWork
  \* What is read now takes the place of what was read before.
  <2>3. ASSUME NEW n \in NewlyRead(p), NEW r \in readings, r.account = n PROVE r \in Replaced(p)
    BY <2>1, <2>3 DEF NewlyRead, Previous
  <2>4. ASSUME NEW r \in readings', NEW s \in readings', r.account = s.account PROVE r = s
    <3>1. CASE r \in NewReadings(p)
      <4>1. s \in NewReadings(p)
        BY <1>1, <1>5, <2>3, <2>4, <3>1
      <4> QED BY <2>4, <3>1, <4>1 DEF NewReadings
    <3>2. CASE s \in NewReadings(p)
      <4>1. r \in NewReadings(p)
        BY <1>1, <1>5, <2>3, <2>4, <3>2
      <4> QED BY <2>4, <3>2, <4>1 DEF NewReadings
    <3> QED BY <1>1, <2>1, <2>4, <3>1, <3>2
  <2>5. OnePoll' /\ OneReading'
    BY <2>2, <2>4 DEF OnePoll, OneReading, AtWork
  <2>6. ASSUME NEW n \in Account, NEW x \in Pages, LastRead(n, x)'
        PROVE  charged'[n] + Due(x, counter'[n]) <= made'[n]
    <3>0. /\ counter[n] \in Pages \cup {Absent} /\ charged[n] \in Int /\ made[n] \in Int
          /\ poll[p].seen[n] \in Pages \cup {Absent} /\ charged'[n] \in Int
          /\ UsagePages(p, n) \in Nat /\ Due(x, counter[n]) \in Nat
      BY <1>3, <1>4, UsageFits, DueBounds, CopierUsageAssumption
         DEF UsageInv, CopierUsageTypeOK, PollState, Pages
    <3>1. CASE n \notin SeenAccounts(p)
      <4>1. UsagePages(p, n) = 0
        BY <3>1 DEF UsagePages
      <4>2. LastRead(n, x)
        <5>1. \A r \in NewReadings(p) : r.account # n
          BY <1>5, <3>1 DEF NewlyRead
        <5>2. \A r \in Replaced(p) : r.account # n
          BY <3>1 DEF Replaced
        <5> QED BY <1>1, <2>6, <5>1, <5>2 DEF LastRead
      <4>3. charged[n] + Due(x, counter[n]) <= made[n]
        BY <1>10, <4>2 DEF UsageInv, Margin
      <4> QED BY <1>1, <1>4, <3>0, <4>1, <4>3
    <3>2. CASE n \in SeenAccounts(p)
      <4> DEFINE v == poll[p].seen[n]
      <4>0. v \in Pages /\ v # Absent
        BY <3>0, <3>2 DEF SeenAccounts
      <4>1. x = v
        <5>1. CASE n \in NewlyRead(p)
          <6>1. [poll |-> p, account |-> n, pages |-> v] \in readings'
            BY <1>1, <5>1 DEF NewReadings
          <6> QED BY <2>4, <2>6, <6>1 DEF LastRead
        <5>2. CASE n \notin NewlyRead(p)
          <6>1. PICK r \in readings : r.account = n /\ r \notin Replaced(p)
            BY <2>1, <3>2, <5>2 DEF NewlyRead, Previous
          <6>2. r.pages = v
            BY <2>1, <3>2, <6>1 DEF Replaced
          <6>3. r \in readings'
            BY <1>1, <6>1
          <6> QED BY <2>4, <2>6, <6>1, <6>2, <6>3 DEF LastRead
        <5> QED BY <5>1, <5>2
      <4>2. PICK y \in Pages : /\ LastRead(n, y)
                               /\ UsagePages(p, n) <= DiffCounters(y, v)
                               /\ DiffCounters(y, v) \in Nat
        <5>1. CASE Previous(p, n) = {}
          <6>1. LastRead(n, 0) /\ 0 \in Pages
            BY <2>1, <5>1, CopierUsageAssumption DEF LastRead, Previous, Pages
          <6>2. UsagePages(p, n) <= v /\ DiffCounters(0, v) = v /\ v \in Nat
            BY <3>2, <4>0, <5>1, CopierUsageAssumption DEF UsagePages, DiffCounters, Pages
          <6> QED BY <6>1, <6>2
        <5>2. CASE Previous(p, n) # {}
          <6> DEFINE r == CHOOSE r \in Previous(p, n) : TRUE
          <6>1. r \in Previous(p, n)
            BY <5>2
          <6>2. UsagePages(p, n) = DiffCounters(r.pages, v)
            BY <3>2, <5>2 DEF UsagePages
          <6> HIDE DEF r
          <6>3. r \in readings /\ r.account = n /\ r.pages \in Pages
            BY <2>1, <6>1 DEF Previous, UsageInv, CopierUsageTypeOK, Reading
          <6> QED BY <3>0, <6>2, <6>3 DEF LastRead
        <5> QED BY <5>1, <5>2
      <4>3. charged[n] + DiffCounters(y, v) + Due(v, counter[n]) <= made[n]
        BY <1>1, <1>10, <4>0, <4>2 DEF UsageInv, Margin, AtWork
      <4>4. Due(v, counter[n]) \in Nat
        BY <3>0, <4>0, DueBounds
      <4> HIDE DEF v
      <4> QED BY <1>1, <1>4, <3>0, <4>1, <4>2, <4>3, <4>4
    <3> QED BY <3>1, <3>2
  <2>7. Margin'
    BY <2>2, <2>6 DEF Margin, AtWork
  <2> QED BY <2>5, <2>7
<1> QED
  BY <1>1, <1>7, <1>8, <1>9, <1>10 DEF UsageInv

-----------------------------------------------------------------------------
(* The copier.                                                             *)

\* What a poll may still charge grows no faster than what is made.
LEMMA CounterKeeps ==
    ASSUME UsageInv, NEW n \in Account, NEW total \in Pages \cup {Absent}, NEW more \in {0, 1},
           counter' = [counter EXCEPT ![n] = total], made' = [made EXCEPT ![n] = @ + more],
           made'[n] \in Pages, total <= made'[n],
           \A x \in Pages : Due(x, total) <= Due(x, counter[n]) + more,
           UNCHANGED <<readings, poll, charged, overlapped>>, inexact \subseteq inexact',
           recorded' \subseteq Account, inexact' \subseteq Account, byHand' \in 0..MaxByHand,
           provisioning' \in [on: BOOLEAN, added: SUBSET Account]
    PROVE  UsageInv'
<1>1. /\ counter \in [Account -> Pages \cup {Absent}] /\ made \in [Account -> Pages]
      /\ \A k \in Account : charged[k] \in Nat /\ made[k] \in Nat
      /\ \A k \in Account, p \in Poll : poll[p].seen[k] \in Pages \cup {Absent}
  BY CopierUsageAssumption DEF UsageInv, CopierUsageTypeOK, Pages, PollState
<1>2. /\ counter'[n] = total /\ made'[n] = made[n] + more
      /\ \A k \in Account : k # n => counter'[k] = counter[k] /\ made'[k] = made[k]
  BY <1>1
<1>3. CopierUsageTypeOK'
  BY <1>1 DEF UsageInv, CopierUsageTypeOK
<1>4. CounterIsMade'
  BY <1>2 DEF UsageInv, CounterIsMade
<1>5. ChargedAsRead'
  BY DEF UsageInv, ChargedAsRead
<1>6. ASSUME ~overlapped PROVE OnePoll' /\ OneReading' /\ Margin'
  <2>1. OnePoll' /\ OneReading'
    BY <1>6 DEF UsageInv, OnePoll, OneReading, AtWork
  <2>2. ASSUME NEW k \in Account, NEW x \in Pages
        PROVE  /\ Due(x, counter'[k]) \in Nat /\ Due(x, counter[k]) \in Nat
               /\ Due(x, counter'[k]) - Due(x, counter[k]) <= made'[k] - made[k]
    <3>1. Due(x, counter'[k]) \in Nat /\ Due(x, counter[k]) \in Nat
      <4>1. counter[k] \in Pages \cup {Absent} /\ counter'[k] \in Pages \cup {Absent}
        BY <1>1, <1>2
      <4> QED BY <4>1, DueBounds
    <3>2. CASE k = n
      <4>1. Due(x, counter'[k]) <= Due(x, counter[k]) + more
        BY <1>2, <3>2
      <4>2. made'[k] = made[k] + more /\ made[k] \in Nat
        BY <1>1, <1>2, <3>2
      <4> QED BY <3>1, <4>1, <4>2
    <3>3. CASE k # n
      BY <1>1, <1>2, <3>1, <3>3
    <3> QED BY <3>2, <3>3
  <2>3. ASSUME NEW k \in Account, NEW x \in Pages, LastRead(k, x)
        PROVE  /\ charged[k] + Due(x, counter'[k]) <= made'[k]
               /\ \A p \in Poll :
                     AtWork(p) /\ poll[p].seen[k] # Absent =>
                     charged[k] + DiffCounters(x, poll[p].seen[k])
                         + Due(poll[p].seen[k], counter'[k]) <= made'[k]
    <3>0. charged[k] \in Nat /\ made[k] \in Nat /\ made'[k] \in Nat
      BY <1>1, <1>2, CopierUsageAssumption DEF Pages
    <3>1. charged[k] + Due(x, counter[k]) <= made[k]
      BY <1>6, <2>3 DEF UsageInv, Margin
    <3>2. ASSUME NEW p \in Poll, AtWork(p), poll[p].seen[k] # Absent
          PROVE  charged[k] + DiffCounters(x, poll[p].seen[k])
                     + Due(poll[p].seen[k], counter'[k]) <= made'[k]
      <4> DEFINE v == poll[p].seen[k]
      <4>1. v \in Pages
        BY <1>1, <3>2
      <4>2. charged[k] + DiffCounters(x, v) + Due(v, counter[k]) <= made[k]
        BY <1>6, <2>3, <3>2 DEF UsageInv, Margin
      <4>3. DiffCounters(x, v) \in Nat
        BY <4>1, <3>2, DueBounds
      <4>4. /\ Due(v, counter'[k]) \in Nat /\ Due(v, counter[k]) \in Nat
            /\ Due(v, counter'[k]) - Due(v, counter[k]) <= made'[k] - made[k]
        BY <2>2, <4>1
      <4> HIDE DEF v
      <4>5. charged[k] + DiffCounters(x, v) + Due(v, counter'[k]) <= made'[k]
        BY <3>0, <4>2, <4>3, <4>4
      <4> QED BY <4>5 DEF v
    <3>3. charged[k] + Due(x, counter'[k]) <= made'[k]
      BY <2>2, <3>0, <3>1
    <3> QED BY <3>2, <3>3
  <2>4. Margin'
    BY <2>3 DEF Margin, LastRead, AtWork
  <2> QED BY <2>1, <2>4
<1> QED
  BY <1>3, <1>4, <1>5, <1>6 DEF UsageInv

LEMMA UsageIsKept == UsageInv /\ [CopierUsageNext]_copierUsageVars => UsageInv'
<1> SUFFICES ASSUME UsageInv, [CopierUsageNext]_copierUsageVars PROVE UsageInv'
  OBVIOUS
<1>0. /\ CopierUsageTypeOK /\ MaxPages \in Nat /\ MaxByHand \in Nat /\ 0 \in Pages
      /\ \A n \in Account : made[n] \in Nat
  BY CopierUsageAssumption DEF UsageInv, CopierUsageTypeOK, Pages
<1>1. CASE \E p \in Poll : \/ StartCounterPoll(p) \/ ReadAccountCounters(p)
                            \/ ReadReadings(p) \/ CommitPoll(p) \/ PollFails(p)
  <2>1. PICK p \in Poll : \/ StartCounterPoll(p) \/ ReadAccountCounters(p)
                          \/ ReadReadings(p) \/ CommitPoll(p) \/ PollFails(p)
    BY <1>1
  <2>2. CASE StartCounterPoll(p)
    <3> DEFINE b == [poll[p] EXCEPT !.pc = "wait", !.owners = recorded]
    <3>0. poll[p] \in PollState /\ recorded \in SUBSET Account
      BY <1>0 DEF CopierUsageTypeOK
    <3>1. b \in PollState /\ b.pc = "wait" /\ b.previous = poll[p].previous
      BY <3>0 DEF PollState
    <3>2. poll' = [poll EXCEPT ![p] = b]
      BY <2>2 DEF StartCounterPoll
    <3> HIDE DEF b
    <3> QED BY <2>2, <3>1, <3>2, StartsOrFails DEF StartCounterPoll
  <2>3. CASE PollFails(p)
    BY <2>3, NewPollIsPoll, StartsOrFails DEF PollFails, Over
  <2> QED
    BY <2>1, <2>2, <2>3, ReadKeeps, ReadingsKeep, CommitPollKeeps
<1>2. ASSUME UNCHANGED <<counter, readings, poll, byHand, made, charged, inexact, overlapped>>,
             recorded' \subseteq Account, provisioning' \in [on: BOOLEAN, added: SUBSET Account]
      PROVE  UsageInv'
  BY <1>2 DEF UsageInv, CopierUsageTypeOK, CounterIsMade, ChargedAsRead, OnePoll, OneReading,
              Margin, LastRead, AtWork
<1>3. CASE ProvisioningStarts \/ ProvisioningEnds \/ RecordAccounts
  <2>1. /\ UNCHANGED <<counter, readings, poll, byHand, made, charged, inexact, overlapped>>
        /\ recorded' \in {recorded, recorded \cup provisioning.added}
    BY <1>3 DEF ProvisioningStarts, ProvisioningEnds, RecordAccounts
  <2>2. recorded' \subseteq Account
    BY <1>0, <2>1 DEF CopierUsageTypeOK
  <2>3. provisioning' \in [on: BOOLEAN, added: SUBSET Account]
    <3>1. \/ provisioning' = [on |-> TRUE, added |-> {}]
          \/ provisioning' = [provisioning EXCEPT !.on = FALSE]
          \/ provisioning' = [provisioning EXCEPT !.added = {}]
      BY <1>3 DEF ProvisioningStarts, ProvisioningEnds, RecordAccounts
    <3>2. provisioning \in [on: BOOLEAN, added: SUBSET Account]
      BY <1>0 DEF CopierUsageTypeOK
    <3>3. CASE provisioning' = [on |-> TRUE, added |-> {}]
      BY <3>3
    <3>4. CASE provisioning' = [provisioning EXCEPT !.on = FALSE]
      BY <3>2, <3>4
    <3>5. CASE provisioning' = [provisioning EXCEPT !.added = {}]
      BY <3>2, <3>5
    <3> QED BY <3>1, <3>3, <3>4, <3>5
  <2> QED BY <1>2, <2>1, <2>2, <2>3
<1>4. ASSUME NEW n \in Account, ProvisionAccount(n) \/ PageMade(n) PROVE UsageInv'
  <2>1. CASE ProvisionAccount(n)
    <3>1. /\ counter[n] = Absent /\ counter' = [counter EXCEPT ![n] = 0]
          /\ made' = [made EXCEPT ![n] = @ + 0] /\ made'[n] = made[n]
          /\ UNCHANGED <<readings, poll, charged, overlapped, recorded, inexact, byHand>>
      BY <1>0, <2>1 DEF ProvisionAccount, CopierUsageTypeOK, Pages
    <3>2. provisioning' \in [on: BOOLEAN, added: SUBSET Account]
      BY <1>0, <2>1 DEF ProvisionAccount, CopierUsageTypeOK
    <3>3. \A x \in Pages : Due(x, 0) <= Due(x, counter[n]) + 0
      BY <3>1, DueBounds
    <3>4. made'[n] \in Pages /\ 0 <= made'[n]
      BY <1>0, <3>1 DEF CopierUsageTypeOK
    <3> QED
      BY <1>0, <3>1, <3>2, <3>3, <3>4, CounterKeeps DEF CopierUsageTypeOK
  <2>2. CASE PageMade(n)
    <3>1. /\ counter[n] # Absent /\ made[n] < MaxPages
          /\ counter' = [counter EXCEPT ![n] = counter[n] + 1]
          /\ made' = [made EXCEPT ![n] = @ + 1] /\ made'[n] = made[n] + 1
          /\ UNCHANGED <<readings, poll, charged, overlapped, recorded, inexact, byHand, provisioning>>
      BY <1>0, <2>2 DEF PageMade, CopierUsageTypeOK
    <3>2. counter[n] \in Pages /\ counter[n] <= made[n]
      BY <1>0, <3>1 DEF UsageInv, CopierUsageTypeOK, CounterIsMade
    <3>3. counter[n] + 1 \in Pages /\ counter[n] + 1 <= made'[n] /\ made'[n] \in Pages
      BY <1>0, <3>1, <3>2 DEF Pages
    <3>4. \A x \in Pages : Due(x, counter[n] + 1) <= Due(x, counter[n]) + 1
      BY <3>1, <3>2, DueBounds
    <3> QED
      BY <1>0, <3>1, <3>3, <3>4, CounterKeeps DEF CopierUsageTypeOK
  <2> QED BY <1>4, <2>1, <2>2
<1>5. ASSUME NEW n \in Account, NEW total \in {0, Absent}, AtTheCopier(n, total) PROVE UsageInv'
  <2>1. /\ counter' = [counter EXCEPT ![n] = total] /\ inexact' = inexact \cup {n}
        /\ made' = [made EXCEPT ![n] = @ + 0] /\ made'[n] = made[n]
        /\ byHand < MaxByHand /\ byHand' = byHand + 1
        /\ UNCHANGED <<readings, poll, charged, overlapped, recorded, provisioning>>
    BY <1>0, <1>5 DEF AtTheCopier, CopierUsageTypeOK, Pages
  <2>2. total \in Pages \cup {Absent} /\ total <= made'[n] /\ made'[n] \in Pages
    BY <1>0, <2>1 DEF CopierUsageTypeOK, Absent
  <2>3. \A x \in Pages : Due(x, total) <= Due(x, counter[n]) + 0
    <3>1. counter[n] \in Pages \cup {Absent}
      BY <1>0 DEF CopierUsageTypeOK
    <3> QED BY <3>1, DueBounds
  <2>4. byHand' \in 0..MaxByHand /\ inexact' \subseteq Account /\ recorded' \subseteq Account
    BY <1>0, <2>1 DEF CopierUsageTypeOK
  <2>5. inexact \subseteq inexact' /\ provisioning' \in [on: BOOLEAN, added: SUBSET Account]
    BY <1>0, <2>1 DEF CopierUsageTypeOK
  <2> QED
    BY <2>1, <2>2, <2>3, <2>4, <2>5, CounterKeeps
<1>6. CASE \E n \in Account : \/ ProvisionAccount(n) \/ PageMade(n)
                               \/ AccountEntered(n) \/ CounterCleared(n) \/ AccountDeleted(n)
  BY <1>4, <1>5, <1>6 DEF AccountEntered, CounterCleared, AccountDeleted
<1>7. CASE UNCHANGED copierUsageVars
  BY <1>0, <1>2, <1>7 DEF copierUsageVars, CopierUsageTypeOK
<1> QED
  BY <1>1, <1>3, <1>6, <1>7 DEF CopierUsageNext

-----------------------------------------------------------------------------
\* Polls, the user sync and whoever stands at the copier leave what was charged
\* where the readings say it is (poll_account_counters).
THEOREM UsageInvHolds == CopierUsageSpec => []UsageInv
<1> QED
  BY UsageStarts, UsageIsKept, PTL DEF CopierUsageSpec

\* However polls wait, fail and overlap, all that was read on an account in
\* order is charged, and without two polls at once no more is charged than was
\* made (poll_account_counters, _diff_counters).
THEOREM NobodyPaysTwice == CopierUsageSpec => []ChargesAreTrue
<1>1. UsageInv => ChargesAreTrue
  <2> SUFFICES ASSUME UsageInv, NEW n \in Account
               PROVE  /\ n \notin inexact => \A r \in readings : r.account = n => charged[n] >= r.pages
                      /\ ~overlapped => charged[n] <= made[n]
    BY DEF ChargesAreTrue
  <2>1. n \notin inexact => \A r \in readings : r.account = n => charged[n] >= r.pages
    BY DEF UsageInv, ChargedAsRead
  <2>2. ASSUME ~overlapped PROVE charged[n] <= made[n]
    <3>1. PICK x \in Pages : LastRead(n, x)
      BY CopierUsageAssumption DEF LastRead, UsageInv, CopierUsageTypeOK, Reading, Pages
    <3>2. charged[n] + Due(x, counter[n]) <= made[n]
      BY <2>2, <3>1 DEF UsageInv, Margin
    <3>3. Due(x, counter[n]) \in Nat
      BY DueBounds DEF UsageInv, CopierUsageTypeOK
    <3>4. charged[n] \in Int /\ made[n] \in Int
      BY CopierUsageAssumption DEF UsageInv, CopierUsageTypeOK, Pages
    <3> QED BY <3>2, <3>3, <3>4
  <2> QED BY <2>1, <2>2
<1> QED
  BY <1>1, UsageInvHolds, PTL

-----------------------------------------------------------------------------
(***************************************************************************)
(* DeviceOwner. As long as no session has saved over what it had not seen, *)
(* what is credited so far, counted from the mark, is at most what had     *)
(* been copied by any reading at or after the watermark (CreditIsCovered). *)
(* A run that has missed nothing adds the difference of two readings, of   *)
(* which the later one becomes the watermark; that the difference is at    *)
(* most what was copied between them, also across a reset, is              *)
(* ReadingsAreTrue, and that it starts at the watermark or after it,       *)
(* also when the reading there was purged while the run was at work, is    *)
(* WatermarkKept.                                                          *)
(***************************************************************************)

\* The readings a run has loaded; those that are kept or loaded; and the runs
\* that have missed nothing.
OwnerLoaded(s) == IF work[s].pc = "attribute" THEN work[s].readings ELSE {}
Readings == meterReadings \cup {r \in MeterReading : \E s \in OwnerSession : r \in OwnerLoaded(s)}
Fresh == {s \in OwnerSession : work[s].pc = "attribute" /\ work[s].missed = {}}

\* From one reading to a later one the meter went up by no more than was copied.
InStep(r, q) == q.value - r.value <= q.copies - r.copies /\ r.copies <= q.copies

ReadingsAreTrue ==
    /\ \A r \in Readings : /\ r.at <= read /\ r.copies <= copies
                           /\ meter - r.value <= copies - r.copies
    /\ \A r, q \in Readings : /\ r.at < q.at => InStep(r, q)
                              /\ r.at = q.at => r = q

\* Readings are purged oldest first: of those a run has loaded, the later ones
\* are still there if an earlier one is.
PurgedInOrder ==
    \A s \in OwnerSession : \A r \in meterReadings, q \in OwnerLoaded(s) :
        r.at <= q.at => q \in meterReadings

\* The reading at the watermark goes after all that are before it.
KeptIn(S) ==
    \A r \in S : mfp.through # 0 /\ r.at <= mfp.through => \E q \in S : q.at = mfp.through

WatermarkKept ==
    mfp.through <= read /\ KeptIn(meterReadings) /\ \A s \in Fresh : KeptIn(OwnerLoaded(s))

\* A session that has missed nothing saves the row it has loaded.
RowIsLoaded ==
    \A s \in OwnerSession :
        /\ work[s].pc = "attribute" => work[s].readings # {}
        /\ work[s].pc # "idle" /\ work[s].missed = {} => work[s].mfp = mfp

SinceMark(S) == S # {} => \E r \in S : mark <= r.copies

CreditIsCovered ==
    /\ credited + mark <= copies
    /\ \A r \in Readings :
          mfp.through # 0 /\ mfp.through <= r.at => credited + mark <= r.copies
    /\ mfp.through = 0 => /\ credited = 0 /\ SinceMark(meterReadings)
                          /\ \A s \in Fresh : SinceMark(OwnerLoaded(s))

OwnerInv ==
    /\ DeviceOwnerTypeOK /\ meter <= copies
    /\ ReadingsAreTrue /\ PurgedInOrder /\ WatermarkKept /\ RowIsLoaded
    /\ unseen = {} => CreditIsCovered

-----------------------------------------------------------------------------
\* Of the readings there is a newest one, and an oldest one.
LEMMA NewestAndOldest ==
    ASSUME NEW S \in SUBSET MeterReading, S # {}
    PROVE  /\ NewestOf(S) \in S /\ \A q \in S : q.at <= NewestOf(S).at
           /\ OldestOf(S) \in S /\ \A q \in S : OldestOf(S).at <= q.at
<1>1. NumReadings \in Nat /\ \A r \in S : r.at \in Nat /\ r.at <= NumReadings
  BY DeviceOwnerAssumption DEF MeterReading, ReadingTime
<1>2. \A T \in SUBSET Nat : T # {} => \E x \in T : \A y \in T : ~(y < x)
  <2> SUFFICES ASSUME NEW T \in SUBSET Nat, T # {} PROVE \E x \in T : \A y \in T : ~(y < x)
    OBVIOUS
  <2>1. PICK x \in T : \A y \in T : <<y, x>> \notin OpToRel(<, Nat)
    BY NatLessThanWellFounded, WFMin
  <2> QED BY <2>1 DEF OpToRel
<1>3. \E r \in S : \A q \in S : r.at <= q.at
  <2> DEFINE T == {r.at : r \in S}
  <2>1. T \in SUBSET Nat /\ T # {}
    BY <1>1
  <2>2. PICK x \in T : \A y \in T : ~(y < x)
    <3> HIDE DEF T
    <3> QED BY <1>2, <2>1
  <2>3. PICK r \in S : x = r.at
    OBVIOUS
  <2>4. ASSUME NEW q \in S PROVE r.at <= q.at
    <3>1. q.at \in T
      OBVIOUS
    <3>2. ~(q.at < r.at)
      BY <2>2, <2>3, <3>1
    <3> QED BY <1>1, <3>2
  <2> QED BY <2>4
<1>4. \E r \in S : \A q \in S : q.at <= r.at
  <2> DEFINE T == {NumReadings - r.at : r \in S}
  <2>1. T \in SUBSET Nat /\ T # {}
    <3>1. \A r \in S : NumReadings - r.at \in Nat
      BY <1>1
    <3> QED BY <3>1
  <2>2. PICK x \in T : \A y \in T : ~(y < x)
    <3> HIDE DEF T
    <3> QED BY <1>2, <2>1
  <2>3. PICK r \in S : x = NumReadings - r.at
    OBVIOUS
  <2>4. ASSUME NEW q \in S PROVE q.at <= r.at
    <3>1. NumReadings - q.at \in T
      OBVIOUS
    <3>2. ~(NumReadings - q.at < NumReadings - r.at)
      BY <2>2, <2>3, <3>1
    <3>3. q.at \in Nat /\ r.at \in Nat
      BY <1>1
    <3> QED BY <1>1, <3>2, <3>3
  <2> QED BY <2>4
<1> QED
  BY <1>3, <1>4 DEF NewestOf, OldestOf

LEMMA MaxWithZero ==
    ASSUME NEW x \in Int PROVE Max({x, 0}) = IF x > 0 THEN x ELSE 0
<1>1. \E m \in {x, 0} : \A y \in {x, 0} : m >= y
  BY Z3
<1>2. Max({x, 0}) \in {x, 0} /\ \A y \in {x, 0} : Max({x, 0}) >= y
  BY <1>1 DEF Max
<1> QED
  BY <1>2

LEMMA NewestInStep ==
    ASSUME ReadingsAreTrue, NEW r \in Readings, NEW q \in Readings,
           Readings \subseteq MeterReading, r.at <= q.at
    PROVE  InStep(r, q)
<1>0. /\ r.at \in Int /\ r.value \in Int /\ r.copies \in Int
      /\ q.at \in Int /\ q.value \in Int /\ q.copies \in Int
  BY DeviceOwnerAssumption DEF MeterReading, ReadingTime, Copies
<1>1. CASE r.at < q.at
  BY <1>1 DEF ReadingsAreTrue
<1>2. CASE r.at = q.at
  <2>1. r = q
    BY <1>2 DEF ReadingsAreTrue
  <2> QED BY <1>0, <2>1 DEF InStep
<1> QED
  BY <1>0, <1>1, <1>2

-----------------------------------------------------------------------------
LEMMA OwnerStarts == DeviceOwnerInit => OwnerInv
<1> SUFFICES ASSUME DeviceOwnerInit PROVE OwnerInv
  OBVIOUS
<1>1. IdleWork \in Work /\ IdleWork.pc = "idle" /\ Nameless \in Mfp /\ Nameless.through = 0
  BY DeviceOwnerAssumption DEF IdleWork, Work, Nameless, Mfp
<1>2. \A s \in OwnerSession : work[s] = IdleWork /\ OwnerLoaded(s) = {}
  BY <1>1 DEF DeviceOwnerInit, OwnerLoaded
<1>3. Readings = {} /\ Fresh = {}
  BY <1>1, <1>2 DEF Readings, Fresh, DeviceOwnerInit
<1>4. DeviceOwnerTypeOK
  BY <1>1, DeviceOwnerAssumption DEF DeviceOwnerInit, DeviceOwnerTypeOK, Copies
<1> QED
  BY <1>1, <1>2, <1>3, <1>4
     DEF DeviceOwnerInit, OwnerInv, ReadingsAreTrue, PurgedInOrder, WatermarkKept, KeptIn,
         RowIsLoaded, CreditIsCovered, SinceMark

\* The types, spelt out.
LEMMA Types ==
    ASSUME OwnerInv
    PROVE  /\ meter \in Nat /\ read \in Nat /\ copies \in Nat /\ mark \in Nat
           /\ credited \in Nat /\ mfp.through \in Nat
           /\ Readings \in SUBSET MeterReading
           /\ meterReadings \in SUBSET MeterReading /\ meterReadings \subseteq Readings
           /\ \A r \in MeterReading : /\ r.at \in Nat /\ r.at # 0
                                      /\ r.value \in Nat /\ r.copies \in Nat
           /\ \A r \in Readings : /\ r.at \in Nat /\ r.at # 0
                                  /\ r.value \in Nat /\ r.copies \in Nat
           /\ \A s \in OwnerSession : /\ OwnerLoaded(s) \in SUBSET MeterReading
                                      /\ OwnerLoaded(s) \subseteq Readings
<1>1. /\ meter \in Nat /\ read \in Nat /\ copies \in Nat /\ mark \in Nat
      /\ credited \in Nat /\ mfp.through \in Nat
  BY DeviceOwnerAssumption DEF OwnerInv, DeviceOwnerTypeOK, Copies, Mfp
<1>2. \A s \in OwnerSession : OwnerLoaded(s) \in SUBSET MeterReading
  BY DEF OwnerInv, DeviceOwnerTypeOK, Work, OwnerLoaded
<1>3. meterReadings \in SUBSET MeterReading /\ Readings \in SUBSET MeterReading
  BY DEF OwnerInv, DeviceOwnerTypeOK, Readings
<1>4. meterReadings \subseteq Readings /\ \A s \in OwnerSession : OwnerLoaded(s) \subseteq Readings
  BY <1>2 DEF Readings
<1>5. \A r \in MeterReading : r.at \in Nat /\ r.at # 0 /\ r.value \in Nat /\ r.copies \in Nat
  BY DeviceOwnerAssumption DEF MeterReading, ReadingTime, Copies
<1> QED
  BY <1>1, <1>2, <1>3, <1>4, <1>5

-----------------------------------------------------------------------------
(* The meter.                                                              *)

LEMMA MeterKeeps ==
    ASSUME OwnerInv, CopyMade \/ MeterReset PROVE OwnerInv'
<1>1. /\ UNCHANGED <<meterReadings, read, mfp, work, credited, mark, unseen>>
      /\ \/ copies < MaxCopies /\ copies' = copies + 1 /\ meter' = meter + 1 /\ UNCHANGED resets
         \/ copies' = copies /\ meter' = 0 /\ resets < MaxResets /\ resets' = resets + 1
  BY DEF CopyMade, MeterReset
<1>2. meter <= copies
  BY DEF OwnerInv
<1>3. /\ copies' \in Nat /\ meter' \in Nat /\ copies <= copies' /\ meter' <= copies'
      /\ meter' - meter <= copies' - copies
  BY <1>1, <1>2, Types
<1>4. DeviceOwnerTypeOK'
  <2>1. copies' \in Copies /\ meter' \in Copies
    BY <1>1, <1>3, DeviceOwnerAssumption DEF OwnerInv, DeviceOwnerTypeOK, Copies
  <2>2. resets' \in 0..MaxResets
    BY <1>1, DeviceOwnerAssumption DEF OwnerInv, DeviceOwnerTypeOK
  <2> QED BY <1>1, <2>1, <2>2 DEF OwnerInv, DeviceOwnerTypeOK
<1>5. Readings' = Readings /\ Fresh' = Fresh /\ \A s \in OwnerSession : OwnerLoaded(s)' = OwnerLoaded(s)
  BY <1>1 DEF Readings, Fresh, OwnerLoaded
<1>6. ReadingsAreTrue'
  <2>1. ASSUME NEW r \in Readings
        PROVE  r.at <= read /\ r.copies <= copies' /\ meter' - r.value <= copies' - r.copies
    <3>1. r.at <= read /\ r.copies <= copies /\ meter - r.value <= copies - r.copies
      BY DEF OwnerInv, ReadingsAreTrue
    <3> QED BY <1>3, <3>1, Types
  <2> QED BY <1>1, <1>5, <2>1 DEF OwnerInv, ReadingsAreTrue
<1>7. PurgedInOrder' /\ WatermarkKept' /\ RowIsLoaded'
  <2>1. Fresh \subseteq OwnerSession
    BY DEF Fresh
  <2> QED
    BY <1>1, <1>5, <2>1 DEF OwnerInv, PurgedInOrder, WatermarkKept, KeptIn, RowIsLoaded
<1>8. ASSUME unseen' = {} PROVE CreditIsCovered'
  <2>1. Fresh \subseteq OwnerSession /\ CreditIsCovered
    BY <1>1, <1>8 DEF Fresh, OwnerInv
  <2>2. credited + mark <= copies'
    BY <1>3, <2>1, Types DEF CreditIsCovered
  <2> QED BY <1>1, <1>5, <2>1, <2>2 DEF CreditIsCovered, SinceMark
<1> QED
  BY <1>3, <1>4, <1>6, <1>7, <1>8 DEF OwnerInv

LEMMA ReadMeterKeeps == ASSUME OwnerInv, ReadMeter PROVE OwnerInv'
<1> DEFINE new == [at |-> read + 1, value |-> meter, copies |-> copies]
<1>1. /\ UNCHANGED <<meter, mfp, work, resets, copies, credited, mark, unseen>>
      /\ read < NumReadings /\ read' = read + 1
      /\ meterReadings' = meterReadings \cup {new}
  BY DEF ReadMeter
<1>2. new.at = read + 1 /\ new.value = meter /\ new.copies = copies
  OBVIOUS
<1>3. new \in MeterReading
  BY <1>1, DeviceOwnerAssumption
     DEF OwnerInv, DeviceOwnerTypeOK, MeterReading, ReadingTime
<1> HIDE DEF new
<1>4. /\ Readings' = Readings \cup {new} /\ Fresh' = Fresh /\ Fresh \subseteq OwnerSession
      /\ \A s \in OwnerSession : OwnerLoaded(s)' = OwnerLoaded(s)
  BY <1>1 DEF Readings, Fresh, OwnerLoaded
<1>5. ASSUME NEW r \in Readings
      PROVE  /\ r.at <= read /\ r.copies <= copies
             /\ meter - r.value <= copies - r.copies
             /\ r.at < new.at
  <2>1. /\ r.at <= read /\ r.copies <= copies /\ meter - r.value <= copies - r.copies
    BY DEF OwnerInv, ReadingsAreTrue
  <2> QED BY <1>2, <2>1, Types
<1>6. DeviceOwnerTypeOK'
  <2>1. read' \in 0..NumReadings
    BY <1>1, DeviceOwnerAssumption, Types
  <2> QED BY <1>1, <1>3, <2>1 DEF OwnerInv, DeviceOwnerTypeOK
<1>7. ReadingsAreTrue'
  <2>1. ASSUME NEW r \in Readings'
        PROVE  r.at <= read' /\ r.copies <= copies /\ meter - r.value <= copies - r.copies
    <3>1. CASE r = new
      BY <1>1, <1>2, <3>1, Types
    <3>2. CASE r \in Readings
      BY <1>1, <1>5, <3>2, Types
    <3> QED BY <1>4, <3>1, <3>2
  <2>2. ASSUME NEW r \in Readings', NEW q \in Readings'
        PROVE  (r.at < q.at => InStep(r, q)) /\ (r.at = q.at => r = q)
    <3>1. CASE r \in Readings /\ q \in Readings
      BY <3>1 DEF OwnerInv, ReadingsAreTrue
    <3>2. CASE r \in Readings /\ q = new
      BY <1>2, <1>5, <3>2, Types DEF InStep
    <3>3. CASE r = new /\ q \in Readings
      <4>1. q.at < r.at /\ q.at \in Nat /\ r.at \in Nat
        BY <1>2, <1>5, <3>3, Types
      <4> QED BY <4>1
    <3>4. CASE r = new /\ q = new
      BY <1>2, <3>4, Types
    <3> QED BY <1>4, <3>1, <3>2, <3>3, <3>4
  <2> QED BY <1>1, <2>1, <2>2 DEF ReadingsAreTrue
<1>8. PurgedInOrder'
  <2>1. ASSUME NEW s \in OwnerSession, NEW q \in OwnerLoaded(s) PROVE ~(new.at <= q.at)
    <3>1. q \in Readings
      BY Types
    <3> QED BY <1>2, <1>5, <3>1, Types
  <2> QED BY <1>1, <1>4, <2>1 DEF OwnerInv, PurgedInOrder
<1>9. WatermarkKept'
  <2>1. mfp.through <= read
    BY DEF OwnerInv, WatermarkKept
  <2>2. ~(new.at <= mfp.through) /\ mfp.through <= read'
    BY <1>1, <1>2, <2>1, Types
  <2> QED BY <1>1, <1>4, <2>2 DEF OwnerInv, WatermarkKept, KeptIn
<1>10. ASSUME unseen' = {} PROVE CreditIsCovered'
  <2>1. CreditIsCovered
    BY <1>1, <1>10 DEF OwnerInv
  <2>2. credited + mark <= new.copies /\ mark <= new.copies
    BY <1>2, <2>1, Types DEF CreditIsCovered
  <2>3. SinceMark(meterReadings \cup {new})
    BY <2>2 DEF SinceMark
  <2> QED BY <1>1, <1>4, <2>1, <2>2, <2>3 DEF CreditIsCovered, SinceMark
<1> QED
  BY <1>1, <1>6, <1>7, <1>8, <1>9, <1>10 DEF OwnerInv, RowIsLoaded

LEMMA PurgeKeeps == ASSUME OwnerInv, PurgeReading PROVE OwnerInv'
<1> DEFINE old == OldestOf(meterReadings)
<1>1. /\ UNCHANGED <<meter, read, mfp, work, resets, copies, credited, mark, unseen>>
      /\ meterReadings # {} /\ meterReadings' = meterReadings \ {old}
  BY DEF PurgeReading
<1>2. old \in meterReadings /\ \A q \in meterReadings : old.at <= q.at
  BY <1>1, Types, NewestAndOldest
<1> HIDE DEF old
<1>3. /\ Readings' \subseteq Readings /\ Fresh' = Fresh /\ Fresh \subseteq OwnerSession
      /\ \A s \in OwnerSession : OwnerLoaded(s)' = OwnerLoaded(s)
  BY <1>1 DEF Readings, Fresh, OwnerLoaded
<1>4. ASSUME NEW q \in meterReadings, q # old PROVE old.at < q.at /\ InStep(old, q)
  <2>1. q \in Readings /\ old \in Readings
    BY <1>2, Types
  <2>2. old.at # q.at
    BY <1>4, <2>1 DEF OwnerInv, ReadingsAreTrue
  <2>3. old.at < q.at
    BY <1>2, <2>1, <2>2, Types
  <2> QED BY <2>1, <2>3 DEF OwnerInv, ReadingsAreTrue
<1>5. DeviceOwnerTypeOK'
  BY <1>1 DEF OwnerInv, DeviceOwnerTypeOK
<1>6. ReadingsAreTrue'
  BY <1>1, <1>3 DEF OwnerInv, ReadingsAreTrue
<1>7. PurgedInOrder'
  <2>1. ASSUME NEW s \in OwnerSession, NEW r \in meterReadings', NEW q \in OwnerLoaded(s), r.at <= q.at
        PROVE  q \in meterReadings'
    <3>1. r \in meterReadings /\ old.at < r.at
      BY <1>1, <1>4
    <3>2. q \in meterReadings
      BY <2>1, <3>1 DEF OwnerInv, PurgedInOrder
    <3>3. q # old
      <4>1. r \in Readings /\ old \in Readings
        BY <1>2, <3>1, Types
      <4> QED BY <2>1, <3>1, <4>1, Types
    <3> QED BY <1>1, <3>2, <3>3
  <2> QED BY <1>3, <2>1 DEF PurgedInOrder
<1>8. WatermarkKept'
  <2>1. ASSUME NEW r \in meterReadings', mfp.through # 0, r.at <= mfp.through
        PROVE  \E q \in meterReadings' : q.at = mfp.through
    <3>1. r \in meterReadings /\ old.at < r.at
      BY <1>1, <1>4
    <3>2. PICK q \in meterReadings : q.at = mfp.through
      BY <2>1, <3>1 DEF OwnerInv, WatermarkKept, KeptIn
    <3>3. q # old
      <4>1. r \in Readings /\ old \in Readings
        BY <1>2, <3>1, Types
      <4> QED BY <2>1, <3>1, <3>2, <4>1, Types
    <3> QED BY <1>1, <3>2, <3>3
  <2> QED BY <1>1, <1>3, <2>1 DEF OwnerInv, WatermarkKept, KeptIn
<1>9. ASSUME unseen' = {} PROVE CreditIsCovered'
  <2>1. CreditIsCovered
    BY <1>1, <1>9 DEF OwnerInv
  <2>2. ASSUME SinceMark(meterReadings) PROVE SinceMark(meterReadings)'
    <3>1. CASE meterReadings' = {}
      BY <3>1 DEF SinceMark
    <3>2. CASE meterReadings' # {}
      <4>1. PICK r \in meterReadings : mark <= r.copies
        BY <1>1, <2>2 DEF SinceMark
      <4>2. PICK q \in meterReadings : q # old
        BY <1>1, <3>2
      <4>3. CASE r # old
        BY <1>1, <4>1, <4>3 DEF SinceMark
      <4>4. CASE r = old
        <5>1. mark <= q.copies
          <6>1. q \in Readings /\ old \in Readings /\ old.copies <= q.copies
            BY <1>2, <1>4, <4>2, Types DEF InStep
          <6> QED BY <4>1, <4>4, <6>1, Types
        <5> QED BY <1>1, <4>2, <5>1 DEF SinceMark
      <4> QED BY <4>3, <4>4
    <3> QED BY <3>1, <3>2
  <2>3. \A s \in Fresh : SinceMark(OwnerLoaded(s)) => SinceMark(OwnerLoaded(s))'
    BY <1>1, <1>3 DEF SinceMark
  <2> QED BY <1>1, <1>3, <2>1, <2>2, <2>3 DEF CreditIsCovered
<1> QED
  BY <1>1, <1>5, <1>6, <1>7, <1>8, <1>9 DEF OwnerInv, RowIsLoaded

-----------------------------------------------------------------------------
(* Loading the row and the readings, and giving up.                        *)

\* A step of one session that saves nothing keeps the invariant, if the row and
\* the readings it has are those that are committed.
LEMMA LoadingKeeps ==
    ASSUME OwnerInv, NEW s \in OwnerSession, NEW w \in Work,
           work' = [work EXCEPT ![s] = w],
           UNCHANGED <<meter, meterReadings, read, mfp, resets, copies, credited, mark, unseen>>,
           w.pc = "attribute" => w.readings = meterReadings /\ meterReadings # {},
           w.pc # "idle" /\ w.missed = {} => w.mfp = mfp
    PROVE  OwnerInv'
<1>1. work \in [OwnerSession -> Work]
  BY DEF OwnerInv, DeviceOwnerTypeOK
<1>2. /\ work'[s] = w /\ work' \in [OwnerSession -> Work]
      /\ \A q \in OwnerSession : q # s => work'[q] = work[q]
  BY <1>1
<1>3. \/ OwnerLoaded(s)' = {}
      \/ OwnerLoaded(s)' = meterReadings
  BY <1>2 DEF OwnerLoaded
<1>4. \A q \in OwnerSession : q # s => OwnerLoaded(q)' = OwnerLoaded(q) /\ (q \in Fresh' <=> q \in Fresh)
  BY <1>2 DEF OwnerLoaded, Fresh
<1>5. Readings' \subseteq Readings
  BY <1>3, <1>4, Types DEF Readings
<1>6. Fresh' \subseteq OwnerSession
  BY DEF Fresh
<1>7. DeviceOwnerTypeOK'
  BY <1>2 DEF OwnerInv, DeviceOwnerTypeOK
<1>8. ReadingsAreTrue'
  BY <1>5 DEF OwnerInv, ReadingsAreTrue
<1>9. PurgedInOrder'
  BY <1>3, <1>4 DEF OwnerInv, PurgedInOrder
<1>10. WatermarkKept'
  <2>1. ASSUME NEW q \in Fresh' PROVE KeptIn(OwnerLoaded(q))'
    <3>1. CASE q = s
      BY <1>3, <3>1 DEF OwnerInv, WatermarkKept, KeptIn
    <3>2. CASE q # s
      BY <1>4, <1>6, <3>2 DEF OwnerInv, WatermarkKept, KeptIn
    <3> QED BY <3>1, <3>2
  <2> QED BY <2>1 DEF OwnerInv, WatermarkKept, KeptIn
<1>11. RowIsLoaded'
  BY <1>2 DEF OwnerInv, RowIsLoaded
<1>12. ASSUME unseen' = {} PROVE CreditIsCovered'
  <2>1. CreditIsCovered
    BY <1>12 DEF OwnerInv
  <2>2. ASSUME mfp.through = 0, NEW q \in Fresh' PROVE SinceMark(OwnerLoaded(q))'
    <3>1. CASE q = s
      BY <1>3, <2>1, <2>2, <3>1 DEF CreditIsCovered, SinceMark
    <3>2. CASE q # s
      BY <1>4, <1>6, <2>1, <2>2, <3>2 DEF CreditIsCovered, SinceMark
    <3> QED BY <3>1, <3>2
  <2> QED BY <1>5, <2>1, <2>2 DEF CreditIsCovered, SinceMark
<1> QED
  BY <1>7, <1>8, <1>9, <1>10, <1>11, <1>12 DEF OwnerInv

LEMMA SessionLoadsKeeps ==
    ASSUME OwnerInv, NEW s \in OwnerSession,
           \/ StartAttribution(s) \/ LoadReadings(s) \/ SkipAttribution(s)
           \/ \E o \in Owner \cup {NoOwner} : LoadToName(s, o)
    PROVE  OwnerInv'
<1>1. IdleWork \in Work /\ IdleWork.pc = "idle"
  BY DeviceOwnerAssumption DEF IdleWork, Work, Nameless, Mfp
<1>2. work \in [OwnerSession -> Work] /\ mfp \in Mfp /\ meterReadings \in SUBSET MeterReading
  BY DEF OwnerInv, DeviceOwnerTypeOK
<1>3. ASSUME NEW pc \in {"loaded", "name"}, NEW o \in Owner \cup {NoOwner}, LoadsRow(s, pc, o)
      PROVE  OwnerInv'
  <2> DEFINE w == [IdleWork EXCEPT !.pc = pc, !.mfp = mfp, !.name = o]
  <2>1. w \in Work /\ w.pc = pc /\ w.mfp = mfp
    BY <1>1, <1>2 DEF Work, IdleWork
  <2>2. /\ work' = [work EXCEPT ![s] = w]
        /\ UNCHANGED <<meter, meterReadings, read, mfp, resets, copies, credited, mark, unseen>>
    BY <1>3 DEF LoadsRow
  <2> HIDE DEF w
  <2> QED BY <2>1, <2>2, LoadingKeeps
<1>4. CASE LoadReadings(s)
  <2> DEFINE w == IF meterReadings = {} THEN IdleWork
                  ELSE [work[s] EXCEPT !.pc = "attribute", !.readings = meterReadings]
  <2>1. work[s] \in Work /\ work[s].pc = "loaded"
    BY <1>2, <1>4 DEF LoadReadings
  <2>2. /\ w \in Work
        /\ w.pc = "attribute" => w.readings = meterReadings /\ meterReadings # {}
        /\ w.pc # "idle" => w.missed = work[s].missed /\ w.mfp = work[s].mfp
    BY <1>1, <1>2, <2>1 DEF Work
  <2>3. /\ work' = [work EXCEPT ![s] = w]
        /\ UNCHANGED <<meter, meterReadings, read, mfp, resets, copies, credited, mark, unseen>>
    BY <1>4 DEF LoadReadings
  <2> HIDE DEF w
  <2>4. w.pc # "idle" /\ w.missed = {} => w.mfp = mfp
    BY <2>1, <2>2 DEF OwnerInv, RowIsLoaded
  <2> QED BY <2>2, <2>3, <2>4, LoadingKeeps
<1>5. CASE SkipAttribution(s)
  <2>1. /\ work' = [work EXCEPT ![s] = IdleWork]
        /\ UNCHANGED <<meter, meterReadings, read, mfp, resets, copies, credited, mark, unseen>>
    BY <1>5 DEF SkipAttribution
  <2> QED BY <1>1, <2>1, LoadingKeeps
<1> QED
  BY <1>3, <1>4, <1>5 DEF StartAttribution, LoadToName

-----------------------------------------------------------------------------
(* Naming an owner, and attribution.                                       *)

\* Who saves leaves nobody at work that has missed nothing.
LEMMA SavingKeeps ==
    ASSUME OwnerInv, NEW s \in OwnerSession, NEW row \in Mfp, NEW what \in {"naming", "run"},
           Saves(s, row, what),
           UNCHANGED <<meter, meterReadings, read, resets, copies>>
    PROVE  /\ mfp' = row /\ work' \in [OwnerSession -> Work]
           /\ Readings' \subseteq Readings /\ Fresh' = {}
           /\ \A q \in OwnerSession : OwnerLoaded(q)' \subseteq OwnerLoaded(q)
           /\ ReadingsAreTrue' /\ PurgedInOrder' /\ RowIsLoaded'
<1>1. IdleWork \in Work /\ IdleWork.pc = "idle"
  BY DeviceOwnerAssumption DEF IdleWork, Work, Nameless, Mfp
<1>2. work \in [OwnerSession -> Work]
  BY DEF OwnerInv, DeviceOwnerTypeOK
<1>3. mfp' = row
  BY DEF Saves
<1>4. ASSUME NEW q \in OwnerSession
      PROVE  \/ work'[q] = IdleWork
             \/ work'[q] = [work[q] EXCEPT !.missed = @ \cup {what}]
  BY DEF Saves
<1>5. ASSUME NEW q \in OwnerSession
      PROVE  /\ work'[q] \in Work
             /\ work'[q].pc # "idle" => /\ work'[q].missed # {} /\ work'[q].pc = work[q].pc
                                        /\ work'[q].readings = work[q].readings
  <2>1. CASE work'[q] = IdleWork
    BY <1>1, <2>1
  <2>2. CASE work'[q] = [work[q] EXCEPT !.missed = @ \cup {what}]
    <3>1. work[q] \in Work
      BY <1>2
    <3>2. work[q].missed \cup {what} \in SUBSET {"naming", "run"} /\ what \in work[q].missed \cup {what}
      BY <3>1 DEF Work
    <3> QED BY <2>2, <3>1, <3>2 DEF Work
  <2> QED BY <1>4, <2>1, <2>2
<1>6. work' \in [OwnerSession -> Work]
  <2>1. work' = [q \in OwnerSession |-> work'[q]]
    BY DEF Saves
  <2> QED BY <1>5, <2>1
<1>7. Fresh' = {} /\ \A q \in OwnerSession : OwnerLoaded(q)' \subseteq OwnerLoaded(q)
  BY <1>5 DEF Fresh, OwnerLoaded
<1>8. Readings' \subseteq Readings
  BY <1>7 DEF Readings
<1>9. ReadingsAreTrue' /\ PurgedInOrder'
  BY <1>7, <1>8 DEF OwnerInv, ReadingsAreTrue, PurgedInOrder
<1>10. RowIsLoaded'
  BY <1>5 DEF OwnerInv, RowIsLoaded
<1> QED
  BY <1>3, <1>6, <1>7, <1>8, <1>9, <1>10

LEMMA NameKeeps == ASSUME OwnerInv, NEW s \in OwnerSession, NameOwner(s) PROVE OwnerInv'
<1> DEFINE through == IF work[s].mfp.through = 0 THEN mfp.through ELSE 0
           row == [owner |-> work[s].name, through |-> through]
<1>1. /\ UNCHANGED <<meter, meterReadings, read, resets, copies>>
      /\ Saves(s, row, "naming") /\ credited' = 0
      /\ mark' = IF meterReadings = {} THEN copies ELSE NewestOf(meterReadings).copies
      /\ unseen' = IF work[s].mfp.through = 0 /\ mfp.through # 0 THEN {"run"} ELSE {}
  BY DEF NameOwner, Names
<1>2. row \in Mfp /\ row.through = through
  BY DeviceOwnerAssumption DEF OwnerInv, DeviceOwnerTypeOK, Work, Mfp
<1>3. through = mfp.through \/ through = 0
  OBVIOUS
<1>4. unseen' = {} => through = 0
  BY <1>1
<1> HIDE DEF row, through
<1>5. /\ mfp' = row /\ work' \in [OwnerSession -> Work]
      /\ Readings' \subseteq Readings /\ Fresh' = {}
      /\ ReadingsAreTrue' /\ PurgedInOrder' /\ RowIsLoaded'
  BY <1>1, <1>2, SavingKeeps
<1>6. meterReadings # {} => /\ NewestOf(meterReadings) \in meterReadings
                            /\ NewestOf(meterReadings).copies <= copies
                            /\ NewestOf(meterReadings).copies \in Copies
  <2>1. meterReadings # {} => NewestOf(meterReadings) \in meterReadings
    BY Types, NewestAndOldest
  <2>2. \A r \in meterReadings : r.copies <= copies /\ r.copies \in Copies
    BY Types DEF OwnerInv, ReadingsAreTrue, MeterReading
  <2> QED BY <2>1, <2>2
<1>7. mark' \in Copies /\ mark' <= copies /\ mark' \in Nat
  BY <1>1, <1>6, Types, DeviceOwnerAssumption DEF OwnerInv, DeviceOwnerTypeOK, Copies
<1>8. DeviceOwnerTypeOK'
  <2>1. unseen' \subseteq {"naming", "run"} /\ credited' \in Nat
    BY <1>1
  <2> QED BY <1>1, <1>2, <1>5, <1>7, <2>1 DEF OwnerInv, DeviceOwnerTypeOK
<1>9. WatermarkKept'
  BY <1>1, <1>2, <1>3, <1>5, Types DEF OwnerInv, WatermarkKept, KeptIn
<1>10. ASSUME unseen' = {} PROVE CreditIsCovered'
  <2>1. SinceMark(meterReadings)'
    <3>1. CASE meterReadings = {}
      BY <1>1, <3>1 DEF SinceMark
    <3>2. CASE meterReadings # {}
      <4>1. mark' = NewestOf(meterReadings).copies
        BY <1>1, <3>2
      <4>2. mark' <= NewestOf(meterReadings).copies
        BY <1>7, <4>1
      <4> QED BY <1>1, <1>6, <3>2, <4>2 DEF SinceMark
    <3> QED BY <3>1, <3>2
  <2>2. credited' + mark' <= copies'
    BY <1>1, <1>7, Types
  <2>3. mfp'.through = 0
    BY <1>2, <1>4, <1>5, <1>10
  <2> QED BY <1>1, <1>5, <2>1, <2>2, <2>3 DEF CreditIsCovered
<1> QED
  BY <1>1, <1>5, <1>8, <1>9, <1>10 DEF OwnerInv

\* What a run loaded has a newest reading, and what it adds is a number.
LEMMA RunAdds ==
    ASSUME OwnerInv, NEW s \in OwnerSession, work[s].pc = "attribute",
           NEW latest, latest = NewestOf(work[s].readings)
    PROVE  /\ OwnerLoaded(s) = work[s].readings /\ OwnerLoaded(s) # {}
           /\ latest \in OwnerLoaded(s) /\ \A q \in OwnerLoaded(s) : q.at <= latest.at
           /\ BaseReading(s) \in OwnerLoaded(s) /\ AttributedPages(s) \in Nat
<1>1. /\ OwnerLoaded(s) = work[s].readings /\ OwnerLoaded(s) # {}
      /\ OwnerLoaded(s) \in SUBSET MeterReading
  BY Types DEF OwnerInv, RowIsLoaded, OwnerLoaded
<1>2. latest \in OwnerLoaded(s) /\ \A q \in OwnerLoaded(s) : q.at <= latest.at
  BY <1>1, NewestAndOldest
<1>3. BaseReading(s) \in OwnerLoaded(s)
  <2> DEFINE before == {r \in work[s].readings : r.at <= work[s].mfp.through}
  <2>1. BaseReading(s) = IF before # {} THEN NewestOf(before) ELSE OldestOf(OwnerLoaded(s))
    BY <1>1 DEF BaseReading
  <2>2. before \in SUBSET MeterReading /\ before \subseteq OwnerLoaded(s)
    BY <1>1
  <2> HIDE DEF before
  <2>3. before # {} => NewestOf(before) \in before
    BY <2>2, NewestAndOldest
  <2>4. OldestOf(OwnerLoaded(s)) \in OwnerLoaded(s)
    BY <1>1, NewestAndOldest
  <2> QED BY <2>1, <2>2, <2>3, <2>4
<1>4. AttributedPages(s) \in Nat
  <2> DEFINE base == BaseReading(s)
             up == latest.value - base.value
  <2> HIDE DEF base
  <2>1. base.value \in Nat /\ latest.value \in Nat
    BY <1>1, <1>2, <1>3, Types DEF base
  <2>2. up \in Int
    BY <2>1
  <2>3. AttributedPages(s) = 0 \/ AttributedPages(s) = Max({up, 0})
    BY DEF AttributedPages, base
  <2>4. Max({up, 0}) = IF up > 0 THEN up ELSE 0
    <3> HIDE DEF up
    <3> QED BY <2>2, MaxWithZero
  <2> QED BY <2>2, <2>3, <2>4
<1> QED
  BY <1>1, <1>2, <1>3, <1>4

\* What a run that has missed nothing adds is at most what was copied since what
\* is credited already.
LEMMA AddedIsCovered ==
    ASSUME OwnerInv, unseen = {}, NEW s \in Fresh,
           NEW latest, latest = NewestOf(work[s].readings)
    PROVE  credited + AttributedPages(s) + mark <= latest.copies
<1>1. /\ s \in OwnerSession /\ work[s].pc = "attribute" /\ work[s].mfp = mfp
      /\ OwnerLoaded(s) \in SUBSET MeterReading /\ OwnerLoaded(s) \subseteq Readings
      /\ CreditIsCovered
  BY Types DEF Fresh, OwnerInv, RowIsLoaded
<1>2. /\ OwnerLoaded(s) = work[s].readings /\ OwnerLoaded(s) # {}
      /\ latest \in OwnerLoaded(s) /\ \A q \in OwnerLoaded(s) : q.at <= latest.at
  BY <1>1, RunAdds
<1>3. CASE mfp.through = 0
  <2>1. AttributedPages(s) = 0
    BY <1>1, <1>3 DEF AttributedPages
  <2>2. credited = 0 /\ SinceMark(OwnerLoaded(s))
    BY <1>1, <1>3 DEF CreditIsCovered
  <2>3. PICK r \in OwnerLoaded(s) : mark <= r.copies
    BY <1>2, <2>2 DEF SinceMark
  <2>4. InStep(r, latest)
    BY <1>1, <1>2, NewestInStep, Types DEF OwnerInv
  <2>5. mark <= latest.copies
    BY <1>1, <1>2, <2>3, <2>4, Types DEF InStep
  <2> QED BY <2>1, <2>2, <2>5, Types
<1>4. CASE mfp.through # 0
  <2> DEFINE base == BaseReading(s)
             before == {r \in OwnerLoaded(s) : r.at <= mfp.through}
  <2>1. base \in OwnerLoaded(s) /\ mfp.through <= base.at
    <3>1. CASE before # {}
      <4>1. base = NewestOf(before)
        BY <1>1, <1>2, <3>1 DEF BaseReading
      <4>2. before \in SUBSET MeterReading
        BY <1>1
      <4>3. base \in before /\ \A q \in before : q.at <= base.at
        <5> HIDE DEF before
        <5> QED BY <3>1, <4>1, <4>2, NewestAndOldest
      <4>4. PICK q \in OwnerLoaded(s) : q.at = mfp.through
        BY <1>4, <4>3 DEF OwnerInv, WatermarkKept, KeptIn
      <4>5. q \in before
        BY <1>1, <4>4, Types
      <4> QED BY <4>3, <4>4, <4>5
    <3>2. CASE before = {}
      <4>1. base = OldestOf(OwnerLoaded(s))
        BY <1>1, <1>2, <3>2 DEF BaseReading
      <4>2. base \in OwnerLoaded(s)
        BY <1>1, <1>2, <4>1, NewestAndOldest
      <4>3. ~(base.at <= mfp.through)
        BY <3>2, <4>2
      <4> QED
        <5> HIDE DEF base
        <5> QED BY <1>1, <4>2, <4>3, Types
    <3> QED BY <3>1, <3>2
  <2> HIDE DEF base, before
  <2>2. credited + mark <= base.copies
    BY <1>1, <1>4, <2>1 DEF CreditIsCovered
  <2>3. InStep(base, latest)
    BY <1>1, <1>2, <2>1, NewestInStep, Types DEF OwnerInv
  <2>4. /\ base.value \in Nat /\ latest.value \in Nat /\ base.copies \in Nat
        /\ latest.copies \in Nat /\ credited \in Nat /\ mark \in Nat
    BY <1>1, <1>2, <2>1, Types
  <2> DEFINE up == latest.value - base.value
  <2>5. up \in Int
    BY <2>4
  <2>6. AttributedPages(s) = Max({up, 0})
    BY <1>1, <1>4 DEF AttributedPages, base
  <2>7. Max({up, 0}) = IF up > 0 THEN up ELSE 0
    <3> HIDE DEF up
    <3> QED BY <2>5, MaxWithZero
  <2>8. AttributedPages(s) = IF up > 0 THEN up ELSE 0
    BY <2>6, <2>7
  <2>9. CASE up > 0
    BY <2>2, <2>3, <2>4, <2>8, <2>9 DEF InStep
  <2>10. CASE ~(up > 0)
    BY <2>2, <2>3, <2>4, <2>8, <2>10 DEF InStep
  <2> QED BY <2>9, <2>10
<1> QED
  BY <1>3, <1>4

LEMMA CommitCreditKeeps ==
    ASSUME OwnerInv, NEW s \in OwnerSession, CommitAttribution(s) PROVE OwnerInv'
<1> DEFINE latest == NewestOf(work[s].readings)
           row == [mfp EXCEPT !.through = latest.at]
<1>1. /\ UNCHANGED <<meter, meterReadings, read, resets, copies, mark>>
      /\ work[s].pc = "attribute" /\ Saves(s, row, "run")
      /\ credited' = credited + IF "naming" \in work[s].missed THEN 0 ELSE AttributedPages(s)
      /\ unseen' = unseen \cup work[s].missed
  BY DEF CommitAttribution
<1>2. /\ latest \in OwnerLoaded(s) /\ \A q \in OwnerLoaded(s) : q.at <= latest.at
      /\ AttributedPages(s) \in Nat
  BY <1>1, RunAdds
<1>3. /\ latest \in Readings /\ latest \in MeterReading
      /\ latest.at \in Nat /\ latest.at # 0 /\ latest.copies \in Nat
      /\ latest.at <= read /\ latest.copies <= copies
  <2>1. latest \in Readings /\ latest \in MeterReading
    BY <1>2, Types
  <2> QED
    <3> HIDE DEF latest
    <3> QED BY <2>1, Types DEF OwnerInv, ReadingsAreTrue
<1>4. row \in Mfp /\ row.through = latest.at
  <2>1. latest.at \in 0..NumReadings
    <3> HIDE DEF latest
    <3> QED BY <1>3, DeviceOwnerAssumption DEF MeterReading, ReadingTime
  <2>2. mfp \in Mfp
    BY DEF OwnerInv, DeviceOwnerTypeOK
  <2> HIDE DEF latest
  <2> QED BY <2>1, <2>2 DEF Mfp
<1>5. ASSUME unseen' = {} PROVE unseen = {} /\ s \in Fresh /\ credited' = credited + AttributedPages(s)
  BY <1>1, <1>5 DEF Fresh
<1>6. unseen = {} /\ s \in Fresh => credited + AttributedPages(s) + mark <= latest.copies
  BY AddedIsCovered
<1> HIDE DEF latest, row
<1>7. /\ mfp' = row /\ work' \in [OwnerSession -> Work]
      /\ Readings' \subseteq Readings /\ Fresh' = {}
      /\ ReadingsAreTrue' /\ PurgedInOrder' /\ RowIsLoaded'
  BY <1>1, <1>4, SavingKeeps
<1>8. DeviceOwnerTypeOK'
  <2>1. credited' \in Nat
    BY <1>1, <1>2, Types
  <2>2. unseen' \subseteq {"naming", "run"}
    BY <1>1 DEF OwnerInv, DeviceOwnerTypeOK, Work
  <2> QED BY <1>1, <1>4, <1>7, <2>1, <2>2 DEF OwnerInv, DeviceOwnerTypeOK
<1>9. WatermarkKept'
  <2>1. ASSUME NEW r \in meterReadings, r.at <= latest.at PROVE latest \in meterReadings
    BY <1>2, <2>1 DEF OwnerInv, PurgedInOrder
  <2> QED BY <1>1, <1>3, <1>4, <1>7, <2>1 DEF WatermarkKept, KeptIn
<1>10. ASSUME unseen' = {} PROVE CreditIsCovered'
  <2>1. credited' + mark <= latest.copies /\ credited' \in Nat
    BY <1>2, <1>5, <1>6, <1>10, Types
  <2>2. credited' + mark <= copies
    BY <1>3, <2>1, Types
  <2>3. ASSUME NEW r \in Readings', latest.at <= r.at PROVE credited' + mark <= r.copies
    <3>1. r \in Readings
      BY <1>7
    <3>2. latest.copies <= r.copies
      BY <1>3, <2>3, <3>1, NewestInStep, Types DEF OwnerInv, InStep
    <3> QED BY <1>3, <2>1, <3>1, <3>2, Types
  <2> QED BY <1>1, <1>3, <1>4, <1>7, <2>2, <2>3 DEF CreditIsCovered
<1> QED
  BY <1>1, <1>7, <1>8, <1>9, <1>10 DEF OwnerInv

-----------------------------------------------------------------------------
\* The invariant above holds, and with it DeviceOwner's types
\* (attribute_device_copies, update_mfp_device).
THEOREM OwnerInvHolds == DeviceOwnerSpec => []OwnerInv
<1>1. DeviceOwnerInit => OwnerInv
  BY OwnerStarts
<1>2. OwnerInv /\ [DeviceOwnerNext]_deviceOwnerVars => OwnerInv'
  <2> SUFFICES ASSUME OwnerInv, [DeviceOwnerNext]_deviceOwnerVars PROVE OwnerInv'
    OBVIOUS
  <2>1. CASE DeviceOwnerNext
    BY <2>1, SessionLoadsKeeps, CommitCreditKeeps, NameKeeps, MeterKeeps, ReadMeterKeeps, PurgeKeeps
       DEF DeviceOwnerNext
  <2>2. CASE UNCHANGED deviceOwnerVars
    BY <2>2
       DEF deviceOwnerVars, OwnerInv, DeviceOwnerTypeOK, ReadingsAreTrue, PurgedInOrder,
           WatermarkKept, KeptIn, RowIsLoaded, CreditIsCovered, SinceMark, Readings, OwnerLoaded, Fresh
  <2> QED BY <2>1, <2>2
<1> QED
  BY <1>1, <1>2, PTL DEF DeviceOwnerSpec

\* A new owner is credited with copies made from the naming on and with each of
\* them once, whatever is read, reset, purged or retried in whatever order, and
\* whoever is named while a run is at work, until a session saves over what it
\* had not seen (attribute_device_copies, update_mfp_device).
THEOREM CreditedHolds == DeviceOwnerSpec => []CreditedFromHereOn
<1>1. OwnerInv => CreditedFromHereOn
  <2> SUFFICES ASSUME OwnerInv, unseen = {} PROVE credited <= copies - mark
    BY DEF CreditedFromHereOn
  <2>1. credited + mark <= copies
    BY DEF OwnerInv, CreditIsCovered
  <2> QED BY <2>1, Types
<1> QED
  BY <1>1, OwnerInvHolds, PTL
===============================================================================
