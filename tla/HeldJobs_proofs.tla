-------------------------- MODULE HeldJobs_proofs --------------------------
(***************************************************************************)
(* Proofs about HeldJobs, for any number of jobs, printers, requests and   *)
(* crashes.                                                                *)
(*                                                                         *)
(* IInv is the inductive invariant.  To the properties themselves it adds  *)
(* what each handler may rely on between its steps: a handler that is busy *)
(* has a row, a row in somebody's hands was created once and is not purged *)
(* for its age, a discard that has claimed a row and a cancel that is      *)
(* about to write one found it or took it out of "held", and whatever is   *)
(* about to be written "forwarded" was accepted by lp.                     *)
(***************************************************************************)
EXTENDS HeldCustody, WellFoundedInduction, TLAPS

\* A request that is doing something is doing it about a row.
TaskHasJob == \A t \in Request : task[t].pc # "idle" => task[t].job \in Job

\* A discard that is about to remove a document has claimed its row, a cancel
\* that is about to write one has read it as failed, and no row goes back to
\* "held".
DiscardClaimed ==
    \A t \in Request :
        task[t].pc \in {"unlink", "cancel"} =>
            jobs[task[t].job].status \notin {"absent", "held"}

\* ... and has given the path of the document up.
DiscardWaived ==
    \A t \in Request : task[t].pc = "unlink" => ~jobs[task[t].job].path

\* A row that was not created is blank, and nothing is spooled under its id.
NewIsBlank == \A j \in Job : jobs[j].status = "absent" => jobs[j] = NoRow /\ j \notin spool

\* Only what was held is spooled.
SpooledWasHeld == \A j \in spool : jobs[j].reason # "none"

\* A row in somebody's hands was created.
InHandExists == \A j \in Job : InHand(j) => jobs[j].status # "absent"

\* A document that has not arrived has not been handed to CUPS.
NewIsUnsent == \A j \in Job : jobs[j].status = "absent" => sent[j] = 0

\* What is about to be written "forwarded" was accepted by lp.
AcceptedWasSent ==
    /\ \A t \in Request : task[t].pc = "accepted" => sent[task[t].job] > 0
    /\ \A s \in Sweeper :
        /\ sweep[s].pc = "accepted" =>
            sweep[s].todo # {} /\ sent[Oldest(sweep[s].todo)] > 0
        /\ \A j \in sweep[s].released : sent[j] > 0

\* A failed row old enough to be purged is in nobody's hands.
AgedIsSettled ==
    \A j \in Job : jobs[j].status = "failed" /\ jobs[j].age > 0 => ~InHand(j)

\* A row that was deleted in somebody's hands went with its printer.
DeletedInHand ==
    \A j \in Job :
        jobs[j].status = "deleted" /\ InHand(j)
        => \E p \in Printer : fleet[p] = "deleted"

IInv ==
    /\ TypeOK
    /\ TaskHasJob /\ DiscardClaimed /\ DiscardWaived
    /\ InHandExists /\ NewIsBlank /\ SpooledWasHeld /\ NewIsUnsent /\ AcceptedWasSent
    /\ AgedIsSettled /\ DeletedInHand
    /\ HeldHasPath /\ HeldDocumentSurvives
    /\ ForwardedWasSent /\ HeldMeansUnsent

-----------------------------------------------------------------------------
(* The rows of a transaction are looked at in the order of their ids.      *)

LEMMA OldestIsMember ==
    ASSUME NEW S \in SUBSET Job, S # {}
    PROVE  Oldest(S) \in S
<1> DEFINE Less == OpToRel(<, Nat)
<1>1. S \subseteq Nat
  BY JobTableAssumption
<1>2. IsWellFoundedOn(Less, Nat)
  BY NatLessThanWellFounded
<1>3. PICK j \in S : \A k \in S : <<k, j>> \notin Less
  <2> HIDE DEF Less
  <2> QED BY <1>1, <1>2, WFMin
<1>4. ASSUME NEW k \in S, k < j
      PROVE  FALSE
  <2>1. /\ <<k, j>> \in Nat \X Nat
        /\ <<k, j>>[1] < <<k, j>>[2]
    BY <1>1, <1>4
  <2>2. <<k, j>> \in Less
    BY ONLY <2>1, Zenon DEF OpToRel
  <2> QED
    BY <1>3, <2>2
<1>5. \A k \in S : j <= k
  BY <1>1, <1>4
<1> QED
  BY <1>5 DEF Oldest

-----------------------------------------------------------------------------

LEMMA InitIInv == Init => IInv
<1> SUFFICES ASSUME Init PROVE IInv
  OBVIOUS
<1> USE JobTableAssumption, HeldJobsAssumption DEF Init, TableInit, HeldInit
<1>1. TypeOK
  BY DEF TypeOK, TableTypeOK, JobRow, NoRow, Status, HoldReason, Task, IdleTask,
         Sweep, IdleSweep, Sweeper
<1>2. \A j \in Job : ~InHand(j)
  BY DEF InHand, IdleTask, IdleSweep
<1> QED
  BY <1>1, <1>2 DEF IInv, TaskHasJob, DiscardClaimed, DiscardWaived, InHandExists, NewIsBlank,
       SpooledWasHeld, NewIsUnsent, AcceptedWasSent, AgedIsSettled, DeletedInHand, HeldHasPath,
       HeldDocumentSurvives, ForwardedWasSent, HeldMeansUnsent,
       NoRow, IdleTask, IdleSweep

-----------------------------------------------------------------------------

LEMMA RowWrites ==
    ASSUME NEW row \in JobRow, NEW status \in Status
    PROVE  /\ Closed(row, status) \in JobRow
           /\ Closed(row, status).status = status
           /\ Closed(row, status).age = 0
           /\ Closed(row, status).path = row.path
           /\ Disposed(row, status) \in JobRow
           /\ Disposed(row, status).status = status
           /\ Disposed(row, status).age = 0
<1>1. [row EXCEPT !.status = status] \in JobRow
  BY DEF JobRow
<1>2. ASSUME NEW r \in JobRow
      PROVE  [r EXCEPT !.age = 0] \in JobRow
  BY DEF JobRow
<1>3. ASSUME NEW r \in JobRow
      PROVE  [r EXCEPT !.path = FALSE] \in JobRow
  BY DEF JobRow
<1>4. /\ Closed(row, status) = [[row EXCEPT !.status = status] EXCEPT !.age = 0]
      /\ Disposed(row, status) = [Closed(row, status) EXCEPT !.path = FALSE]
  BY DEF Closed, Disposed
<1>5. Closed(row, status) \in JobRow /\ Disposed(row, status) \in JobRow
  BY <1>1, <1>2, <1>3, <1>4
<1>6. /\ Closed(row, status).status = status
      /\ Closed(row, status).age = 0
      /\ Closed(row, status).path = row.path
  BY DEF JobRow, Closed
<1>7. /\ Disposed(row, status).status = status
      /\ Disposed(row, status).age = 0
  BY DEF JobRow, Closed, Disposed
<1> QED
  BY <1>5, <1>6, <1>7

LEMMA SupersedeWrites ==
    ASSUME NEW row \in JobRow, NEW j \in Job
    PROVE  /\ Supersede(row, j) \in JobRow
           /\ Supersede(row, j).status = "cancelled"
           /\ Supersede(row, j).age = 0
           /\ Supersede(row, j).path = row.path
           /\ Supersede(row, j).reason = row.reason
           /\ Supersede(row, j).superseded = j
<1> DEFINE closed == Closed(row, "cancelled")
<1>1. closed \in JobRow /\ closed.status = "cancelled" /\ closed.age = 0
      /\ closed.path = row.path
  BY RowWrites DEF Status
<1>2. closed.reason = row.reason
  BY DEF Closed, JobRow
<1> HIDE DEF closed
<1>3. Supersede(row, j) = [closed EXCEPT !.superseded = j]
  BY DEF Supersede, closed
<1> QED
  BY <1>1, <1>2, <1>3 DEF JobRow

\* An attempt arrives: its row is held, or is to be delivered at once.
Arrives(j) ==
    \E c \in CupsJob :
        \/ \E r \in HoldReason : HoldArrives(j, c, r)
        \/ AttemptArrives(j, c)

\* What an attempt that arrives does to its own row and to the others.
LEMMA ArrivalEffect ==
    ASSUME TypeOK, NEW j \in Job, Arrives(j)
    PROVE  /\ jobs[j].status = "absent" /\ jobs' \in [Job -> JobRow]
           /\ UNCHANGED <<fleet, online, heldVars>>
           /\ jobs'[j].age = 0
           /\ \/ /\ jobs'[j].status = "held" /\ jobs'[j].path
                 /\ jobs'[j].reason # "none" /\ spool' = spool \cup {j}
              \/ /\ jobs'[j].status = "forwarding" /\ ~jobs'[j].path
                 /\ jobs'[j].reason = "none" /\ spool' = spool
           /\ \A k \in Job \ {j} :
                 \/ jobs'[k] = jobs[k]
                 \/ /\ Exists(k) /\ jobs[k].status \notin {"forwarded", "held"}
                    /\ jobs'[k] = Supersede(jobs[k], j)
<1>1. PICK c \in CupsJob : (\E r \in HoldReason : HoldArrives(j, c, r)) \/ AttemptArrives(j, c)
  BY DEF Arrives
<1> DEFINE Fits(row) ==
      \/ row.status = "held" /\ row.path /\ row.reason # "none" /\ spool' = spool \cup {j}
      \/ row.status = "forwarding" /\ ~row.path /\ row.reason = "none" /\ spool' = spool
<1>2. NoRow \in JobRow
  BY DEF NoRow, JobRow, Status
<1>3. PICK row \in JobRow : Attempt(j, c, row) /\ row.age = 0 /\ Fits(row)
  <2>1. ASSUME NEW r \in HoldReason, HoldArrives(j, c, r)
        PROVE  \E row \in JobRow : Attempt(j, c, row) /\ row.age = 0 /\ Fits(row)
    <3> DEFINE new == HeldRow(c, r)
    <3>1. new = [NoRow EXCEPT !.status = "held", !.reason = r, !.cups = c, !.path = TRUE]
      BY DEF HeldRow
    <3>2. new \in JobRow
      BY <1>2, <3>1 DEF JobRow, Status
    <3>3. new.age = 0 /\ new.status = "held" /\ new.path = TRUE /\ new.reason = r
      BY <3>1 DEF NoRow
    <3>4. Attempt(j, c, new) /\ spool' = spool \cup {j}
      BY <2>1 DEF HoldArrives
    <3>5. r # "none"
      BY DEF HoldReason
    <3> HIDE DEF new
    <3>6. new.path
      BY <3>3, Zenon
    <3> QED BY <3>2, <3>3, <3>4, <3>5, <3>6
  <2>2. ASSUME AttemptArrives(j, c)
        PROVE  \E row \in JobRow : Attempt(j, c, row) /\ row.age = 0 /\ Fits(row)
    <3> DEFINE new == [NoRow EXCEPT !.status = "forwarding", !.cups = c]
    <3>2. new \in JobRow
      BY <1>2 DEF JobRow, Status
    <3>3. new.age = 0 /\ new.status = "forwarding" /\ new.path = FALSE /\ new.reason = "none"
      BY DEF NoRow
    <3>4. Attempt(j, c, new) /\ spool' = spool
      BY <2>2 DEF AttemptArrives
    <3> HIDE DEF new
    <3>5. ~new.path
      BY <3>3, Zenon
    <3> QED BY <3>2, <3>3, <3>4, <3>5
  <2> QED BY <1>1, <2>1, <2>2
<1>4. /\ jobs[j].status = "absent" /\ UNCHANGED <<fleet, online, heldVars>>
      /\ jobs' = [k \in Job |-> IF k = j THEN row
                               ELSE IF k \in EarlierAttempts(c, j) THEN Supersede(jobs[k], j)
                               ELSE jobs[k]]
  BY <1>3 DEF Attempt, IsNext
<1>5. jobs'[j] = row
  BY <1>4
<1>6. ASSUME NEW k \in Job \ {j}
      PROVE  /\ jobs'[k] \in JobRow
             /\ \/ jobs'[k] = jobs[k]
                \/ /\ Exists(k) /\ jobs[k].status \notin {"forwarded", "held"}
                   /\ jobs'[k] = Supersede(jobs[k], j)
  <2>1. jobs[k] \in JobRow
    BY DEF TypeOK, TableTypeOK
  <2>2. CASE k \in EarlierAttempts(c, j)
    <3>1. jobs'[k] = Supersede(jobs[k], j)
      BY <1>4, <2>2
    <3>2. Exists(k) /\ jobs[k].status \notin {"forwarded", "held"}
      BY <2>2 DEF EarlierAttempts
    <3> QED BY <2>1, <3>1, <3>2, SupersedeWrites
  <2>3. CASE k \notin EarlierAttempts(c, j)
    BY <1>4, <2>1, <2>3
  <2> QED BY <2>2, <2>3
<1>7. jobs' \in [Job -> JobRow]
  BY <1>3, <1>4, <1>5, <1>6
<1> HIDE DEF Fits
<1>8. Fits(jobs'[j])
  BY <1>3, <1>5
<1> QED
  BY <1>3, <1>4, <1>5, <1>6, <1>7, <1>8 DEF Fits

\* Nobody's work is touched by it.
LEMMA ArrivalIsQuiet ==
    ASSUME TypeOK, NEW j \in Job, Arrives(j)
    PROVE  UNCHANGED heldVars
BY ArrivalEffect

\* The rows an automatic release has in hand.
Carried(s) == sweep[s].todo \cup sweep[s].released \cup sweep[s].failed

\* A visit that begins carries nothing more.
LEMMA VisitEffect ==
    ASSUME TypeOK, NEW s \in Sweeper, NEW S \in SUBSET Printer, Visit(s, S)
    PROVE  /\ UNCHANGED <<task, expiring>>
           /\ \A r \in Sweeper : Carried(r)' = Carried(r)
<1> DEFINE new == [sweep[s] EXCEPT !.pc = "run", !.printers = S]
<1>1. sweep[s] \in Sweep
  BY DEF TypeOK
<1>2. new.todo = sweep[s].todo /\ new.released = sweep[s].released /\ new.failed = sweep[s].failed
  BY <1>1 DEF Sweep
<1>3. sweep' = [sweep EXCEPT ![s] = new] /\ UNCHANGED <<task, expiring>>
  BY DEF Visit
<1> QED
  BY <1>2, <1>3 DEF TypeOK, Carried

\* A document that is submitted stays in hand.
LEMMA SubmitEffect ==
    ASSUME TypeOK, NEW s \in Sweeper, SubmitOldest(s)
    PROVE  /\ UNCHANGED <<tableVars, task, expiring, crashes>>
           /\ Oldest(sweep[s].todo) \in sweep[s].todo
           /\ sweep' \in [Sweeper -> Sweep]
           /\ \A r \in Sweeper : Carried(r)' = Carried(r)
<1> DEFINE j == Oldest(sweep[s].todo)
           old == sweep[s]
           accepted == [old EXCEPT !.pc = "accepted"]
           failed == [old EXCEPT !.todo = @ \ {j}, !.failed = @ \cup {j}]
<1>1. sweep \in [Sweeper -> Sweep] /\ old \in Sweep
  BY DEF TypeOK
<1>2. old.todo \in SUBSET Job /\ old.failed \in SUBSET Job /\ old.todo # {}
  BY <1>1 DEF SubmitOldest, Sweep
<1>3. j \in old.todo
  BY <1>2, OldestIsMember
<1>4. /\ UNCHANGED <<tableVars, task, expiring, crashes>>
      /\ \/ sweep' = [sweep EXCEPT ![s] = accepted]
         \/ sweep' = [sweep EXCEPT ![s] = failed]
  BY DEF SubmitOldest
<1> HIDE DEF j
<1>5. accepted \in Sweep /\ accepted.todo = old.todo /\ accepted.failed = old.failed
      /\ accepted.released = old.released
  BY <1>1 DEF Sweep
<1>6. failed \in Sweep /\ failed.todo = old.todo \ {j} /\ failed.failed = old.failed \cup {j}
      /\ failed.released = old.released
  <2>1. old.todo \ {j} \in SUBSET Job /\ old.failed \cup {j} \in SUBSET Job
    BY <1>2, <1>3
  <2> QED BY <1>1, <2>1 DEF Sweep
<1> HIDE DEF accepted, failed
<1>7. sweep' \in [Sweeper -> Sweep]
  BY <1>1, <1>4, <1>5, <1>6
<1>8. ASSUME NEW r \in Sweeper PROVE Carried(r)' = Carried(r)
  <2>1. CASE r # s
    BY <1>1, <1>4, <2>1 DEF Carried
  <2>2. CASE r = s
    <3>1. sweep'[s] = accepted \/ sweep'[s] = failed
      BY <1>1, <1>4
    <3> QED BY <1>3, <1>5, <1>6, <2>2, <3>1 DEF Carried
  <2> QED BY <2>1, <2>2
<1> QED
  BY <1>3, <1>4, <1>7, <1>8 DEF j

\* A document that is unlinked stays in hand, as one that was released.
LEMMA UnlinkEffect ==
    ASSUME TypeOK, AcceptedWasSent, NEW s \in Sweeper, UnlinkReleased(s)
    PROVE  /\ UNCHANGED <<jobs, fleet, online, task, expiring, sent, crashes>>
           /\ spool' = spool \ {Oldest(sweep[s].todo)}
           /\ Oldest(sweep[s].todo) \in sweep[s].todo /\ sent[Oldest(sweep[s].todo)] > 0
           /\ sweep' \in [Sweeper -> Sweep]
           /\ sweep'[s].pc = "run"
           /\ sweep'[s].released = sweep[s].released \cup {Oldest(sweep[s].todo)}
           /\ \A r \in Sweeper \ {s} : sweep'[r] = sweep[r]
           /\ \A r \in Sweeper : Carried(r)' = Carried(r)
<1> DEFINE j == Oldest(sweep[s].todo)
           old == sweep[s]
           new == [old EXCEPT !.pc = "run", !.todo = @ \ {j}, !.released = @ \cup {j}]
<1>1. sweep \in [Sweeper -> Sweep] /\ old \in Sweep
  BY DEF TypeOK
<1>2. old.todo \in SUBSET Job /\ old.released \in SUBSET Job
  BY <1>1 DEF Sweep
<1>3. old.todo # {} /\ sent[j] > 0
  BY DEF UnlinkReleased, AcceptedWasSent
<1>4. j \in old.todo
  BY <1>2, <1>3, OldestIsMember
<1>5. /\ UNCHANGED <<jobs, fleet, online, task, expiring, sent, crashes>>
      /\ spool' = spool \ {j} /\ sweep' = [sweep EXCEPT ![s] = new]
  BY DEF UnlinkReleased
<1> HIDE DEF j
<1>6. new \in Sweep /\ new.pc = "run" /\ new.todo = old.todo \ {j}
      /\ new.released = old.released \cup {j} /\ new.failed = old.failed
  <2>1. old.todo \ {j} \in SUBSET Job /\ old.released \cup {j} \in SUBSET Job
    BY <1>2, <1>4
  <2> QED BY <1>1, <2>1 DEF Sweep
<1> HIDE DEF new
<1>7. /\ sweep' \in [Sweeper -> Sweep] /\ sweep'[s] = new
      /\ \A r \in Sweeper \ {s} : sweep'[r] = sweep[r]
  BY <1>1, <1>5, <1>6
<1>8. ASSUME NEW r \in Sweeper PROVE Carried(r)' = Carried(r)
  BY <1>4, <1>6, <1>7 DEF Carried
<1> QED
  BY <1>3, <1>4, <1>5, <1>6, <1>7, <1>8 DEF j

\* A request goes from lp to the row it has in hand; a discard has none in hand.
LEMMA RequestEffect ==
    ASSUME TypeOK, NEW t \in Request,
           \/ SubmitRelease(t) \/ CommitRelease(t) \/ CommitReleaseError(t)
           \/ ClaimDiscard(t) \/ LoseDiscard(t) \/ UnlinkDiscarded(t)
           \/ CancelFails(t) \/ WriteCancelled(t)
    PROVE  /\ UNCHANGED <<sweep, expiring>>
           /\ \A u \in Request \ {t} : task'[u] = task[u]
           /\ SubmitRelease(t) =>
                 /\ task[t].pc = "lp" /\ task'[t].pc \in {"accepted", "refused"}
                 /\ task'[t].job = task[t].job
           /\ CommitRelease(t) \/ CommitReleaseError(t) =>
                 task[t].pc \in {"accepted", "refused"} /\ task'[t].pc = "idle"
           /\ ClaimDiscard(t) \/ LoseDiscard(t) \/ UnlinkDiscarded(t)
                \/ CancelFails(t) \/ WriteCancelled(t) =>
                 /\ task[t].pc \in {"claim", "unlink", "cancel"}
                 /\ task'[t].pc \in {"unlink", "idle"}
<1>1. task \in [Request -> Task] /\ task[t] \in Task
  BY DEF TypeOK
<1>2. \A pc : /\ [task[t] EXCEPT !.pc = pc].pc = pc
              /\ [task[t] EXCEPT !.pc = pc].job = task[t].job
  BY <1>1 DEF Task
<1>3. IdleTask.pc = "idle"
  BY DEF IdleTask
<1>4. CASE SubmitRelease(t)
  <2>1. /\ task[t].pc = "lp" /\ UNCHANGED <<sweep, expiring>>
        /\ \E pc \in {"accepted", "refused"} :
              task' = [task EXCEPT ![t] = [task[t] EXCEPT !.pc = pc]]
    BY <1>4 DEF SubmitRelease
  <2> QED
    BY <1>1, <1>2, <2>1 DEF CommitRelease, CommitReleaseError, ClaimDiscard, LoseDiscard,
         UnlinkDiscarded, CancelFails, WriteCancelled
<1>5. CASE CommitRelease(t) \/ CommitReleaseError(t)
  <2>1. /\ task[t].pc \in {"accepted", "refused"} /\ UNCHANGED <<sweep, expiring>>
        /\ task' = [task EXCEPT ![t] = IdleTask]
    BY <1>5 DEF CommitRelease, CommitReleaseError
  <2> QED
    BY <1>1, <1>3, <2>1 DEF SubmitRelease, ClaimDiscard, LoseDiscard, UnlinkDiscarded,
         CancelFails, WriteCancelled
<1>6. CASE ClaimDiscard(t)
  <2>1. /\ task[t].pc = "claim" /\ UNCHANGED <<sweep, expiring>>
        /\ task' = [task EXCEPT ![t] = [task[t] EXCEPT !.pc = "unlink"]]
    BY <1>6 DEF ClaimDiscard
  <2> QED
    BY <1>1, <1>2, <2>1 DEF SubmitRelease, CommitRelease, CommitReleaseError
<1>7. CASE LoseDiscard(t) \/ UnlinkDiscarded(t) \/ CancelFails(t) \/ WriteCancelled(t)
  <2>1. /\ task[t].pc \in {"claim", "unlink", "cancel"} /\ UNCHANGED <<sweep, expiring>>
        /\ task' = [task EXCEPT ![t] = IdleTask]
    BY <1>7 DEF LoseDiscard, UnlinkDiscarded, CancelFails, WriteCancelled
  <2> QED
    BY <1>1, <1>3, <2>1 DEF SubmitRelease, CommitRelease, CommitReleaseError
<1> QED
  BY <1>4, <1>5, <1>6, <1>7

\* Every step is an operation of one handler, or of the world around them.
LEMMA NextCases ==
    ASSUME TypeOK, Next
    PROVE  \/ \E t \in Request :
                \/ \E j \in Job : StartRelease(t, j) \/ ReadDiscard(t, j) \/ ReadCancel(t, j)
                \/ SubmitRelease(t) \/ CommitRelease(t) \/ CommitReleaseError(t)
                \/ ClaimDiscard(t) \/ LoseDiscard(t) \/ UnlinkDiscarded(t)
                \/ CancelFails(t) \/ WriteCancelled(t)
           \/ \E s \in Sweeper :
                \/ \E S \in SUBSET Printer : Visit(s, S)
                \/ SelectWaiting(s) \/ SubmitOldest(s)
                \/ UnlinkReleased(s) \/ CommitSweep(s)
           \/ ReadExpired \/ CommitExpired \/ PurgeFailed
           \/ \E j \in Job : HoldExpires(j) \/ FailureAges(j)
           \/ \E p \in Printer : \/ StatusChanges(p) \/ ArchivePrinter(p)
                                 \/ UnarchivePrinter(p) \/ DeletePrinter(p)
           \/ Crash
           \/ \E j \in Job : Arrives(j)
BY DEF TypeOK, TableTypeOK, Next, HeldStep, RequestStep, SweepStep, PurgeStep, WorldStep,
       AdminRelease, KioskRelease, StartPoll, StartCheck, Sweeper, Arrives

LEMMA TypeNext ==
    ASSUME TypeOK, TaskHasJob, AcceptedWasSent, Next
    PROVE  TypeOK'
<1> USE JobTableAssumption, HeldJobsAssumption
<1> USE DEF TypeOK, TableTypeOK
<1>1. ASSUME NEW t \in Request, NEW j \in Job, StartRelease(t, j)
      PROVE  TypeOK'
  BY <1>1 DEF StartRelease, tableVars, Task, JobRow
<1>2. ASSUME NEW t \in Request, NEW j \in Job, ReadDiscard(t, j) \/ ReadCancel(t, j)
      PROVE  TypeOK'
  <2>1. PICK pc \in {"claim", "cancel"} :
            task' = [task EXCEPT ![t] = [pc |-> pc, job |-> j, path |-> jobs[j].path]]
    BY <1>2 DEF ReadDiscard, ReadCancel
  <2>2. [pc |-> pc, job |-> j, path |-> jobs[j].path] \in Task
    BY DEF Task, JobRow
  <2> QED BY <1>2, <2>1, <2>2 DEF ReadDiscard, ReadCancel, tableVars
<1>3. ASSUME NEW t \in Request, SubmitRelease(t)
      PROVE  TypeOK'
  <2>1. sent' \in [Job -> 0..MaxSent]
    BY <1>3 DEF SubmitRelease, LpAccepts, LpRefuses, LpTimesOut, HandOver
  <2>2. task' \in [Request -> Task]
    BY <1>3 DEF SubmitRelease, Task
  <2> QED
    BY <1>3, <2>1, <2>2 DEF SubmitRelease, tableVars
<1>4. ASSUME NEW t \in Request, CommitRelease(t)
      PROVE  TypeOK'
  BY <1>4, RowWrites DEF CommitRelease, Task, IdleTask, Status, TaskHasJob, Unlink
<1>5. ASSUME NEW t \in Request, CommitReleaseError(t)
      PROVE  TypeOK'
  BY <1>5, RowWrites DEF CommitReleaseError, Task, IdleTask, Status, TaskHasJob
<1>6. ASSUME NEW t \in Request, ClaimDiscard(t)
      PROVE  TypeOK'
  <2>1. task[t] \in Task /\ task[t].job \in Job
    BY <1>6 DEF ClaimDiscard, TaskHasJob
  <2>2. Disposed(jobs[task[t].job], "cancelled") \in JobRow
    BY <2>1, RowWrites DEF Status
  <2>3. [task[t] EXCEPT !.pc = "unlink"] \in Task
    BY <2>1 DEF Task
  <2> QED
    BY <1>6, <2>1, <2>2, <2>3 DEF ClaimDiscard
<1>7. ASSUME NEW t \in Request, LoseDiscard(t)
      PROVE  TypeOK'
  BY <1>7 DEF LoseDiscard, tableVars, Task, IdleTask
<1>8. ASSUME NEW t \in Request, UnlinkDiscarded(t) \/ CancelFails(t)
      PROVE  TypeOK'
  <2>1. task' = [task EXCEPT ![t] = IdleTask] /\ IdleTask \in Task
    BY <1>8 DEF UnlinkDiscarded, CancelFails, Task, IdleTask
  <2>2. spool' \subseteq Job /\ UNCHANGED <<jobs, fleet, online, sweep, expiring, sent, crashes>>
    BY <1>8 DEF UnlinkDiscarded, CancelFails, tableVars, Unlink
  <2> QED BY <2>1, <2>2
<1>23. ASSUME NEW t \in Request, WriteCancelled(t)
       PROVE  TypeOK'
  BY <1>23, RowWrites DEF WriteCancelled, Task, IdleTask, Status, TaskHasJob
<1>9. ASSUME NEW s \in Sweeper, NEW S \in SUBSET Printer, Visit(s, S)
      PROVE  TypeOK'
  <2>1. sweep[s] \in Sweep /\ S \subseteq Printer
    BY <1>9
  <2>2. [sweep[s] EXCEPT !.pc = "run", !.printers = S] \in Sweep
    BY ONLY <2>1 DEF Sweep
  <2>3. sweep' \in [Sweeper -> Sweep]
    BY ONLY <1>9, <2>2, sweep \in [Sweeper -> Sweep] DEF Visit
  <2> QED
    BY <1>9, <2>3 DEF Visit, tableVars
<1>10. ASSUME NEW s \in Sweeper, SelectWaiting(s)
      PROVE  TypeOK'
  <2>1. \A p \in Printer : WaitingFor(p) \subseteq Job
    BY DEF WaitingFor, RowsOn
  <2>2. PICK p \in sweep[s].printers :
            sweep' = [sweep EXCEPT
                        ![s].printers = @ \ {p},
                        ![s].todo = {j \in WaitingFor(p) : jobs[j].path},
                        ![s].failed = @ \cup {j \in WaitingFor(p) : ~jobs[j].path}]
    BY <1>10 DEF SelectWaiting
  <2> DEFINE found == {j \in WaitingFor(p) : jobs[j].path}
             pathless == {j \in WaitingFor(p) : ~jobs[j].path}
  <2>3. p \in Printer /\ s \in Sweeper /\ sweep \in [Sweeper -> Sweep] /\ found \subseteq Job /\ pathless \subseteq Job
    BY <2>1 DEF Sweep
  <2>4. sweep' \in [Sweeper -> Sweep]
    <3> HIDE DEF found, pathless
    <3>1. sweep' = [sweep EXCEPT ![s].printers = @ \ {p}, ![s].todo = found,
                                 ![s].failed = @ \cup pathless]
      BY <2>2 DEF found, pathless
    <3>2. sweep[s] \in Sweep
      BY ONLY <2>3
    <3>3. [sweep[s] EXCEPT !.printers = @ \ {p}, !.todo = found,
                           !.failed = @ \cup pathless] \in Sweep
      <4>1. sweep[s].printers \ {p} \in SUBSET Printer
        BY ONLY <3>2 DEF Sweep
      <4>2. sweep[s].failed \cup pathless \in SUBSET Job
        BY ONLY <2>3, <3>2 DEF Sweep
      <4> QED
        BY ONLY <2>3, <3>2, <4>1, <4>2 DEF Sweep
    <3> QED
      BY ONLY <2>3, <3>1, <3>3
  <2> QED
    BY <1>10, <2>4 DEF SelectWaiting, tableVars
<1>11. ASSUME NEW s \in Sweeper, SubmitOldest(s)
      PROVE  TypeOK'
  <2>1. sent' \in [Job -> 0..MaxSent]
    <3> DEFINE i == Oldest(sweep[s].todo)
    <3>1. sent' = sent \/ sent' = [sent EXCEPT ![i] = IF @ < MaxSent THEN @ + 1 ELSE @]
      BY <1>11 DEF SubmitOldest, LpAccepts, LpRefuses, LpTimesOut, HandOver
    <3> HIDE DEF i
    <3>2. \A k \in 0..MaxSent : (IF k < MaxSent THEN k + 1 ELSE k) \in 0..MaxSent
      OBVIOUS
    <3> QED BY <3>1, <3>2
  <2>2. sweep' \in [Sweeper -> Sweep] /\ UNCHANGED <<tableVars, task, expiring, crashes>>
    BY <1>11, SubmitEffect
  <2> QED
    BY <2>1, <2>2 DEF tableVars
<1>12. ASSUME NEW s \in Sweeper, UnlinkReleased(s)
      PROVE  TypeOK'
  BY <1>12, UnlinkEffect
<1>13. ASSUME NEW s \in Sweeper, CommitSweep(s)
      PROVE  TypeOK'
  BY <1>13, RowWrites DEF CommitSweep, Sweep, IdleSweep, Status
<1>14. CASE ReadExpired
  BY <1>14 DEF ReadExpired
<1>15. CASE CommitExpired
  BY <1>15, RowWrites DEF CommitExpired, Status
<1>16. CASE PurgeFailed
  BY <1>16, RowWrites DEF PurgeFailed, Status, handlerVars
<1>17. ASSUME NEW j \in Job, HoldExpires(j) \/ FailureAges(j)
       PROVE TypeOK'
  BY <1>17 DEF HoldExpires, FailureAges, Ages, heldVars, handlerVars, JobRow
<1>18. ASSUME NEW p \in Printer, StatusChanges(p) \/ ArchivePrinter(p) \/ UnarchivePrinter(p)
       PROVE TypeOK'
  BY <1>18 DEF StatusChanges, ArchivePrinter, UnarchivePrinter, heldVars, handlerVars
<1>19. ASSUME NEW p \in Printer, DeletePrinter(p)
       PROVE TypeOK'
  BY <1>19, RowWrites DEF DeletePrinter, heldVars, handlerVars, Status
<1>20. CASE Crash
  BY <1>20 DEF Crash, tableVars, Task, IdleTask, Sweep, IdleSweep
<1>21. ASSUME NEW j \in Job, Arrives(j)
       PROVE TypeOK'
  <2>1. /\ jobs' \in [Job -> JobRow] /\ UNCHANGED <<fleet, online, heldVars>>
        /\ spool' = spool \/ spool' = spool \cup {j}
    BY <1>21, ArrivalEffect
  <2> QED
    BY <2>1 DEF heldVars, handlerVars
<1>22. QED
  BY <1>1, <1>2, <1>3, <1>4, <1>5, <1>6, <1>7, <1>8, <1>9, <1>10, <1>11, <1>12, <1>13,
     <1>14, <1>15, <1>16, <1>17, <1>18, <1>19, <1>20, <1>21, <1>23, NextCases

-----------------------------------------------------------------------------
(* What one step can do to one row, to the document, to the count of its   *)
(* copies, and to whether somebody has it in hand.                         *)

RowKept(j) == jobs'[j] = jobs[j]

RowCreated(j) ==
    /\ Arrives(j)
    /\ jobs[j].status = "absent" /\ jobs'[j].status \in {"held", "forwarding"}
    /\ jobs'[j].status = "held" => jobs'[j].path /\ j \in spool'
    /\ j \in spool' => jobs'[j].reason # "none"
    /\ sent'[j] = sent[j] /\ jobs'[j].age = 0

RowAged(j) ==
    /\ jobs[j].status = "held" \/ (jobs[j].status = "failed" /\ ~InHand(j))
    /\ jobs'[j].status = jobs[j].status /\ jobs'[j].path = jobs[j].path
    /\ jobs'[j].age = 1

RowClosed(j) ==
    /\ jobs[j].status \notin {"absent", "deleted"}
    /\ jobs[j].status = "held" \/ InHand(j)
    /\ jobs'[j].status \in {"forwarded", "failed", "cancelled"}
    /\ jobs'[j].age = 0
    /\ jobs'[j].status = "forwarded" => sent[j] > 0

\* Cancelled by an admin who read it as failed, or superseded.
RowCancelled(j) ==
    /\ jobs[j].status \notin {"absent", "deleted", "held"}
    /\ jobs'[j].status = "cancelled"
    /\ jobs'[j].path = jobs[j].path /\ jobs'[j].age = 0
    /\ \/ Cancelling(j)
       \/ jobs[j].status # "forwarded" /\ jobs'[j].superseded # NoJob

RowDeleted(j) ==
    /\ jobs[j].status \notin {"absent", "deleted"}
    /\ jobs'[j].status = "deleted"
    /\ \/ \E p \in Printer : fleet'[p] = "deleted"
       \/ jobs[j].status = "failed" /\ jobs[j].age > 0

RowMoves(j) ==
    \/ RowKept(j) \/ RowCreated(j) \/ RowAged(j)
    \/ RowClosed(j) \/ RowCancelled(j) \/ RowDeleted(j)

LEMMA RowStep ==
    ASSUME IInv, Next, NEW j \in Job
    PROVE  RowMoves(j)
<1> USE JobTableAssumption, HeldJobsAssumption DEF IInv, TypeOK, TableTypeOK
<1>1. ASSUME NEW t \in Request, NEW i \in Job,
             StartRelease(t, i) \/ ReadDiscard(t, i) \/ ReadCancel(t, i)
      PROVE  RowKept(j)
  BY <1>1 DEF StartRelease, ReadDiscard, ReadCancel, tableVars, RowKept
<1>2. ASSUME NEW t \in Request,
             SubmitRelease(t) \/ LoseDiscard(t) \/ UnlinkDiscarded(t) \/ CancelFails(t)
      PROVE  RowKept(j)
  BY <1>2 DEF SubmitRelease, LoseDiscard, UnlinkDiscarded, CancelFails, tableVars, RowKept
<1>16. ASSUME NEW t \in Request, WriteCancelled(t)
       PROVE  RowKept(j) \/ RowCancelled(j)
  <2> DEFINE i == task[t].job
  <2>1. task[t].pc = "cancel" /\ i \in Job /\ jobs[i].status \notin {"absent", "held"}
    BY <1>16 DEF WriteCancelled, TaskHasJob, DiscardClaimed
  <2>2. jobs' = jobs \/ (Exists(i) /\ jobs' = [jobs EXCEPT ![i] = Closed(jobs[i], "cancelled")])
    BY <1>16 DEF WriteCancelled
  <2>3. CASE jobs' = jobs \/ i # j
    BY <2>2, <2>3 DEF RowKept
  <2>4. CASE jobs' # jobs /\ i = j
    <3>1. jobs'[j] = Closed(jobs[j], "cancelled") /\ Exists(j)
      BY <2>2, <2>4
    <3>2. Cancelling(j)
      BY <2>1, <2>4 DEF Cancelling
    <3> QED
      BY <2>1, <2>4, <3>1, <3>2, RowWrites DEF RowCancelled, Exists, Status
  <2> QED BY <2>3, <2>4
<1>3. ASSUME NEW t \in Request, CommitRelease(t)
      PROVE  RowKept(j) \/ RowClosed(j)
  <2>1. task[t].job = j => InHand(j)
    BY <1>3 DEF CommitRelease, InHand
  <2> QED
    BY <1>3, <2>1, RowWrites DEF CommitRelease, TaskHasJob, AcceptedWasSent, Exists, Status,
         RowKept, RowClosed
<1>4. ASSUME NEW t \in Request, CommitReleaseError(t)
      PROVE  RowKept(j) \/ RowClosed(j)
  <2>1. task[t].job = j => InHand(j)
    BY <1>4 DEF CommitReleaseError, InHand
  <2> QED
    BY <1>4, <2>1, RowWrites DEF CommitReleaseError, TaskHasJob, Exists, Status, RowKept,
         RowClosed
<1>5. ASSUME NEW t \in Request, ClaimDiscard(t)
      PROVE  RowKept(j) \/ RowClosed(j)
  BY <1>5, RowWrites DEF ClaimDiscard, TaskHasJob, Status, RowKept, RowClosed
<1>6. ASSUME NEW s \in Sweeper,
             \/ \E S \in SUBSET Printer : Visit(s, S)
             \/ SelectWaiting(s) \/ SubmitOldest(s) \/ UnlinkReleased(s)
      PROVE  RowKept(j)
  BY <1>6 DEF Visit, SelectWaiting, SubmitOldest, UnlinkReleased, tableVars, RowKept
<1>7. ASSUME NEW s \in Sweeper, CommitSweep(s)
      PROVE  RowKept(j) \/ RowClosed(j)
  <2>1. CASE jobs' = jobs
    BY <2>1 DEF RowKept
  <2>2. CASE jobs' # jobs
    <3>1. /\ j \in sweep[s].released \cup sweep[s].failed => Exists(j)
          /\ jobs'[j] = IF j \in sweep[s].released THEN Disposed(jobs[j], "forwarded")
                        ELSE IF j \in sweep[s].failed THEN Closed(jobs[j], "failed")
                        ELSE jobs[j]
          /\ sent' = sent
      BY <1>7, <2>2 DEF CommitSweep
    <3>2. /\ j \in sweep[s].released => sent[j] > 0
          /\ j \in sweep[s].released \cup sweep[s].failed => InHand(j)
      BY DEF AcceptedWasSent, InHand
    <3>3. /\ Disposed(jobs[j], "forwarded").status = "forwarded"
          /\ Closed(jobs[j], "failed").status = "failed"
          /\ Disposed(jobs[j], "forwarded").age = 0 /\ Closed(jobs[j], "failed").age = 0
          /\ Closed(jobs[j], "failed").path = jobs[j].path
      BY RowWrites DEF Status
    <3> QED
      BY <3>1, <3>2, <3>3 DEF Exists, RowKept, RowClosed
  <2> QED
    BY <2>1, <2>2
<1>8. CASE ReadExpired
  BY <1>8 DEF ReadExpired, RowKept, RowMoves
<1>9. CASE CommitExpired
  <2>0. j \in expiring => InHand(j)
    BY DEF InHand
  <2>1. RowKept(j) \/ RowClosed(j)
    BY <1>9, <2>0, RowWrites DEF CommitExpired, Exists, Status, RowKept, RowClosed
  <2> QED
    BY <2>1 DEF RowMoves
<1>10. CASE PurgeFailed
  <2>1. RowKept(j) \/ RowDeleted(j)
    BY <1>10, RowWrites DEF PurgeFailed, Status, RowKept, RowDeleted
  <2> QED
    BY <2>1 DEF RowMoves
<1>11. ASSUME NEW i \in Job, HoldExpires(i) \/ FailureAges(i)
       PROVE  RowKept(j) \/ RowAged(j)
  <2>1. CASE i # j
    BY <1>11, <2>1 DEF HoldExpires, FailureAges, Ages, RowKept
  <2>2. CASE i = j
    <3>1. jobs[j].status = "held" \/ (jobs[j].status = "failed" /\ ~InHand(j))
      <4>1. HoldExpires(i) => jobs[j].status = "held"
        BY <2>2 DEF HoldExpires
      <4>2. FailureAges(i) => jobs[i].status = "failed" /\ ~InHand(i)
        BY DEF FailureAges
      <4> QED
        BY <1>11, <2>2, <4>1, <4>2, Zenon
    <3>2. jobs' = [jobs EXCEPT ![j].age = 1]
      BY <1>11, <2>2 DEF HoldExpires, FailureAges, Ages
    <3>3. /\ jobs'[j].status = jobs[j].status /\ jobs'[j].path = jobs[j].path
          /\ jobs'[j].age = 1
      BY <3>2 DEF JobRow
    <3> QED
      BY <3>1, <3>3 DEF RowAged
  <2> QED
    BY <2>1, <2>2
<1>12. ASSUME NEW p \in Printer, StatusChanges(p) \/ ArchivePrinter(p) \/ UnarchivePrinter(p)
       PROVE  RowKept(j)
  BY <1>12 DEF StatusChanges, ArchivePrinter, UnarchivePrinter, RowKept
<1>13. ASSUME NEW p \in Printer, DeletePrinter(p)
       PROVE  RowKept(j) \/ RowDeleted(j)
  <2>1. fleet'[p] = "deleted"
    BY <1>13 DEF DeletePrinter
  <2> QED
    BY <1>13, <2>1, RowWrites DEF DeletePrinter, RowsOn, Exists, Status, RowKept, RowDeleted
<1>14. CASE Crash
  BY <1>14 DEF Crash, tableVars, RowKept, RowMoves
<1>15. ASSUME NEW i \in Job, Arrives(i)
       PROVE  RowKept(j) \/ RowCreated(j) \/ RowCancelled(j)
  <2>1. CASE i # j
    <3>1. \/ jobs'[j] = jobs[j]
          \/ /\ Exists(j) /\ jobs[j].status \notin {"forwarded", "held"}
             /\ jobs'[j] = Supersede(jobs[j], i)
      BY <1>15, <2>1, ArrivalEffect
    <3>2. i # NoJob
      OBVIOUS
    <3> QED
      BY <3>1, <3>2, SupersedeWrites DEF RowKept, RowCancelled, Exists
  <2>2. CASE i = j
    <3>1. /\ jobs[j].status = "absent" /\ jobs'[j].age = 0 /\ j \notin spool
          /\ \/ /\ jobs'[j].status = "held" /\ jobs'[j].path
                /\ jobs'[j].reason # "none" /\ spool' = spool \cup {j}
             \/ /\ jobs'[j].status = "forwarding" /\ ~jobs'[j].path
                /\ jobs'[j].reason = "none" /\ spool' = spool
          /\ sent' = sent
      BY <1>15, <2>2, ArrivalEffect DEF NewIsBlank, heldVars
    <3> QED
      BY <1>15, <2>2, <3>1 DEF RowCreated
  <2> QED
    BY <2>1, <2>2
<1> QED
  BY <1>1, <1>2, <1>3, <1>4, <1>5, <1>6, <1>7, <1>8, <1>9, <1>10, <1>11, <1>12, <1>13,
     <1>14, <1>15, <1>16, NextCases
  DEF RowMoves

\* Only lp changes the count of copies, and only upwards.
LEMMA SentStep ==
    ASSUME IInv, Next, NEW j \in Job
    PROVE  sent'[j] = sent[j] \/ (InHand(j) /\ sent'[j] > 0)
<1> USE JobTableAssumption, HeldJobsAssumption DEF IInv, TypeOK
<1>1. ASSUME NEW i \in Job, HandOver(i) \/ UNCHANGED sent
      PROVE  sent'[j] = sent[j] \/ (i = j /\ sent'[j] > 0)
  BY <1>1 DEF HandOver
<1>2. ASSUME NEW t \in Request, SubmitRelease(t)
      PROVE  sent'[j] = sent[j] \/ (InHand(j) /\ sent'[j] > 0)
  <2>1. task[t].pc = "lp" /\ task[t].job \in Job
    BY <1>2 DEF SubmitRelease, TaskHasJob
  <2>2. HandOver(task[t].job) \/ UNCHANGED sent
    BY <1>2 DEF SubmitRelease, LpAccepts, LpRefuses, LpTimesOut
  <2>3. sent'[j] = sent[j] \/ (task[t].job = j /\ sent'[j] > 0)
    BY <1>1, <2>1, <2>2
  <2>4. task[t].job = j => InHand(j)
    BY <2>1 DEF InHand
  <2> QED
    BY <2>3, <2>4, Zenon
<1>3. ASSUME NEW s \in Sweeper, SubmitOldest(s)
      PROVE  sent'[j] = sent[j] \/ (InHand(j) /\ sent'[j] > 0)
  <2> DEFINE i == Oldest(sweep[s].todo)
  <2>1. i \in sweep[s].todo /\ sweep[s].todo \subseteq Job
    BY <1>3, OldestIsMember DEF SubmitOldest, Sweep
  <2>2. HandOver(i) \/ UNCHANGED sent
    BY <1>3 DEF SubmitOldest, LpAccepts, LpRefuses, LpTimesOut
  <2>3. sent'[j] = sent[j] \/ (i = j /\ sent'[j] > 0)
    BY <1>1, <2>1, <2>2
  <2>4. i = j => InHand(j)
    BY <2>1 DEF InHand
  <2> QED
    BY <2>3, <2>4, Zenon
<1>4. ASSUME NEW t \in Request,
             \/ \E i \in Job : StartRelease(t, i) \/ ReadDiscard(t, i) \/ ReadCancel(t, i)
             \/ CommitRelease(t) \/ CommitReleaseError(t)
             \/ ClaimDiscard(t) \/ LoseDiscard(t) \/ UnlinkDiscarded(t)
             \/ CancelFails(t) \/ WriteCancelled(t)
      PROVE  sent' = sent
  BY <1>4 DEF StartRelease, ReadDiscard, ReadCancel, CommitRelease, CommitReleaseError,
       ClaimDiscard, LoseDiscard, UnlinkDiscarded, CancelFails, WriteCancelled
<1>5. ASSUME NEW s \in Sweeper,
             \/ \E S \in SUBSET Printer : Visit(s, S)
             \/ SelectWaiting(s) \/ UnlinkReleased(s) \/ CommitSweep(s)
      PROVE  sent' = sent
  BY <1>5 DEF Visit, SelectWaiting, UnlinkReleased, CommitSweep
<1>6. CASE ReadExpired \/ CommitExpired \/ PurgeFailed
  BY <1>6 DEF ReadExpired, CommitExpired, PurgeFailed
<1>7. CASE \/ \E i \in Job : HoldExpires(i) \/ FailureAges(i)
           \/ \E p \in Printer : \/ StatusChanges(p) \/ ArchivePrinter(p)
                                 \/ UnarchivePrinter(p) \/ DeletePrinter(p)
           \/ Crash
  BY <1>7 DEF HoldExpires, FailureAges, Ages, StatusChanges, ArchivePrinter,
       UnarchivePrinter, DeletePrinter, Crash, heldVars
<1>8. ASSUME NEW i \in Job, Arrives(i)
      PROVE  sent' = sent
  BY <1>8, ArrivalEffect DEF heldVars
<1> QED
  BY <1>2, <1>3, <1>4, <1>5, <1>6, <1>7, <1>8, NextCases

\* A document only leaves the spool once it was sent, is due, or its path was
\* given up; it only enters it with its row.
LEMMA SpoolStep ==
    ASSUME IInv, Next, NEW j \in Job
    PROVE  /\ j \in spool /\ j \notin spool' =>
                sent[j] > 0 \/ ~jobs[j].path \/ jobs[j].age > 0
           /\ j \notin spool /\ j \in spool' => RowCreated(j)
<1> DEFINE Loses == j \in spool /\ j \notin spool'
           Gains == j \notin spool /\ j \in spool'
<1> USE DEF IInv
<1>1. ASSUME NEW t \in Request, CommitRelease(t)
      PROVE  ~Gains /\ (Loses => sent[j] > 0)
  BY <1>1 DEF CommitRelease, Unlink, AcceptedWasSent
<1>2. ASSUME NEW t \in Request, UnlinkDiscarded(t)
      PROVE  ~Gains /\ (Loses => ~jobs[j].path)
  BY <1>2 DEF UnlinkDiscarded, Unlink, DiscardWaived
<1>3. ASSUME NEW s \in Sweeper, UnlinkReleased(s)
      PROVE  ~Gains /\ (Loses => sent[j] > 0)
  BY <1>3 DEF UnlinkReleased, AcceptedWasSent
<1>4. CASE ReadExpired \/ CommitExpired \/ PurgeFailed
  <2>1. ~Gains /\ (Loses => jobs[j].age > 0)
    BY <1>4 DEF ReadExpired, CommitExpired, PurgeFailed
  <2> QED
    BY <2>1
<1>5. ASSUME NEW t \in Request,
             \/ \E i \in Job : StartRelease(t, i) \/ ReadDiscard(t, i) \/ ReadCancel(t, i)
             \/ SubmitRelease(t) \/ CommitReleaseError(t)
             \/ ClaimDiscard(t) \/ LoseDiscard(t) \/ CancelFails(t) \/ WriteCancelled(t)
      PROVE  spool' = spool
  BY <1>5 DEF StartRelease, ReadDiscard, ReadCancel, SubmitRelease, CommitReleaseError,
       ClaimDiscard, LoseDiscard, CancelFails, WriteCancelled, tableVars
<1>6. ASSUME NEW s \in Sweeper,
             \/ \E S \in SUBSET Printer : Visit(s, S)
             \/ SelectWaiting(s) \/ SubmitOldest(s) \/ CommitSweep(s)
      PROVE  spool' = spool
  BY <1>6 DEF Visit, SelectWaiting, SubmitOldest, CommitSweep, tableVars
<1>7. CASE \/ \E i \in Job : HoldExpires(i) \/ FailureAges(i)
           \/ \E p \in Printer : \/ StatusChanges(p) \/ ArchivePrinter(p)
                                 \/ UnarchivePrinter(p) \/ DeletePrinter(p)
           \/ Crash
  <2>1. spool' = spool
    BY <1>7 DEF HoldExpires, FailureAges, Ages, StatusChanges, ArchivePrinter,
         UnarchivePrinter, DeletePrinter, Crash, tableVars
  <2> QED
    BY <2>1
<1>8. ASSUME NEW i \in Job, Arrives(i)
      PROVE  ~Loses /\ (Gains => RowCreated(j))
  <2>1. ~Loses /\ (Gains => i = j)
    BY <1>8, ArrivalEffect
  <2>2. CASE i = j
    <3>1. jobs[j].status = "absent" /\ jobs'[j].status \in {"held", "forwarding"}
      BY <1>8, <2>2, ArrivalEffect
    <3>2. RowMoves(j)
      BY RowStep
    <3> QED
      BY <2>1, <3>1, <3>2 DEF RowMoves, RowKept, RowAged, RowClosed, RowCancelled, RowDeleted
  <2> QED
    BY <2>1, <2>2
<1> QED
  BY <1>1, <1>2, <1>3, <1>4, <1>5, <1>6, <1>7, <1>8, NextCases

\* A printer that was deleted stays deleted, and crashes are not undone.
LEMMA GoneStays ==
    ASSUME TypeOK, Next
    PROVE  /\ \A p \in Printer : fleet[p] = "deleted" => fleet'[p] = "deleted"
           /\ crashes > 0 => crashes' > 0
<1> USE DEF TypeOK, TableTypeOK
<1>1. ASSUME NEW t \in Request,
             \/ \E i \in Job : StartRelease(t, i) \/ ReadDiscard(t, i) \/ ReadCancel(t, i)
             \/ SubmitRelease(t) \/ CommitRelease(t) \/ CommitReleaseError(t)
             \/ ClaimDiscard(t) \/ LoseDiscard(t) \/ UnlinkDiscarded(t)
             \/ CancelFails(t) \/ WriteCancelled(t)
      PROVE  UNCHANGED <<fleet, crashes>>
  BY <1>1 DEF StartRelease, ReadDiscard, ReadCancel, SubmitRelease, CommitRelease,
       CommitReleaseError,
       ClaimDiscard, LoseDiscard, UnlinkDiscarded, CancelFails, WriteCancelled, tableVars
<1>2. ASSUME NEW s \in Sweeper,
             \/ \E S \in SUBSET Printer : Visit(s, S)
             \/ SelectWaiting(s) \/ SubmitOldest(s)
             \/ UnlinkReleased(s) \/ CommitSweep(s)
      PROVE  UNCHANGED <<fleet, crashes>>
  BY <1>2 DEF Visit, SelectWaiting, SubmitOldest, UnlinkReleased, CommitSweep, tableVars
<1>3. CASE ReadExpired \/ CommitExpired \/ PurgeFailed
  BY <1>3 DEF ReadExpired, CommitExpired, PurgeFailed
<1>4. ASSUME NEW j \in Job, HoldExpires(j) \/ FailureAges(j)
      PROVE  UNCHANGED <<fleet, crashes>>
  BY <1>4 DEF HoldExpires, FailureAges, Ages, heldVars
<1>5. ASSUME NEW p \in Printer,
             \/ StatusChanges(p) \/ ArchivePrinter(p)
             \/ UnarchivePrinter(p) \/ DeletePrinter(p)
      PROVE  /\ \A q \in Printer : fleet[q] = "deleted" => fleet'[q] = "deleted"
             /\ crashes' = crashes
  BY <1>5 DEF StatusChanges, ArchivePrinter, UnarchivePrinter, DeletePrinter, heldVars
<1>6. CASE Crash
  BY <1>6, HeldJobsAssumption DEF Crash, tableVars
<1>7. ASSUME NEW i \in Job, Arrives(i)
      PROVE  UNCHANGED <<fleet, crashes>>
  BY <1>7, ArrivalEffect DEF heldVars
<1> QED
  BY <1>1, <1>2, <1>3, <1>4, <1>5, <1>6, <1>7, NextCases

\* What one printer's jobs add to what an automatic release carries.
LEMMA SelectEffect ==
    ASSUME TypeOK, NEW s \in Sweeper, SelectWaiting(s)
    PROVE  /\ \A r \in Sweeper \ {s} : sweep'[r] = sweep[r]
           /\ sweep'[s].pc = "run" /\ sweep[s].todo = {}
           /\ sweep'[s].released = sweep[s].released
           /\ sweep[s].failed \subseteq sweep'[s].failed
           /\ \A j \in sweep'[s].todo : jobs[j].status = "held"
           /\ \A j \in sweep'[s].failed : j \in sweep[s].failed \/ jobs[j].status = "held"
<1>1. PICK p \in sweep[s].printers :
          sweep' = [sweep EXCEPT
                      ![s].printers = @ \ {p},
                      ![s].todo = {j \in WaitingFor(p) : jobs[j].path},
                      ![s].failed = @ \cup {j \in WaitingFor(p) : ~jobs[j].path}]
  BY DEF SelectWaiting
<1> DEFINE found == {j \in WaitingFor(p) : jobs[j].path}
           pathless == {j \in WaitingFor(p) : ~jobs[j].path}
<1>2. \A j \in found \cup pathless : jobs[j].status = "held"
  BY DEF WaitingFor
<1>3. sweep' = [sweep EXCEPT ![s].printers = @ \ {p}, ![s].todo = found,
                             ![s].failed = @ \cup pathless]
  BY <1>1
<1>4. s \in Sweeper /\ sweep \in [Sweeper -> Sweep]
  BY DEF TypeOK
<1> HIDE DEF found, pathless
<1>5. \A r \in Sweeper \ {s} : sweep'[r] = sweep[r]
  BY <1>3, <1>4
<1>6. /\ sweep'[s].pc = sweep[s].pc
      /\ sweep'[s].released = sweep[s].released
      /\ sweep'[s].todo = found
      /\ sweep'[s].failed = sweep[s].failed \cup pathless
  BY ONLY <1>3, <1>4 DEF Sweep
<1> QED
  BY <1>2, <1>5, <1>6 DEF SelectWaiting

\* A handler only takes up a row that is held, and leaves it as it is.
LEMMA TakeUp ==
    ASSUME IInv, Next, NEW j \in Job, InHand(j)'
    PROVE  InHand(j) \/ (jobs[j].status = "held" /\ jobs'[j] = jobs[j])
<1> USE DEF IInv, TypeOK, TableTypeOK, InHand
<1>1. ASSUME NEW t \in Request, NEW i \in Job,
             StartRelease(t, i) \/ ReadDiscard(t, i) \/ ReadCancel(t, i)
      PROVE  InHand(j) \/ (jobs[j].status = "held" /\ jobs'[j] = jobs[j])
  <2>1. /\ UNCHANGED <<jobs, sweep, expiring>>
        /\ \A u \in Request \ {t} : task'[u] = task[u]
    BY <1>1 DEF StartRelease, ReadDiscard, ReadCancel, tableVars
  <2>2. \A pc, path : [pc |-> pc, job |-> i, path |-> path].pc = pc
                     /\ [pc |-> pc, job |-> i, path |-> path].job = i
    OBVIOUS
  <2>3. task'[t].pc = "lp" => task'[t].job = i /\ jobs[i].status = "held"
    BY <1>1, <2>2 DEF StartRelease, ReadDiscard, ReadCancel
  <2>4. task'[t].pc \in {"lp", "claim", "cancel"}
    BY <1>1, <2>2 DEF StartRelease, ReadDiscard, ReadCancel
  <2> QED
    BY <2>1, <2>3, <2>4 DEF Carried
<1>2. ASSUME NEW t \in Request,
             \/ SubmitRelease(t) \/ CommitRelease(t) \/ CommitReleaseError(t)
             \/ ClaimDiscard(t) \/ LoseDiscard(t) \/ UnlinkDiscarded(t)
             \/ CancelFails(t) \/ WriteCancelled(t)
      PROVE  InHand(j)
  <2>1. /\ UNCHANGED <<sweep, expiring>>
        /\ \A u \in Request \ {t} : task'[u] = task[u]
        /\ task'[t].pc \in {"lp", "accepted", "refused"} =>
              task[t].pc = "lp" /\ task'[t].job = task[t].job
    BY <1>2, RequestEffect
  <2> QED
    BY <2>1
<1>3. ASSUME NEW s \in Sweeper, NEW S \in SUBSET Printer, Visit(s, S)
      PROVE  InHand(j)
  <2>1. UNCHANGED <<task, expiring>> /\ \A r \in Sweeper : Carried(r)' = Carried(r)
    BY <1>3, VisitEffect
  <2> QED
    BY <2>1 DEF Carried
<1>4. ASSUME NEW s \in Sweeper, SelectWaiting(s)
      PROVE  InHand(j) \/ (jobs[j].status = "held" /\ jobs'[j] = jobs[j])
  <2>1. UNCHANGED <<tableVars, task, expiring>>
    BY <1>4 DEF SelectWaiting
  <2>2. ASSUME NEW r \in Sweeper, j \in Carried(r)'
        PROVE  j \in Carried(r) \/ jobs[j].status = "held"
    BY <1>4, <2>2, SelectEffect DEF Carried
  <2> QED
    BY <2>1, <2>2 DEF Carried, tableVars
<1>5. ASSUME NEW s \in Sweeper, SubmitOldest(s)
      PROVE  InHand(j)
  <2>1. UNCHANGED <<task, expiring>> /\ \A r \in Sweeper : Carried(r)' = Carried(r)
    BY <1>5, SubmitEffect
  <2> QED
    BY <2>1 DEF Carried
<1>6. ASSUME NEW s \in Sweeper, UnlinkReleased(s)
      PROVE  InHand(j)
  <2>1. UNCHANGED <<task, expiring>> /\ \A r \in Sweeper : Carried(r)' = Carried(r)
    BY <1>6, UnlinkEffect
  <2> QED
    BY <2>1 DEF Carried
<1>7. ASSUME NEW s \in Sweeper, CommitSweep(s)
      PROVE  InHand(j)
  BY <1>7 DEF CommitSweep, IdleSweep, Sweep
<1>8. CASE ReadExpired
  BY <1>8 DEF ReadExpired
<1>9. CASE CommitExpired
  BY <1>9 DEF CommitExpired
<1>10. ASSUME \/ PurgeFailed
              \/ \E i \in Job : HoldExpires(i) \/ FailureAges(i)
              \/ \E p \in Printer : \/ StatusChanges(p) \/ ArchivePrinter(p)
                                    \/ UnarchivePrinter(p) \/ DeletePrinter(p)
              \/ \E i \in Job : Arrives(i)
       PROVE  InHand(j)
  <2>1. UNCHANGED handlerVars
    BY <1>10, ArrivalIsQuiet DEF PurgeFailed, HoldExpires, FailureAges, Ages, StatusChanges,
         ArchivePrinter, UnarchivePrinter, DeletePrinter, heldVars
  <2> QED
    BY <2>1 DEF handlerVars
<1>11. CASE Crash
  BY <1>11 DEF Crash, IdleTask, IdleSweep
<1> QED
  BY <1>1, <1>2, <1>3, <1>4, <1>5, <1>6, <1>7, <1>8, <1>9, <1>10, <1>11, NextCases

\* A handler that is done with a row has taken it out of "held", unless it died
\* or lost its whole transaction to a printer that was deleted.
LEMMA HandOff ==
    ASSUME IInv, Next, NEW j \in Job, InHand(j), ~InHand(j)'
    PROVE  \/ jobs'[j].status # "held"
           \/ crashes' > 0
           \/ \E p \in Printer : fleet[p] = "deleted"
<1> USE DEF IInv, TypeOK, TableTypeOK
<1>1. ASSUME NEW t \in Request, NEW i \in Job,
             StartRelease(t, i) \/ ReadDiscard(t, i) \/ ReadCancel(t, i)
      PROVE  FALSE
  BY <1>1 DEF StartRelease, ReadDiscard, ReadCancel, Task, InHand
<1>2. ASSUME NEW t \in Request,
             \/ SubmitRelease(t) \/ ClaimDiscard(t) \/ LoseDiscard(t) \/ UnlinkDiscarded(t)
             \/ CancelFails(t) \/ WriteCancelled(t)
      PROVE  FALSE
  <2>1. /\ UNCHANGED <<sweep, expiring>>
        /\ \A u \in Request \ {t} : task'[u] = task[u]
        /\ task[t].pc \in {"lp", "accepted", "refused"} =>
              task'[t].pc \in {"accepted", "refused"} /\ task'[t].job = task[t].job
    BY <1>2, RequestEffect
  <2> QED
    BY <2>1 DEF InHand
<1>3. ASSUME NEW t \in Request, CommitRelease(t) \/ CommitReleaseError(t)
      PROVE  jobs'[j].status # "held"
  <2>1. task[t].job = j
    BY <1>3 DEF CommitRelease, CommitReleaseError, Task, IdleTask, InHand
  <2> QED
    BY <1>3, <2>1, RowWrites DEF CommitRelease, CommitReleaseError, Exists, Status
<1>4. ASSUME NEW s \in Sweeper, NEW S \in SUBSET Printer, Visit(s, S)
      PROVE  FALSE
  <2>1. UNCHANGED <<task, expiring>> /\ \A r \in Sweeper : Carried(r)' = Carried(r)
    BY <1>4, VisitEffect
  <2> QED
    BY <2>1 DEF InHand, Carried
<1>5. ASSUME NEW s \in Sweeper, SelectWaiting(s)
      PROVE  FALSE
  <2>1. UNCHANGED <<task, expiring>>
    BY <1>5 DEF SelectWaiting
  <2>2. \A r \in Sweeper : Carried(r) \subseteq Carried(r)'
    BY <1>5, SelectEffect DEF Carried
  <2> QED
    BY <2>1, <2>2 DEF Carried, InHand
<1>6. ASSUME NEW s \in Sweeper, SubmitOldest(s) \/ UnlinkReleased(s)
      PROVE  FALSE
  <2>1. UNCHANGED <<task, expiring>> /\ \A r \in Sweeper : Carried(r)' = Carried(r)
    BY <1>6, SubmitEffect, UnlinkEffect
  <2> QED
    BY <2>1 DEF Carried, InHand
<1>7. ASSUME NEW s \in Sweeper, CommitSweep(s)
      PROVE  jobs'[j].status # "held" \/ \E p \in Printer : fleet[p] = "deleted"
  <2>1. j \in sweep[s].released \cup sweep[s].failed
    BY <1>7 DEF CommitSweep, Sweep, IdleSweep, InHand
  <2>2. CASE \A k \in sweep[s].released \cup sweep[s].failed : Exists(k)
    BY <1>7, <2>1, <2>2, RowWrites DEF CommitSweep, Status
  <2>3. ASSUME NEW k \in sweep[s].released \cup sweep[s].failed, ~Exists(k)
        PROVE  \E p \in Printer : fleet[p] = "deleted"
    <3>1. k \in Job /\ InHand(k)
      BY <2>3 DEF Sweep, InHand
    <3>2. jobs[k].status = "deleted"
      BY <2>3, <3>1 DEF Exists, InHandExists
    <3> QED
      BY <3>1, <3>2 DEF DeletedInHand
  <2> QED
    BY <2>2, <2>3
<1>8. CASE ReadExpired
  BY <1>8 DEF ReadExpired, InHand
<1>9. CASE CommitExpired
  <2>1. j \in expiring
    BY <1>9 DEF CommitExpired, InHand
  <2>2. CASE \A k \in expiring : Exists(k)
    BY <1>9, <2>1, <2>2, RowWrites DEF CommitExpired, Status
  <2>3. ASSUME NEW k \in expiring, ~Exists(k)
        PROVE  \E p \in Printer : fleet[p] = "deleted"
    <3>1. k \in Job /\ InHand(k)
      BY <2>3 DEF InHand
    <3>2. jobs[k].status = "deleted"
      BY <2>3, <3>1 DEF Exists, InHandExists
    <3> QED
      BY <3>1, <3>2 DEF DeletedInHand
  <2> QED
    BY <2>2, <2>3
<1>10. ASSUME \/ PurgeFailed
              \/ \E i \in Job : HoldExpires(i) \/ FailureAges(i)
              \/ \E p \in Printer : \/ StatusChanges(p) \/ ArchivePrinter(p)
                                    \/ UnarchivePrinter(p) \/ DeletePrinter(p)
              \/ \E i \in Job : Arrives(i)
       PROVE  FALSE
  <2>1. UNCHANGED handlerVars
    BY <1>10, ArrivalIsQuiet DEF PurgeFailed, HoldExpires, FailureAges, Ages, StatusChanges,
         ArchivePrinter, UnarchivePrinter, DeletePrinter, heldVars
  <2> QED
    BY <2>1 DEF handlerVars, InHand
<1>11. CASE Crash
  BY <1>11, HeldJobsAssumption DEF Crash
<1> QED
  BY <1>1, <1>2, <1>3, <1>4, <1>5, <1>6, <1>7, <1>8, <1>9, <1>10, <1>11, NextCases

\* What a request is doing after a step it was doing before, unless it is idle
\* or the step was its own.
LEMMA TaskStep ==
    ASSUME IInv, Next, NEW t \in Request
    PROVE  \/ task'[t] = task[t]
           \/ task'[t] = IdleTask
           \/ /\ task'[t].job \in Job
              /\ task'[t].pc = "unlink" => jobs'[task'[t].job].status = "cancelled"
              /\ task'[t].pc = "cancel" => jobs'[task'[t].job].status = "failed"
              /\ task'[t].pc = "accepted" => sent'[task'[t].job] > 0
<1> DEFINE Busy == /\ task'[t].job \in Job
                   /\ task'[t].pc = "unlink" => jobs'[task'[t].job].status = "cancelled"
                   /\ task'[t].pc = "cancel" => jobs'[task'[t].job].status = "failed"
                   /\ task'[t].pc = "accepted" => sent'[task'[t].job] > 0
<1> USE HeldJobsAssumption DEF IInv, TypeOK, TableTypeOK
<1>1. ASSUME NEW u \in Request, NEW i \in Job,
             StartRelease(u, i) \/ ReadDiscard(u, i) \/ ReadCancel(u, i)
      PROVE  task'[t] = task[t] \/ Busy
  <2>1. PICK pc \in {"lp", "claim", "cancel"} :
            /\ task' = [task EXCEPT ![u] = [pc |-> pc, job |-> i, path |-> jobs[i].path]]
            /\ pc = "cancel" => jobs[i].status = "failed"
            /\ jobs' = jobs
    BY <1>1 DEF StartRelease, ReadDiscard, ReadCancel, tableVars
  <2> QED BY <2>1
<1>2. ASSUME NEW u \in Request, SubmitRelease(u)
      PROVE  task'[t] = task[t] \/ Busy
  BY <1>2 DEF SubmitRelease, LpAccepts, LpRefuses, LpTimesOut, HandOver, TaskHasJob, Task
<1>3. ASSUME NEW u \in Request, ClaimDiscard(u)
      PROVE  task'[t] = task[t] \/ Busy
  <2>1. task[u].job \in Job /\ jobs'[task[u].job].status = "cancelled"
    BY <1>3, RowWrites DEF ClaimDiscard, TaskHasJob, Status
  <2>2. task' = [task EXCEPT ![u].pc = "unlink"]
    BY <1>3 DEF ClaimDiscard
  <2> QED
    BY <2>1, <2>2 DEF Task
<1>4. ASSUME NEW u \in Request,
             \/ CommitRelease(u) \/ CommitReleaseError(u)
             \/ LoseDiscard(u) \/ UnlinkDiscarded(u) \/ CancelFails(u) \/ WriteCancelled(u)
      PROVE  task'[t] = task[t] \/ task'[t] = IdleTask
  BY <1>4 DEF CommitRelease, CommitReleaseError, LoseDiscard, UnlinkDiscarded, CancelFails,
       WriteCancelled
<1>5. ASSUME NEW s \in Sweeper,
             \/ \E S \in SUBSET Printer : Visit(s, S)
             \/ SelectWaiting(s) \/ SubmitOldest(s) \/ UnlinkReleased(s) \/ CommitSweep(s)
      PROVE  task'[t] = task[t]
  BY <1>5 DEF Visit, SelectWaiting, SubmitOldest, UnlinkReleased, CommitSweep
<1>6. ASSUME \/ ReadExpired \/ CommitExpired \/ PurgeFailed
             \/ \E i \in Job : HoldExpires(i) \/ FailureAges(i)
             \/ \E p \in Printer : \/ StatusChanges(p) \/ ArchivePrinter(p)
                                   \/ UnarchivePrinter(p) \/ DeletePrinter(p)
             \/ \E i \in Job : Arrives(i)
      PROVE  task'[t] = task[t]
  BY <1>6, ArrivalIsQuiet DEF ReadExpired, CommitExpired, PurgeFailed, HoldExpires,
       FailureAges, Ages,
       StatusChanges, ArchivePrinter, UnarchivePrinter, DeletePrinter,
       heldVars, handlerVars
<1>7. CASE Crash
  BY <1>7 DEF Crash
<1> QED
  BY <1>1, <1>2, <1>3, <1>4, <1>5, <1>6, <1>7, NextCases

\* A path that was cleared is not set again, and a discard clears it before it
\* removes the document.
LEMMA PathStep ==
    ASSUME IInv, Next, NEW j \in Job, ~jobs[j].path, jobs[j].status # "absent"
    PROVE  ~jobs'[j].path
<1> USE DEF IInv, TypeOK, TableTypeOK
<1>1. ASSUME NEW row \in JobRow, NEW status \in Status, ~row.path
      PROVE  /\ ~Closed(row, status).path /\ ~Disposed(row, status).path
  BY <1>1 DEF JobRow, Closed, Disposed
<1>2. CASE UNCHANGED jobs
  BY <1>2
<1>3. ASSUME NEW t \in Request,
             \/ CommitRelease(t) \/ CommitReleaseError(t)
             \/ ClaimDiscard(t) \/ WriteCancelled(t)
      PROVE  ~jobs'[j].path
  BY <1>1, <1>3 DEF CommitRelease, CommitReleaseError, ClaimDiscard, WriteCancelled, Status,
       TaskHasJob
<1>4. ASSUME NEW s \in Sweeper, CommitSweep(s)
      PROVE  ~jobs'[j].path
  BY <1>1, <1>4 DEF CommitSweep, Status
<1>5. ASSUME CommitExpired \/ PurgeFailed \/ \E p \in Printer : DeletePrinter(p)
      PROVE  ~jobs'[j].path
  BY <1>1, <1>5 DEF CommitExpired, PurgeFailed, DeletePrinter, Status
<1>6. ASSUME NEW i \in Job, HoldExpires(i) \/ FailureAges(i)
      PROVE  ~jobs'[j].path
  BY <1>6 DEF HoldExpires, FailureAges, Ages, JobRow
<1>7. ASSUME NEW i \in Job, Arrives(i)
      PROVE  ~jobs'[j].path
  <2>1. i # j
    BY <1>7, ArrivalEffect
  <2>2. jobs'[j] = jobs[j] \/ jobs'[j] = Supersede(jobs[j], i)
    BY <1>7, <2>1, ArrivalEffect
  <2> QED
    BY <2>2, SupersedeWrites
<1>8. ASSUME NEW t \in Request,
             \/ \E i \in Job : StartRelease(t, i) \/ ReadDiscard(t, i) \/ ReadCancel(t, i)
             \/ SubmitRelease(t) \/ LoseDiscard(t) \/ UnlinkDiscarded(t) \/ CancelFails(t)
      PROVE  UNCHANGED jobs
  BY <1>8 DEF StartRelease, ReadDiscard, ReadCancel, SubmitRelease, LoseDiscard,
       UnlinkDiscarded, CancelFails, tableVars
<1>9. ASSUME NEW s \in Sweeper,
             \/ \E S \in SUBSET Printer : Visit(s, S)
             \/ SelectWaiting(s) \/ SubmitOldest(s) \/ UnlinkReleased(s)
      PROVE  UNCHANGED jobs
  BY <1>9 DEF Visit, SelectWaiting, SubmitOldest, UnlinkReleased, tableVars
<1>10. ASSUME \/ ReadExpired \/ Crash
              \/ \E p \in Printer : StatusChanges(p) \/ ArchivePrinter(p) \/ UnarchivePrinter(p)
       PROVE  UNCHANGED jobs
  BY <1>10 DEF ReadExpired, Crash, StatusChanges, ArchivePrinter, UnarchivePrinter, tableVars
<1> QED
  BY <1>2, <1>3, <1>4, <1>5, <1>6, <1>7, <1>8, <1>9, <1>10, NextCases

\* What a job was held for stays in its row.
LEMMA ReasonStep ==
    ASSUME IInv, Next, NEW j \in Job
    PROVE  jobs'[j].reason = jobs[j].reason \/ RowCreated(j)
<1> USE DEF IInv, TypeOK, TableTypeOK
<1> DEFINE Same == jobs'[j].reason = jobs[j].reason
<1>1. ASSUME NEW row \in JobRow, NEW status \in Status
      PROVE  Closed(row, status).reason = row.reason /\ Disposed(row, status).reason = row.reason
  BY DEF JobRow, Closed, Disposed
<1>2. CASE UNCHANGED jobs
  BY <1>2
<1>3. ASSUME NEW t \in Request,
             \/ CommitRelease(t) \/ CommitReleaseError(t)
             \/ ClaimDiscard(t) \/ WriteCancelled(t)
      PROVE  Same
  <2> DEFINE i == task[t].job
  <2>1. i \in Job
    BY <1>3 DEF CommitRelease, CommitReleaseError, ClaimDiscard, WriteCancelled, TaskHasJob
  <2>2. \/ jobs' = jobs
        \/ jobs' = [jobs EXCEPT ![i] = Disposed(jobs[i], "forwarded")]
        \/ jobs' = [jobs EXCEPT ![i] = Closed(jobs[i], "failed")]
        \/ jobs' = [jobs EXCEPT ![i] = Disposed(jobs[i], "cancelled")]
        \/ jobs' = [jobs EXCEPT ![i] = Closed(jobs[i], "cancelled")]
    BY <1>3 DEF CommitRelease, CommitReleaseError, ClaimDiscard, WriteCancelled
  <2>3. {"forwarded", "failed", "cancelled"} \subseteq Status
    BY DEF Status
  <2> HIDE DEF i
  <2> QED
    BY <1>1, <2>1, <2>2, <2>3
<1>4. ASSUME NEW s \in Sweeper, CommitSweep(s)
      PROVE  Same
  BY <1>1, <1>4 DEF CommitSweep, Status
<1>5. ASSUME CommitExpired \/ PurgeFailed \/ \E p \in Printer : DeletePrinter(p)
      PROVE  Same
  BY <1>1, <1>5 DEF CommitExpired, PurgeFailed, DeletePrinter, Status
<1>6. ASSUME NEW i \in Job, HoldExpires(i) \/ FailureAges(i)
      PROVE  Same
  BY <1>6 DEF HoldExpires, FailureAges, Ages, JobRow
<1>7. ASSUME NEW i \in Job, Arrives(i)
      PROVE  Same \/ RowCreated(j)
  <2>1. CASE i # j
    <3>1. jobs'[j] = jobs[j] \/ jobs'[j] = Supersede(jobs[j], i)
      BY <1>7, <2>1, ArrivalEffect
    <3> QED
      BY <3>1, SupersedeWrites
  <2>2. CASE i = j
    <3>1. jobs[j].status = "absent" /\ jobs'[j].status \in {"held", "forwarding"}
      BY <1>7, <2>2, ArrivalEffect
    <3>2. RowMoves(j)
      BY RowStep
    <3> QED
      BY <3>1, <3>2 DEF RowMoves, RowKept, RowAged, RowClosed, RowCancelled, RowDeleted
  <2> QED
    BY <2>1, <2>2
<1>8. ASSUME NEW t \in Request,
             \/ \E i \in Job : StartRelease(t, i) \/ ReadDiscard(t, i) \/ ReadCancel(t, i)
             \/ SubmitRelease(t) \/ LoseDiscard(t) \/ UnlinkDiscarded(t) \/ CancelFails(t)
      PROVE  UNCHANGED jobs
  BY <1>8 DEF StartRelease, ReadDiscard, ReadCancel, SubmitRelease, LoseDiscard,
       UnlinkDiscarded, CancelFails, tableVars
<1>9. ASSUME NEW s \in Sweeper,
             \/ \E S \in SUBSET Printer : Visit(s, S)
             \/ SelectWaiting(s) \/ SubmitOldest(s) \/ UnlinkReleased(s)
      PROVE  UNCHANGED jobs
  BY <1>9 DEF Visit, SelectWaiting, SubmitOldest, UnlinkReleased, tableVars
<1>10. ASSUME \/ ReadExpired \/ Crash
              \/ \E p \in Printer : StatusChanges(p) \/ ArchivePrinter(p) \/ UnarchivePrinter(p)
       PROVE  UNCHANGED jobs
  BY <1>10 DEF ReadExpired, Crash, StatusChanges, ArchivePrinter, UnarchivePrinter, tableVars
<1> QED
  BY <1>2, <1>3, <1>4, <1>5, <1>6, <1>7, <1>8, <1>9, <1>10, NextCases

LEMMA WaivedStep ==
    ASSUME IInv, Next, NEW t \in Request, task'[t].pc = "unlink"
    PROVE  ~jobs'[task'[t].job].path
<1> USE DEF IInv, TypeOK, TableTypeOK
<1>1. CASE task'[t] = task[t]
  <2>1. /\ task[t].job \in Job /\ ~jobs[task[t].job].path
        /\ jobs[task[t].job].status # "absent"
    BY <1>1 DEF TaskHasJob, DiscardClaimed, DiscardWaived
  <2> QED
    BY <1>1, <2>1, PathStep
<1>2. CASE ClaimDiscard(t)
  <2> DEFINE j == task[t].job
  <2>1. j \in Job /\ jobs'[j] = Disposed(jobs[j], "cancelled") /\ task'[t].job = j
    BY <1>2 DEF ClaimDiscard, TaskHasJob, Task
  <2>2. ASSUME NEW row \in JobRow
        PROVE  ~Disposed(row, "cancelled").path
    BY DEF Disposed, Closed, JobRow
  <2> QED
    BY <2>1, <2>2
<1>3. task'[t] = task[t] \/ ClaimDiscard(t)
  <2>1. ASSUME NEW u \in Request,
               \/ \E i \in Job : StartRelease(u, i) \/ ReadDiscard(u, i) \/ ReadCancel(u, i)
               \/ SubmitRelease(u) \/ CommitRelease(u) \/ CommitReleaseError(u)
               \/ LoseDiscard(u) \/ UnlinkDiscarded(u) \/ CancelFails(u) \/ WriteCancelled(u)
        PROVE  task'[t] = task[t]
    <3>1. \E new : task' = [task EXCEPT ![u] = new] /\ new.pc # "unlink"
      <4>1. CASE \E i \in Job : StartRelease(u, i) \/ ReadDiscard(u, i) \/ ReadCancel(u, i)
        BY <4>1 DEF StartRelease, ReadDiscard, ReadCancel
      <4>2. CASE SubmitRelease(u)
        <5>1. PICK pc \in {"accepted", "refused"} :
                 task' = [task EXCEPT ![u] = [task[u] EXCEPT !.pc = pc]]
          BY <4>2 DEF SubmitRelease
        <5>2. [task[u] EXCEPT !.pc = pc].pc = pc
          BY DEF Task
        <5> QED BY <5>1, <5>2
      <4>3. CASE \/ CommitRelease(u) \/ CommitReleaseError(u)
                 \/ LoseDiscard(u) \/ UnlinkDiscarded(u) \/ CancelFails(u) \/ WriteCancelled(u)
        BY <4>3 DEF CommitRelease, CommitReleaseError, LoseDiscard, UnlinkDiscarded,
             CancelFails, WriteCancelled, IdleTask
      <4> QED BY <2>1, <4>1, <4>2, <4>3
    <3> QED BY <3>1
  <2>2. ASSUME NEW u \in Request, ClaimDiscard(u)
        PROVE  task'[t] = task[t] \/ ClaimDiscard(t)
    BY <2>2 DEF ClaimDiscard
  <2>3. ASSUME NEW s \in Sweeper,
               \/ \E S \in SUBSET Printer : Visit(s, S)
               \/ SelectWaiting(s) \/ SubmitOldest(s) \/ UnlinkReleased(s) \/ CommitSweep(s)
        PROVE  task'[t] = task[t]
    BY <2>3 DEF Visit, SelectWaiting, SubmitOldest, UnlinkReleased, CommitSweep
  <2>4. ASSUME \/ ReadExpired \/ CommitExpired \/ PurgeFailed
               \/ \E i \in Job : HoldExpires(i) \/ FailureAges(i)
               \/ \E p \in Printer : \/ StatusChanges(p) \/ ArchivePrinter(p)
                                     \/ UnarchivePrinter(p) \/ DeletePrinter(p)
               \/ \E i \in Job : Arrives(i)
        PROVE  task'[t] = task[t]
    BY <2>4, ArrivalIsQuiet DEF ReadExpired, CommitExpired, PurgeFailed, HoldExpires,
         FailureAges, Ages,
         StatusChanges, ArchivePrinter, UnarchivePrinter, DeletePrinter,
         heldVars, handlerVars
  <2>5. CASE Crash
    BY <2>5 DEF Crash, IdleTask
  <2> QED
    BY <2>1, <2>2, <2>3, <2>4, <2>5, NextCases
<1> QED
  BY <1>1, <1>2, <1>3

\* An automatic release only marks a document released when lp has taken it.
LEMMA SweepStepIsHonest ==
    ASSUME IInv, Next, NEW s \in Sweeper
    PROVE  /\ sweep'[s].pc = "accepted" =>
               \/ sweep[s].pc = "accepted" /\ sweep'[s].todo = sweep[s].todo
               \/ sweep'[s].todo # {} /\ sent'[Oldest(sweep'[s].todo)] > 0
           /\ \A j \in sweep'[s].released : j \in sweep[s].released \/ sent[j] > 0
<1> DEFINE Honest ==
      /\ sweep'[s].pc = "accepted" =>
          \/ sweep[s].pc = "accepted" /\ sweep'[s].todo = sweep[s].todo
          \/ sweep'[s].todo # {} /\ sent'[Oldest(sweep'[s].todo)] > 0
      /\ \A j \in sweep'[s].released : j \in sweep[s].released \/ sent[j] > 0
<1> USE HeldJobsAssumption DEF IInv, TypeOK
<1>1. ASSUME sweep'[s] = sweep[s] \/ sweep'[s] = IdleSweep
      PROVE  Honest
  BY <1>1 DEF IdleSweep
<1>2. ASSUME NEW r \in Sweeper, NEW S \in SUBSET Printer, Visit(r, S)
      PROVE  Honest
  BY <1>2 DEF Visit, Sweep
<1>3. ASSUME NEW r \in Sweeper, SelectWaiting(r)
      PROVE  Honest
  BY <1>3, <1>1, SelectEffect
<1>4. ASSUME NEW r \in Sweeper, SubmitOldest(r)
      PROVE  Honest
  <2> DEFINE i == Oldest(sweep[r].todo)
  <2>1. i \in Job /\ sweep[r].todo # {}
    BY <1>4, OldestIsMember DEF SubmitOldest, Sweep
  <2>2. CASE r # s
    BY <1>4, <2>2, <1>1 DEF SubmitOldest
  <2>3. CASE r = s
    <3>1. sweep'[s].released = sweep[s].released
      BY <1>4, <2>3 DEF SubmitOldest, Sweep
    <3>2. sweep'[s].pc = "accepted" => HandOver(i) /\ sweep'[s].todo = sweep[s].todo
      BY <1>4, <2>3 DEF SubmitOldest, LpAccepts, Sweep
    <3>3. HandOver(i) => sent'[i] > 0
      BY <2>1 DEF HandOver
    <3> QED
      BY <2>1, <2>3, <3>1, <3>2, <3>3
  <2> QED
    BY <2>2, <2>3
<1>5. ASSUME NEW r \in Sweeper, UnlinkReleased(r)
      PROVE  Honest
  BY <1>1, <1>5, UnlinkEffect
<1>6. ASSUME NEW r \in Sweeper, CommitSweep(r)
      PROVE  Honest
  BY <1>6, <1>1 DEF CommitSweep
<1>7. ASSUME NEW t \in Request,
             \/ \E i \in Job : StartRelease(t, i) \/ ReadDiscard(t, i) \/ ReadCancel(t, i)
             \/ SubmitRelease(t) \/ CommitRelease(t) \/ CommitReleaseError(t)
             \/ ClaimDiscard(t) \/ LoseDiscard(t) \/ UnlinkDiscarded(t)
             \/ CancelFails(t) \/ WriteCancelled(t)
      PROVE  Honest
  BY <1>7, <1>1 DEF StartRelease, ReadDiscard, ReadCancel, SubmitRelease, CommitRelease,
       CommitReleaseError, ClaimDiscard, LoseDiscard, UnlinkDiscarded, CancelFails, WriteCancelled
<1>8. ASSUME \/ ReadExpired \/ CommitExpired \/ PurgeFailed
             \/ \E i \in Job : HoldExpires(i) \/ FailureAges(i)
             \/ \E p \in Printer : \/ StatusChanges(p) \/ ArchivePrinter(p)
                                   \/ UnarchivePrinter(p) \/ DeletePrinter(p)
             \/ \E i \in Job : Arrives(i)
      PROVE  Honest
  BY <1>8, <1>1, ArrivalIsQuiet DEF ReadExpired, CommitExpired, PurgeFailed, HoldExpires,
       FailureAges, Ages,
       StatusChanges, ArchivePrinter, UnarchivePrinter, DeletePrinter,
       heldVars, handlerVars
<1>9. CASE Crash
  BY <1>9, <1>1 DEF Crash
<1> QED
  BY <1>2, <1>3, <1>4, <1>5, <1>6, <1>7, <1>8, <1>9, NextCases

-----------------------------------------------------------------------------

LEMMA NextIInv == IInv /\ [Next]_vars => IInv'
<1> SUFFICES ASSUME IInv, [Next]_vars PROVE IInv'
  OBVIOUS
<1>1. CASE UNCHANGED vars
  BY <1>1 DEF vars, tableVars, heldVars, handlerVars, IInv, TypeOK, TableTypeOK, TaskHasJob,
       DiscardClaimed, DiscardWaived, InHandExists, NewIsUnsent, NewIsBlank, SpooledWasHeld,
       AcceptedWasSent, AgedIsSettled, DeletedInHand, HeldHasPath, HeldDocumentSurvives,
       ForwardedWasSent, HeldMeansUnsent, InHand
<1>2. CASE Next
  <2> USE <1>2
  <2>1. TypeOK'
    BY TypeNext DEF IInv
  <2>2. \A j \in Job : RowMoves(j)
    BY RowStep
  <2>3. \A j \in Job : sent'[j] = sent[j] \/ (InHand(j) /\ sent'[j] > 0)
    BY SentStep
  <2>4. \A j \in Job : sent[j] > 0 => sent'[j] > 0
    BY <2>3
  <2>5. \A j \in Job : InHand(j)' => InHand(j) \/ (jobs[j].status = "held" /\ jobs'[j] = jobs[j])
    BY TakeUp
  <2>6. TaskHasJob'
    BY TaskStep DEF IInv, TaskHasJob, IdleTask
  <2>7. DiscardClaimed'
    <3>1. ASSUME NEW j \in Job, jobs[j].status \notin {"absent", "held"}
          PROVE  jobs'[j].status \notin {"absent", "held"}
      BY <2>2, <3>1 DEF RowMoves, RowKept, RowCreated, RowAged, RowClosed, RowCancelled,
           RowDeleted
    <3>2. ASSUME NEW t \in Request, task'[t].pc \in {"unlink", "cancel"}
          PROVE  jobs'[task'[t].job].status \notin {"absent", "held"}
      <4>1. CASE task'[t] = task[t]
        <5>1. task[t].job \in Job /\ jobs[task[t].job].status \notin {"absent", "held"}
          BY <3>2, <4>1 DEF IInv, TaskHasJob, DiscardClaimed
        <5> QED
          BY <3>1, <4>1, <5>1
      <4>2. CASE task'[t] = IdleTask
        BY <3>2, <4>2 DEF IdleTask
      <4>3. CASE jobs'[task'[t].job].status \in {"cancelled", "failed"}
        BY <4>3
      <4> QED
        BY <3>2, <4>1, <4>2, <4>3, TaskStep
    <3> QED
      BY <3>2 DEF DiscardClaimed
  <2>8. DiscardWaived'
    BY WaivedStep DEF DiscardWaived
  <2>9. InHandExists'
    BY <2>2, <2>5 DEF IInv, InHandExists,
         RowMoves, RowKept, RowCreated, RowAged, RowClosed, RowCancelled, RowDeleted
  <2>10. NewIsBlank'
    BY <2>2, SpoolStep DEF IInv, NewIsBlank,
         RowMoves, RowKept, RowCreated, RowAged, RowClosed, RowCancelled, RowDeleted
  <2>11. NewIsUnsent'
    BY <2>2, <2>3 DEF IInv, NewIsUnsent, InHandExists,
         RowMoves, RowKept, RowCreated, RowAged, RowClosed, RowCancelled, RowDeleted
  <2>12. AcceptedWasSent'
    <3>1. \A t \in Request : task'[t].pc = "accepted" => sent'[task'[t].job] > 0
      BY <2>4, TaskStep DEF IInv, TaskHasJob, AcceptedWasSent, IdleTask
    <3>2. \A s \in Sweeper : \A j \in sweep'[s].released : sent'[j] > 0
      BY <2>1, <2>4, SweepStepIsHonest DEF IInv, AcceptedWasSent, TypeOK, Sweep
    <3>3. ASSUME NEW s \in Sweeper, sweep'[s].pc = "accepted"
          PROVE  sweep'[s].todo # {} /\ sent'[Oldest(sweep'[s].todo)] > 0
      <4>1. CASE sweep[s].pc = "accepted" /\ sweep'[s].todo = sweep[s].todo
        <5>1. sweep[s].todo # {} /\ sent[Oldest(sweep[s].todo)] > 0
          BY <4>1 DEF IInv, AcceptedWasSent
        <5>2. Oldest(sweep[s].todo) \in Job
          BY <5>1, OldestIsMember DEF IInv, TypeOK, Sweep
        <5> QED
          BY <2>4, <4>1, <5>1, <5>2
      <4> QED
        BY <3>3, <4>1, SweepStepIsHonest
    <3> QED
      BY <3>1, <3>2, <3>3 DEF AcceptedWasSent
  <2>13. AgedIsSettled'
    BY <2>2, <2>5 DEF IInv, AgedIsSettled,
         RowMoves, RowKept, RowCreated, RowAged, RowClosed, RowCancelled, RowDeleted
  <2>14. DeletedInHand'
    BY <2>2, <2>5, GoneStays DEF IInv, AgedIsSettled, DeletedInHand,
         RowMoves, RowKept, RowCreated, RowAged, RowClosed, RowCancelled, RowDeleted
  <2>15. HeldHasPath'
    BY <2>2 DEF IInv, HeldHasPath,
         RowMoves, RowKept, RowCreated, RowAged, RowClosed, RowCancelled, RowDeleted
  <2>16. HeldDocumentSurvives'
    BY <2>2, <2>4, SpoolStep DEF IInv, HeldHasPath, HeldDocumentSurvives,
         RowMoves, RowKept, RowCreated, RowAged, RowClosed, RowCancelled, RowDeleted
  <2>17. ForwardedWasSent'
    BY <2>2, <2>4 DEF IInv, ForwardedWasSent,
         RowMoves, RowKept, RowCreated, RowAged, RowClosed, RowCancelled, RowDeleted
  <2>18. HeldMeansUnsent'
    BY <2>2, <2>3, HandOff, GoneStays DEF IInv, HeldMeansUnsent, NewIsUnsent, TypeOK,
         RowMoves, RowKept, RowCreated, RowAged, RowClosed, RowCancelled, RowDeleted
  <2>19. SpooledWasHeld'
    BY <2>1, SpoolStep, ReasonStep DEF IInv, SpooledWasHeld, RowCreated, TypeOK, TableTypeOK
  <2> QED
    BY <2>1, <2>19, <2>6, <2>7, <2>8, <2>9, <2>10, <2>11,
       <2>12, <2>13, <2>14, <2>15, <2>16, <2>17, <2>18
    DEF IInv
<1> QED
  BY <1>1, <1>2

LEMMA Invariance == Spec => []IInv
BY InitIInv, NextIInv, PTL DEF Spec

-----------------------------------------------------------------------------

\* Every variable keeps its type: the statuses the handlers write are statuses
\* of the table, and what a handler carries is a set of rows.
THEOREM TypeCorrect == Spec => []TypeOK
<1>1. IInv => TypeOK
  BY DEF IInv
<1> QED
  BY <1>1, Invariance, PTL

\* The document of a held job that has not expired is in the spool or with
\* CUPS, however many releases, discards and purges race for it.
THEOREM CustodyKept == Spec => []HeldDocumentSurvives
<1>1. IInv => HeldDocumentSurvives
  BY DEF IInv
<1> QED
  BY <1>1, Invariance, PTL

\* A held row never loses the path of its document.
THEOREM PathKept == Spec => []HeldHasPath
<1>1. IInv => HeldHasPath
  BY DEF IInv
<1> QED
  BY <1>1, Invariance, PTL

\* No handler records a document as forwarded that lp did not accept.
THEOREM ForwardedIsTrue == Spec => []ForwardedWasSent
<1>1. IInv => ForwardedWasSent
  BY DEF IInv
<1> QED
  BY <1>1, Invariance, PTL

\* Without a crash or a deleted printer, a held job that was handed to CUPS is
\* still in the hands of whoever did it: nobody will release it a second time
\* for want of a record.
THEOREM NotSentTwice == Spec => []HeldMeansUnsent
<1>1. IInv => HeldMeansUnsent
  BY DEF IInv
<1> QED
  BY <1>1, Invariance, PTL

\* A job that is settled stays as it is settled, except that a failure becomes
\* "cancelled" when a later attempt supersedes it, and no further copy of it is
\* printed, whatever the handlers that came too late for it had read
\* (discard_hold, release_held_job, release_jobs_waiting_for, cancel_job,
\* _supersede_earlier_attempts).
THEOREM SettledStays == Spec => SettledForGood
<1>1. IInv /\ [Next]_vars =>
        [\A j \in Job :
           Settled(j) =>
             /\ \/ jobs'[j].status \in {jobs[j].status, "deleted"}
                \/ /\ jobs[j].status = "failed" /\ jobs'[j].status = "cancelled"
                   /\ jobs'[j].superseded # NoJob
             /\ sent'[j] = sent[j] /\ ~InHand(j)']_vars
  <2> SUFFICES ASSUME IInv, Next, NEW j \in Job, Settled(j)
               PROVE  /\ \/ jobs'[j].status \in {jobs[j].status, "deleted"}
                         \/ /\ jobs[j].status = "failed" /\ jobs'[j].status = "cancelled"
                            /\ jobs'[j].superseded # NoJob
                      /\ sent'[j] = sent[j] /\ ~InHand(j)'
    OBVIOUS
  <2>1. /\ jobs[j].status \in {"forwarded", "failed", "cancelled"}
        /\ ~InHand(j) /\ ~Cancelling(j)
    BY DEF Settled
  <2>2. \/ jobs'[j].status \in {jobs[j].status, "deleted"}
        \/ /\ jobs[j].status = "failed" /\ jobs'[j].status = "cancelled"
           /\ jobs'[j].superseded # NoJob
    BY <2>1, RowStep DEF RowMoves, RowKept, RowCreated, RowAged, RowClosed, RowCancelled,
         RowDeleted
  <2>3. sent'[j] = sent[j]
    BY <2>1, SentStep
  <2>4. ~InHand(j)'
    BY <2>1, TakeUp
  <2> QED
    BY <2>2, <2>3, <2>4
<1> QED
  BY <1>1, InitIInv, NextIInv, PTL DEF Spec, SettledForGood

-----------------------------------------------------------------------------
(* The handlers implement DocumentCustody.                                 *)

LEMMA InitCustody == Init => Custody!Init
BY JobTableAssumption DEF Init, TableInit, HeldInit, Custody!Init, Taken, Lost, Waived,
     Due, NoRow

\* lp takes a document, and nothing else changes.
LEMMA SentByLp ==
    ASSUME IInv, Next, sent' # sent
    PROVE  \E j \in Job : j \in spool /\ HandOver(j) /\ UNCHANGED tableVars
<1> USE DEF IInv, TypeOK
<1>1. ASSUME NEW t \in Request, SubmitRelease(t)
      PROVE  \E j \in Job : j \in spool /\ HandOver(j) /\ UNCHANGED tableVars
  <2>1. task[t].job \in Job
    BY <1>1 DEF SubmitRelease, TaskHasJob
  <2> QED
    BY <1>1, <2>1 DEF SubmitRelease, LpAccepts, LpRefuses, LpTimesOut
<1>2. ASSUME NEW s \in Sweeper, SubmitOldest(s)
      PROVE  \E j \in Job : j \in spool /\ HandOver(j) /\ UNCHANGED tableVars
  <2>1. Oldest(sweep[s].todo) \in Job
    BY <1>2, OldestIsMember DEF SubmitOldest, Sweep
  <2> QED
    BY <1>2, <2>1 DEF SubmitOldest, LpAccepts, LpRefuses, LpTimesOut
<1>3. ASSUME NEW t \in Request,
             \/ \E i \in Job : StartRelease(t, i) \/ ReadDiscard(t, i) \/ ReadCancel(t, i)
             \/ CommitRelease(t) \/ CommitReleaseError(t)
             \/ ClaimDiscard(t) \/ LoseDiscard(t) \/ UnlinkDiscarded(t)
             \/ CancelFails(t) \/ WriteCancelled(t)
      PROVE  FALSE
  BY <1>3 DEF StartRelease, ReadDiscard, ReadCancel, CommitRelease, CommitReleaseError,
       ClaimDiscard, LoseDiscard, UnlinkDiscarded, CancelFails, WriteCancelled
<1>4. ASSUME NEW s \in Sweeper,
             \/ \E S \in SUBSET Printer : Visit(s, S)
             \/ SelectWaiting(s) \/ UnlinkReleased(s) \/ CommitSweep(s)
      PROVE  FALSE
  BY <1>4 DEF Visit, SelectWaiting, UnlinkReleased, CommitSweep
<1>5. ASSUME \/ ReadExpired \/ CommitExpired \/ PurgeFailed \/ Crash
             \/ \E i \in Job : HoldExpires(i) \/ FailureAges(i)
             \/ \E p \in Printer : \/ StatusChanges(p) \/ ArchivePrinter(p)
                                   \/ UnarchivePrinter(p) \/ DeletePrinter(p)
             \/ \E i \in Job : Arrives(i)
      PROVE  FALSE
  BY <1>5, ArrivalIsQuiet DEF ReadExpired, CommitExpired, PurgeFailed, Crash, HoldExpires,
       FailureAges, Ages, StatusChanges, ArchivePrinter, UnarchivePrinter, DeletePrinter, heldVars
<1> QED
  BY <1>1, <1>2, <1>3, <1>4, <1>5, NextCases

\* Each step of a handler is a step of the promise, or none.
LEMMA NextCustody == IInv /\ [Next]_vars => [Custody!Next]_(Custody!vars)
<1> SUFFICES ASSUME IInv, [Next]_vars PROVE [Custody!Next]_(Custody!vars)
  OBVIOUS
<1> USE DEF Taken, Lost, Waived, Due
<1>1. CASE UNCHANGED vars
  BY <1>1 DEF vars, tableVars, heldVars, Custody!vars
<1>2. CASE Next /\ sent' # sent
  <2>1. PICK j \in Job : j \in spool /\ HandOver(j) /\ UNCHANGED tableVars
    BY <1>2, SentByLp
  <2>2. Custody!HandOver(j)
    BY <2>1 DEF HandOver, Custody!HandOver, tableVars
  <2> QED
    BY <2>2 DEF Custody!Next
<1>3. ASSUME NEW j \in Job, Arrives(j)
      PROVE  Custody!TakeIn(j) \/ Custody!Decide
  <2>1. /\ jobs[j].status = "absent" /\ jobs[j].reason = "none" /\ j \notin spool
        /\ jobs[j].age = 0
    BY <1>3, ArrivalEffect DEF IInv, NewIsBlank, NoRow
  <2>2. /\ sent' = sent /\ jobs'[j].age = 0
        /\ \/ jobs'[j].path /\ jobs'[j].reason # "none" /\ spool' = spool \cup {j}
           \/ jobs'[j].reason = "none" /\ spool' = spool
    BY <1>3, ArrivalEffect DEF heldVars, IInv
  <2>3. ASSUME NEW k \in Job \ {j}
        PROVE  /\ jobs'[k].reason = jobs[k].reason /\ jobs'[k].path = jobs[k].path
               /\ jobs'[k].age = jobs[k].age \/ jobs'[k].age = 0
    <3>1. jobs'[k] = jobs[k] \/ jobs'[k] = Supersede(jobs[k], j)
      BY <1>3, ArrivalEffect DEF IInv
    <3>2. jobs[k] \in JobRow
      BY DEF IInv, TypeOK, TableTypeOK
    <3> QED BY <3>1, <3>2, SupersedeWrites
  <2>4. Due' \subseteq Due /\ Due' \subseteq Job
    BY <2>1, <2>2, <2>3
  <2>5. CASE jobs'[j].path /\ jobs'[j].reason # "none" /\ spool' = spool \cup {j}
    <3>1. Taken' = Taken \cup {j} /\ j \notin Taken
      BY <2>1, <2>3, <2>5
    <3>2. Waived' = Waived /\ j \notin Waived
      BY <2>1, <2>3, <2>5
    <3>3. Lost' = Lost /\ j \notin Lost
      BY <2>1, <2>5, <3>1 DEF Lost
    <3> QED
      BY <2>1, <2>2, <2>4, <2>5, <3>2, <3>3 DEF Custody!TakeIn
  <2>6. CASE jobs'[j].reason = "none" /\ spool' = spool
    <3>1. Taken' = Taken
      BY <2>1, <2>3, <2>6
    <3>2. Waived' = Waived /\ Waived \subseteq Job
      BY <2>1, <2>3, <2>6
    <3>3. Lost' = Lost
      BY <2>6, <3>1 DEF Lost
    <3> QED
      BY <2>2, <2>4, <2>6, <3>2, <3>3 DEF Custody!Decide
  <2> QED
    BY <2>2, <2>5, <2>6
<1>4. CASE Next /\ sent' = sent /\ \A j \in Job : ~RowCreated(j)
  <2>1. \A j \in Taken : jobs[j].status # "absent"
    BY DEF IInv, NewIsBlank, NoRow
  <2>2. Taken' = Taken
    BY <1>4, ReasonStep
  <2>3. Waived \subseteq Waived'
    BY <1>4, <2>1, <2>2, PathStep
  <2>4. spool' \subseteq spool /\ spool \subseteq Taken
    BY <1>4, SpoolStep, TypeNext DEF IInv, SpooledWasHeld, TypeOK, TableTypeOK
  <2> DEFINE S == spool \ spool'
  <2>5. \A j \in S : Custody!MayDestroy(j)
    BY <1>4, <2>4, SpoolStep DEF Custody!MayDestroy
  <2>6. /\ S \in SUBSET spool
        /\ spool' = spool \ S
        /\ Lost' = Lost \cup S
    BY <2>2, <2>4 DEF Lost
  <2>7. Waived' \subseteq Job /\ Due' \subseteq Job
    OBVIOUS
  <2> QED
    BY <1>4, <2>3, <2>5, <2>6, <2>7 DEF Custody!Destroy, Custody!Next
<1> QED
  BY <1>1, <1>2, <1>3, <1>4 DEF Custody!Next, RowCreated

\* The handlers together keep the promise DocumentCustody makes.
THEOREM Refinement == Spec => CustodySpec
BY InitCustody, InitIInv, NextIInv, NextCustody, PTL DEF Spec, CustodySpec, Custody!Spec
=============================================================================
