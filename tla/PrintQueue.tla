----------------------------- MODULE PrintQueue -----------------------------
(***************************************************************************)
(* Letting others go first (routers/print_queue.py, printers/print_queue.  *)
(* py): a person lowers the priority of a job of theirs that waits in      *)
(* cupsd's queue, and puts it back in line later.  What it was before is   *)
(* remembered in the memory of the API process.                            *)
(*                                                                         *)
(* A request reads the queue, changes the priority and notes that in three *)
(* steps; requests about the same job, cupsd and a restart come between.   *)
(***************************************************************************)
EXTENDS Naturals

CONSTANTS
    QueuedJob,          \* jobs in cupsd's queues
    Reprioritiser,      \* yield and restore requests in progress at one time
    NORMAL_PRIORITY,
    YIELDED_PRIORITY,
    LowPriority         \* one that a client may submit of its own accord

ASSUME PrintQueueAssumption ==
    /\ {NORMAL_PRIORITY, YIELDED_PRIORITY, LowPriority} \subseteq Nat \ {0}
    /\ YIELDED_PRIORITY < LowPriority /\ LowPriority < NORMAL_PRIORITY

VARIABLES
    queued,         \* cupsd's jobs
    submitted,      \* history: the priority each was submitted with
    yieldedFrom,    \* _YIELDED_FROM, 0 for no entry
    reprio          \* what each request is about

printQueueVars == <<queued, submitted, yieldedFrom, reprio>>

Priority == {NORMAL_PRIORITY, YIELDED_PRIORITY, LowPriority}

QueuedState == [state: {"none", "pending", "held", "processing", "stopped", "gone"},
                priority: Priority]

NotQueued == [state |-> "none", priority |-> NORMAL_PRIORITY]

\* seen: the priority in the list; priority: the one to set.
Request == [pc: {"idle", "set", "note"}, job: QueuedJob, yielding: BOOLEAN,
            seen: Priority, priority: Priority]

PrintQueueTypeOK ==
    /\ queued \in [QueuedJob -> QueuedState]
    /\ submitted \in [QueuedJob -> Priority]
    /\ yieldedFrom \in [QueuedJob -> Priority \cup {0}]
    /\ reprio \in [Reprioritiser -> Request]

IdleRequest == [pc |-> "idle", job |-> CHOOSE j \in QueuedJob : TRUE, yielding |-> FALSE,
                seen |-> NORMAL_PRIORITY, priority |-> NORMAL_PRIORITY]

PrintQueueInit ==
    /\ queued = [j \in QueuedJob |-> NotQueued]
    /\ submitted = [j \in QueuedJob |-> NORMAL_PRIORITY]
    /\ yieldedFrom = [j \in QueuedJob |-> 0]
    /\ reprio = [r \in Reprioritiser |-> IdleRequest]

-----------------------------------------------------------------------------
(* Requests (_reprioritise).                                               *)

IsWaiting(j) == queued[j].state \in {"pending", "stopped"}

StartRequest(r, j, yielding, priority) ==
    /\ reprio[r].pc = "idle" /\ IsWaiting(j)
    /\ reprio' = [reprio EXCEPT ![r] =
                     [pc |-> "set", job |-> j, yielding |-> yielding,
                      seen |-> queued[j].priority, priority |-> priority]]
    /\ UNCHANGED <<queued, submitted, yieldedFrom>>

YieldJob(r, j) == StartRequest(r, j, TRUE, YIELDED_PRIORITY)

\* Fault: back to the default.
RestoreDefault(r, j) ==
    yieldedFrom[j] # 0 /\ StartRequest(r, j, FALSE, NORMAL_PRIORITY)

\* Only what PrintOps lowered is raised again, and to where it was.
RestoreJob(r, j) ==
    yieldedFrom[j] # 0 /\ StartRequest(r, j, FALSE, yieldedFrom[j])

SetPriority(r) ==
    LET j == reprio[r].job
    IN /\ reprio[r].pc = "set"
       /\ queued[j].state \in {"pending", "held", "stopped"}
       /\ queued' = [queued EXCEPT ![j].priority = reprio[r].priority]
       /\ reprio' = [reprio EXCEPT ![r].pc = "note"]
       /\ UNCHANGED <<submitted, yieldedFrom>>

\* 502: the job has started or gone, or cupsd does not answer.
SetPriorityFails(r) ==
    /\ reprio[r].pc = "set"
    /\ reprio' = [reprio EXCEPT ![r] = IdleRequest]
    /\ UNCHANGED <<queued, submitted, yieldedFrom>>

\* remember_priority_before_yield, or forget_priority_before_yield.
NotePriority(r) ==
    /\ reprio[r].pc = "note"
    /\ yieldedFrom' = [yieldedFrom EXCEPT ![reprio[r].job] =
                          IF reprio[r].yielding THEN reprio[r].seen ELSE 0]
    /\ reprio' = [reprio EXCEPT ![r] = IdleRequest]
    /\ UNCHANGED <<queued, submitted>>

-----------------------------------------------------------------------------
(* cupsd, and the process.                                                 *)

CupsJobArrives(j) ==
    /\ queued[j] = NotQueued
    /\ \E p \in {LowPriority, NORMAL_PRIORITY} :
           /\ queued' = [queued EXCEPT ![j] = [state |-> "pending", priority |-> p]]
           /\ submitted' = [submitted EXCEPT ![j] = p]
    /\ UNCHANGED <<yieldedFrom, reprio>>

CupsJobMoves(j) ==
    /\ \E states \in {<<"pending", "processing">>, <<"processing", "pending">>,
                      <<"processing", "stopped">>, <<"stopped", "processing">>,
                      <<"pending", "held">>, <<"held", "pending">>,
                      <<"processing", "gone">>, <<"held", "gone">>, <<"pending", "gone">>} :
           /\ queued[j].state = states[1]
           /\ queued' = [queued EXCEPT ![j].state = states[2]]
    /\ UNCHANGED <<submitted, yieldedFrom, reprio>>

MemoryLost ==
    /\ yieldedFrom' = [j \in QueuedJob |-> 0]
    /\ reprio' = [r \in Reprioritiser |-> IdleRequest]
    /\ UNCHANGED <<queued, submitted>>

PrintQueueNext ==
    \/ \E r \in Reprioritiser : \/ \E j \in QueuedJob : YieldJob(r, j) \/ RestoreJob(r, j)
                                \/ SetPriority(r) \/ SetPriorityFails(r) \/ NotePriority(r)
    \/ \E j \in QueuedJob : CupsJobArrives(j) \/ CupsJobMoves(j)
    \/ MemoryLost

PrintQueueSpec == PrintQueueInit /\ [][PrintQueueNext]_printQueueVars

-----------------------------------------------------------------------------
(* Properties.                                                             *)

\* "PrintOps will not raise a job it did not lower": no order of yielding and
\* restoring, in two tabs or across a restart, takes a job further forward than
\* it was submitted (_reprioritise, _YIELDED_FROM).
NoQueueJump == \A j \in QueuedJob : queued[j].priority <= submitted[j]
=============================================================================
