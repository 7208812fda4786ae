----------------------------- MODULE Admin_proofs -----------------------------
(***************************************************************************)
(* Proofs about what administrators set in motion: the order of the jobs   *)
(* in a print queue (PrintQueue) and the address it sends to               *)
(* (QueueSync), software updates (Updates), the dates of years and terms   *)
(* (ReportingPeriods), and the names that jobs arrive under                *)
(* (Attribution), for any number of jobs, requests, sessions, addresses,   *)
(* edits, updates, rows, reports, years, days and people.                  *)
(***************************************************************************)
EXTENDS PrintQueue, QueueSync, Updates, ReportingPeriods, Attribution, FiniteSetTheorems,
        NaturalsInduction, WellFoundedInduction, TLAPS

-----------------------------------------------------------------------------
(***************************************************************************)
(* PrintQueue. That no job gets ahead of where it was submitted follows    *)
(* from the two places a priority is kept in the meantime: the memory of   *)
(* the process, and the requests that have read a list and not yet         *)
(* written.                                                                *)
(***************************************************************************)

\* What is remembered of a job is no higher than it was submitted.
MemoryIsModest == \A j \in QueuedJob : yieldedFrom[j] <= submitted[j]

\* Nor is what a request has seen, or is about to set.
RequestIsModest ==
    \A r \in Reprioritiser :
        reprio[r].pc # "idle" =>
            /\ reprio[r].seen <= submitted[reprio[r].job]
            /\ reprio[r].priority <= submitted[reprio[r].job]

\* Nothing is remembered of a job that has not arrived, and no request is about
\* it.
NewIsUnknown ==
    \A j \in QueuedJob :
        queued[j].state = "none" =>
            /\ yieldedFrom[j] = 0
            /\ \A r \in Reprioritiser : reprio[r].pc # "idle" => reprio[r].job # j

PrintQueueInv ==
    /\ PrintQueueTypeOK
    /\ NoQueueJump /\ MemoryIsModest /\ RequestIsModest /\ NewIsUnknown

-----------------------------------------------------------------------------
LEMMA PriorityIsNat ==
    /\ Priority \subseteq Nat
    /\ 0 \notin Priority
    /\ \A p \in Priority : YIELDED_PRIORITY <= p /\ p <= NORMAL_PRIORITY
  BY PrintQueueAssumption DEF Priority

LEMMA PrintQueueStarts == PrintQueueInit /\ QueuedJob # {} => PrintQueueInv
  <1> SUFFICES ASSUME PrintQueueInit, QueuedJob # {} PROVE PrintQueueInv
    OBVIOUS
  <1>1. IdleRequest \in Request
    BY DEF IdleRequest, Request, Priority
  <1>2. PrintQueueTypeOK
    BY <1>1 DEF PrintQueueInit, PrintQueueTypeOK, NotQueued, QueuedState, Priority
  <1>3. /\ NORMAL_PRIORITY \in Nat /\ NORMAL_PRIORITY <= NORMAL_PRIORITY
        /\ 0 <= NORMAL_PRIORITY
    BY PrintQueueAssumption
  <1>4. NoQueueJump
    BY <1>3 DEF PrintQueueInit, NoQueueJump, NotQueued
  <1>5. MemoryIsModest
    <2>1. \A j \in QueuedJob : yieldedFrom[j] = 0 /\ submitted[j] = NORMAL_PRIORITY
      BY DEF PrintQueueInit
    <2> QED
      BY <1>3, <2>1 DEF MemoryIsModest
  <1>6. RequestIsModest /\ NewIsUnknown
    BY DEF PrintQueueInit, RequestIsModest, NewIsUnknown, IdleRequest
  <1> QED
    BY <1>2, <1>4, <1>5, <1>6 DEF PrintQueueInv

\* A request that starts sets and remembers no more than the job was submitted
\* with, whether it yields or restores.
LEMMA StartKeeps ==
    ASSUME PrintQueueInv, NEW r \in Reprioritiser, NEW j \in QueuedJob, NEW y \in BOOLEAN,
           NEW p \in Priority, p <= submitted[j], StartRequest(r, j, y, p)
    PROVE  PrintQueueInv'
  <1> DEFINE new == [pc |-> "set", job |-> j, yielding |-> y,
                     seen |-> queued[j].priority, priority |-> p]
  <1>1. /\ reprio' = [reprio EXCEPT ![r] = new]
        /\ queued' = queued /\ submitted' = submitted /\ yieldedFrom' = yieldedFrom
        /\ queued[j].state # "none"
    BY DEF StartRequest, IsWaiting
  <1>2. queued[j].priority \in Priority /\ queued[j].priority <= submitted[j]
    BY DEF PrintQueueInv, PrintQueueTypeOK, QueuedState, NoQueueJump
  <1>3. new \in Request
    BY <1>2 DEF Request
  <1>4. PrintQueueTypeOK'
    BY <1>1, <1>3 DEF PrintQueueInv, PrintQueueTypeOK
  <1>5. NoQueueJump' /\ MemoryIsModest'
    BY <1>1 DEF PrintQueueInv, NoQueueJump, MemoryIsModest
  <1>6. RequestIsModest'
    BY <1>1, <1>2 DEF PrintQueueInv, RequestIsModest, PrintQueueTypeOK
  <1>7. NewIsUnknown'
    BY <1>1 DEF PrintQueueInv, NewIsUnknown, PrintQueueTypeOK
  <1> QED
    BY <1>4, <1>5, <1>6, <1>7 DEF PrintQueueInv

\* A request that has not read the list yet may be dropped at any time.
LEMMA DropKeeps ==
    ASSUME PrintQueueInv, NEW r \in Reprioritiser,
           reprio' = [reprio EXCEPT ![r] = IdleRequest],
           UNCHANGED <<queued, submitted, yieldedFrom>>
    PROVE  PrintQueueInv'
  <1>1. IdleRequest \in Request /\ IdleRequest.pc = "idle"
    <2>1. reprio[r] \in Request /\ reprio[r].job \in QueuedJob
      BY DEF PrintQueueInv, PrintQueueTypeOK, Request
    <2> QED
      BY <2>1 DEF IdleRequest, Request, Priority
  <1> QED
    BY <1>1 DEF PrintQueueInv, PrintQueueTypeOK, NoQueueJump, MemoryIsModest, RequestIsModest,
                NewIsUnknown

LEMMA SetKeeps ==
    ASSUME PrintQueueInv, NEW r \in Reprioritiser, SetPriority(r) PROVE PrintQueueInv'
  <1> DEFINE j == reprio[r].job
  <1>1. /\ reprio[r].pc = "set" /\ reprio[r] \in Request /\ j \in QueuedJob
        /\ queued[j] \in QueuedState /\ queued[j].state # "none"
        /\ queued' = [queued EXCEPT ![j].priority = reprio[r].priority]
        /\ reprio' = [reprio EXCEPT ![r].pc = "note"]
        /\ submitted' = submitted /\ yieldedFrom' = yieldedFrom
    BY DEF SetPriority, PrintQueueInv, PrintQueueTypeOK, Request
  <1>2. reprio[r].priority \in Priority /\ reprio[r].priority <= submitted[j]
    BY <1>1 DEF PrintQueueInv, RequestIsModest, Request
  <1>3. \A i \in QueuedJob : queued'[i].state = queued[i].state
    BY <1>1 DEF PrintQueueInv, PrintQueueTypeOK, QueuedState
  <1>4. \A q \in Reprioritiser :
            /\ reprio'[q].pc # "idle" => reprio[q].pc # "idle"
            /\ reprio'[q].job = reprio[q].job /\ reprio'[q].seen = reprio[q].seen
            /\ reprio'[q].priority = reprio[q].priority
    BY <1>1 DEF PrintQueueInv, PrintQueueTypeOK, Request
  <1>5. PrintQueueTypeOK'
    <2>1. queued' \in [QueuedJob -> QueuedState]
      BY <1>1, <1>2 DEF PrintQueueInv, PrintQueueTypeOK, QueuedState
    <2>2. reprio' \in [Reprioritiser -> Request]
      BY <1>1 DEF PrintQueueInv, PrintQueueTypeOK, Request
    <2> QED
      BY <1>1, <2>1, <2>2 DEF PrintQueueInv, PrintQueueTypeOK
  <1>6. NoQueueJump'
    BY <1>1, <1>2 DEF PrintQueueInv, NoQueueJump, PrintQueueTypeOK, QueuedState
  <1>7. MemoryIsModest' /\ RequestIsModest'
    BY <1>1, <1>4 DEF PrintQueueInv, MemoryIsModest, RequestIsModest
  <1>8. NewIsUnknown'
    <2>1. NewIsUnknown /\ UNCHANGED <<submitted, yieldedFrom>>
      BY <1>1 DEF PrintQueueInv
    <2>2. ASSUME NEW i \in QueuedJob, queued'[i].state = "none" PROVE queued[i].state = "none"
      BY <1>3, <2>2
    <2> QED
      BY <1>4, <2>1, <2>2 DEF NewIsUnknown
  <1> QED
    BY <1>5, <1>6, <1>7, <1>8 DEF PrintQueueInv

LEMMA NoteKeeps ==
    ASSUME PrintQueueInv, NEW r \in Reprioritiser, NotePriority(r) PROVE PrintQueueInv'
  <1> DEFINE j == reprio[r].job
             noted == IF reprio[r].yielding THEN reprio[r].seen ELSE 0
  <1>1. /\ reprio[r].pc = "note" /\ reprio[r] \in Request /\ j \in QueuedJob
        /\ yieldedFrom' = [yieldedFrom EXCEPT ![j] = noted]
        /\ reprio' = [reprio EXCEPT ![r] = IdleRequest]
        /\ queued' = queued /\ submitted' = submitted
    BY DEF NotePriority, PrintQueueInv, PrintQueueTypeOK, Request
  <1>2. noted \in Priority \cup {0} /\ noted <= submitted[j]
    <2>1. reprio[r].seen \in Priority /\ reprio[r].seen <= submitted[j]
      BY <1>1 DEF PrintQueueInv, RequestIsModest, Request
    <2>2. submitted[j] \in Nat
      BY <1>1, PriorityIsNat DEF PrintQueueInv, PrintQueueTypeOK
    <2> QED
      BY <2>1, <2>2
  <1>3. IdleRequest \in Request /\ IdleRequest.pc = "idle"
    BY <1>1 DEF IdleRequest, Request, Priority
  <1>4. PrintQueueTypeOK'
    BY <1>1, <1>2, <1>3 DEF PrintQueueInv, PrintQueueTypeOK
  <1>5. NoQueueJump' /\ MemoryIsModest'
    BY <1>1, <1>2 DEF PrintQueueInv, NoQueueJump, MemoryIsModest, PrintQueueTypeOK
  <1>6. RequestIsModest'
    BY <1>1, <1>3 DEF PrintQueueInv, RequestIsModest, PrintQueueTypeOK
  <1>7. NewIsUnknown'
    BY <1>1, <1>3 DEF PrintQueueInv, NewIsUnknown, PrintQueueTypeOK
  <1> QED
    BY <1>4, <1>5, <1>6, <1>7 DEF PrintQueueInv

LEMMA ArrivalKeeps ==
    ASSUME PrintQueueInv, NEW j \in QueuedJob, CupsJobArrives(j) PROVE PrintQueueInv'
  <1>1. PICK p \in {LowPriority, NORMAL_PRIORITY} :
            /\ queued' = [queued EXCEPT ![j] = [state |-> "pending", priority |-> p]]
            /\ submitted' = [submitted EXCEPT ![j] = p]
    BY DEF CupsJobArrives
  <1>2. /\ yieldedFrom' = yieldedFrom /\ reprio' = reprio
        /\ p \in Priority /\ p \in Nat
    BY PriorityIsNat DEF CupsJobArrives, Priority
  <1>3. /\ yieldedFrom[j] = 0
        /\ \A r \in Reprioritiser : reprio[r].pc # "idle" => reprio[r].job # j
    BY DEF CupsJobArrives, PrintQueueInv, NewIsUnknown, NotQueued
  <1>4. PrintQueueTypeOK'
    BY <1>1, <1>2 DEF PrintQueueInv, PrintQueueTypeOK, QueuedState
  <1>5. NoQueueJump' /\ MemoryIsModest'
    BY <1>1, <1>2, <1>3 DEF PrintQueueInv, NoQueueJump, MemoryIsModest, PrintQueueTypeOK
  <1>6. RequestIsModest'
    BY <1>1, <1>2, <1>3 DEF PrintQueueInv, RequestIsModest, PrintQueueTypeOK, Request
  <1>7. NewIsUnknown'
    BY <1>1, <1>2 DEF PrintQueueInv, NewIsUnknown, PrintQueueTypeOK
  <1> QED
    BY <1>4, <1>5, <1>6, <1>7 DEF PrintQueueInv

LEMMA MoveKeeps ==
    ASSUME PrintQueueInv, NEW j \in QueuedJob, CupsJobMoves(j) PROVE PrintQueueInv'
  <1> DEFINE States == {"pending", "held", "processing", "stopped", "gone"}
  <1>1. PICK to \in States : queued' = [queued EXCEPT ![j].state = to]
    <2> DEFINE Pairs == {<<"pending", "processing">>, <<"processing", "pending">>,
                         <<"processing", "stopped">>, <<"stopped", "processing">>,
                         <<"pending", "held">>, <<"held", "pending">>,
                         <<"processing", "gone">>, <<"held", "gone">>,
                         <<"pending", "gone">>}
    <2>1. PICK pair \in Pairs : queued' = [queued EXCEPT ![j].state = pair[2]]
      BY Zenon DEF CupsJobMoves
    <2>2. pair[2] \in States
      BY <2>1
    <2> QED
      BY <2>1, <2>2
  <1>2. submitted' = submitted /\ yieldedFrom' = yieldedFrom /\ reprio' = reprio
    BY DEF CupsJobMoves
  <1>3. \A i \in QueuedJob :
            /\ queued'[i].priority = queued[i].priority
            /\ queued'[i].state = "none" => queued[i].state = "none"
    BY <1>1 DEF PrintQueueInv, PrintQueueTypeOK, QueuedState
  <1>4. PrintQueueTypeOK'
    BY <1>1, <1>2 DEF PrintQueueInv, PrintQueueTypeOK, QueuedState
  <1>5. NoQueueJump' /\ MemoryIsModest' /\ RequestIsModest' /\ NewIsUnknown'
    BY <1>2, <1>3 DEF PrintQueueInv, NoQueueJump, MemoryIsModest, RequestIsModest, NewIsUnknown
  <1> QED
    BY <1>4, <1>5 DEF PrintQueueInv

LEMMA LossKeeps == ASSUME PrintQueueInv, QueuedJob # {}, MemoryLost PROVE PrintQueueInv'
  <1>1. IdleRequest \in Request /\ IdleRequest.pc = "idle"
    BY DEF IdleRequest, Request, Priority
  <1>2. \A i \in QueuedJob : submitted[i] \in Nat
    BY PriorityIsNat DEF PrintQueueInv, PrintQueueTypeOK
  <1> QED
    BY <1>1, <1>2 DEF MemoryLost, PrintQueueInv, PrintQueueTypeOK, NoQueueJump, MemoryIsModest,
                      RequestIsModest, NewIsUnknown

LEMMA PrintQueueIsKept ==
    ASSUME PrintQueueInv, QueuedJob # {}, [PrintQueueNext]_printQueueVars PROVE PrintQueueInv'
  <1>1. CASE \E r \in Reprioritiser, j \in QueuedJob : YieldJob(r, j)
    <2>1. PICK r \in Reprioritiser, j \in QueuedJob : YieldJob(r, j)
      BY <1>1
    <2>2. YIELDED_PRIORITY \in Priority /\ YIELDED_PRIORITY <= submitted[j]
      BY PriorityIsNat DEF PrintQueueInv, PrintQueueTypeOK, Priority
    <2> QED
      BY <2>1, <2>2, StartKeeps DEF YieldJob
  <1>2. CASE \E r \in Reprioritiser, j \in QueuedJob : RestoreJob(r, j)
    <2>1. PICK r \in Reprioritiser, j \in QueuedJob : RestoreJob(r, j)
      BY <1>2
    <2>2. yieldedFrom[j] \in Priority /\ yieldedFrom[j] <= submitted[j]
      BY <2>1 DEF RestoreJob, PrintQueueInv, PrintQueueTypeOK, MemoryIsModest
    <2> QED
      BY <2>1, <2>2, StartKeeps DEF RestoreJob
  <1>3. CASE \E r \in Reprioritiser : SetPriority(r)
    BY <1>3, SetKeeps
  <1>4. CASE \E r \in Reprioritiser : SetPriorityFails(r)
    BY <1>4, DropKeeps DEF SetPriorityFails
  <1>5. CASE \E r \in Reprioritiser : NotePriority(r)
    BY <1>5, NoteKeeps
  <1>6. CASE \E j \in QueuedJob : CupsJobArrives(j)
    BY <1>6, ArrivalKeeps
  <1>7. CASE \E j \in QueuedJob : CupsJobMoves(j)
    BY <1>7, MoveKeeps
  <1>8. CASE MemoryLost
    BY <1>8, LossKeeps
  <1>9. CASE UNCHANGED printQueueVars
    BY <1>9 DEF printQueueVars, PrintQueueInv, PrintQueueTypeOK, NoQueueJump, MemoryIsModest,
                RequestIsModest, NewIsUnknown
  <1> QED
    BY <1>1, <1>2, <1>3, <1>4, <1>5, <1>6, <1>7, <1>8, <1>9 DEF PrintQueueNext

-----------------------------------------------------------------------------
\* Every variable of PrintQueue keeps its type, and the invariant holds
\* (_reprioritise).
THEOREM PrintQueueInvHolds ==
    ASSUME QueuedJob # {} PROVE PrintQueueSpec => []PrintQueueInv
  <1>1. PrintQueueInit => PrintQueueInv
    BY PrintQueueStarts
  <1>2. PrintQueueInv /\ [PrintQueueNext]_printQueueVars => PrintQueueInv'
    BY PrintQueueIsKept
  <1> QED
    BY <1>1, <1>2, PTL DEF PrintQueueSpec

\* "PrintOps will not raise a job it did not lower": no order of yielding and
\* restoring, by any number of requests about any number of jobs and across any
\* number of restarts, takes a job further forward than it was submitted.
THEOREM NobodyJumpsTheQueue ==
    ASSUME QueuedJob # {} PROVE PrintQueueSpec => []NoQueueJump
  <1>1. PrintQueueInv => NoQueueJump
    BY DEF PrintQueueInv
  <1> QED
    BY <1>1, PrintQueueInvHolds, PTL

-----------------------------------------------------------------------------
(***************************************************************************)
(* QueueSync. The queue is right, or known not to be, whenever no sync     *)
(* is under way, and the only sync that is under way will leave it so      *)
(* (QueueIsRight). That needs a session to write no address of its own     *)
(* accord (NoForeignAddress), and what it loaded of the error to stand     *)
(* until it records an outcome (LoadedErrorStands).                        *)
(***************************************************************************)

WORKING == {"script", "build", "record"}

Calm == ~adopted /\ ~crossed

\* While no loop took an address of its own accord, no session writes one.
NoForeignAddress ==
    Calm => \A s \in SyncSession : sync[s].row.address = sync[s].loaded.address

\* Who is to build the queue was told an address.
BuildIsTold ==
    \A s \in SyncSession : sync[s].pc = "build" => sync[s].read \in DeviceAddress

\* Only a sync's outcome changes what a session says of the error.
ErrorIsOutcome ==
    \A s \in SyncSession :
        sync[s].pc # "record" => sync[s].row.error = sync[s].loaded.error

\* What a session that may yet record an outcome has loaded is still so.
LoadedErrorStands ==
    Calm => \A s \in SyncSession : OnTheWay(s) => sync[s].loaded.error = connection.error

\* Nobody but s has a sync under way.
Alone(s) == \A t \in SyncSession \ {s} : sync[t].pc \notin WORKING

\* The queue is right when no sync is under way, and the only one that is will
\* make it so, or say that it failed.
QueueIsRight ==
    Calm =>
        /\ (\A s \in SyncSession : sync[s].pc \notin WORKING) =>
               queue = connection.address \/ connection.error
        /\ \A s \in SyncSession :
               Alone(s) =>
                   /\ sync[s].pc = "build" => sync[s].read = connection.address
                   /\ sync[s].pc = "record" /\ ~sync[s].row.error =>
                          queue = connection.address

QueueSyncInv ==
    /\ QueueSyncTypeOK
    /\ BuildIsTold /\ NoForeignAddress /\ ErrorIsOutcome /\ LoadedErrorStands /\ QueueIsRight
-----------------------------------------------------------------------------
LEMMA ConnectionIsRow ==
    ASSUME QueueSyncTypeOK
    PROVE  /\ NoConnection \in Connection
           /\ IdleSync \in SyncSessionState
           /\ IdleSync.pc = "idle" /\ IdleSync.row = IdleSync.loaded
  <1>1. [address |-> serving, error |-> FALSE] \in Connection
    BY DEF QueueSyncTypeOK, Connection
  <1>2. NoConnection \in Connection
    BY <1>1 DEF NoConnection
  <1> QED
    BY <1>2 DEF IdleSync, SyncSessionState

LEMMA LoadedIsSession ==
    ASSUME QueueSyncTypeOK,
           NEW pc \in {"discover", "commit", "script"}, NEW address \in DeviceAddress
    PROVE  /\ Loaded(pc, connection) \in SyncSessionState
           /\ Loaded(pc, connection).pc = pc
           /\ Loaded(pc, connection).row = connection
           /\ Loaded(pc, connection).loaded = connection
           /\ Edited(pc, address) \in SyncSessionState
           /\ Edited(pc, address).pc = "script"
           /\ Edited(pc, address).row = [connection EXCEPT !.address = address]
           /\ Edited(pc, address).loaded = [connection EXCEPT !.address = address]
  <1>1. connection \in Connection
    BY DEF QueueSyncTypeOK
  <1>2. [connection EXCEPT !.address = address] \in Connection
    BY <1>1 DEF Connection
  <1>3. Edited(pc, address) =
            [pc |-> "script", loaded |-> [connection EXCEPT !.address = address],
             row |-> [connection EXCEPT !.address = address], read |-> NoDeviceAddress]
    <2> DEFINE a == [pc |-> "script", loaded |-> connection, row |-> connection,
                     read |-> NoDeviceAddress]
    <2>1. Edited(pc, address) = [a EXCEPT !.row.address = address, !.loaded.address = address]
      BY DEF Edited, Loaded
    <2>2. /\ [a EXCEPT !.row.address = address] =
                 [a EXCEPT !.row = [connection EXCEPT !.address = address]]
          /\ [a EXCEPT !.row = [connection EXCEPT !.address = address]].loaded = connection
      OBVIOUS
    <2>3. [a EXCEPT !.row.address = address, !.loaded.address = address] =
              [[a EXCEPT !.row = [connection EXCEPT !.address = address]]
                  EXCEPT !.loaded = [connection EXCEPT !.address = address]]
      BY <2>2
    <2> QED
      BY <2>1, <2>3
  <1>4. Loaded(pc, connection) =
            [pc |-> pc, loaded |-> connection, row |-> connection, read |-> NoDeviceAddress]
    BY DEF Loaded
  <1> QED
    BY <1>1, <1>2, <1>3, <1>4 DEF SyncSessionState

LEMMA QueueSyncStarts == QueueSyncInit => QueueSyncInv
  <1> SUFFICES ASSUME QueueSyncInit PROVE QueueSyncInv
    OBVIOUS
  <1>1. serving \in DeviceAddress /\ connection = [address |-> serving, error |-> FALSE]
    BY DEF QueueSyncInit
  <1>2. connection \in Connection
    BY <1>1 DEF Connection
  <1>3. NoConnection \in Connection
    BY <1>2 DEF NoConnection
  <1>4. IdleSync \in SyncSessionState /\ IdleSync.pc = "idle" /\ IdleSync.row = IdleSync.loaded
    BY <1>3 DEF IdleSync, SyncSessionState
  <1>5. 0 \in 0..MaxMoves
    BY QueueSyncAssumption
  <1>6. QueueSyncTypeOK
    BY <1>1, <1>2, <1>4, <1>5 DEF QueueSyncInit, QueueSyncTypeOK
  <1>7. \A s \in SyncSession : sync[s] = IdleSync
    BY DEF QueueSyncInit
  <1>8. BuildIsTold /\ NoForeignAddress /\ ErrorIsOutcome
    BY <1>4, <1>7 DEF BuildIsTold, NoForeignAddress, ErrorIsOutcome
  <1>9. LoadedErrorStands
    BY <1>4, <1>7 DEF LoadedErrorStands, OnTheWay
  <1>10. QueueIsRight
    BY <1>1, <1>4, <1>7 DEF QueueSyncInit, QueueIsRight
  <1> QED
    BY <1>6, <1>8, <1>9, <1>10 DEF QueueSyncInv

\* A session moves on, and neither the row nor the queue is written.
LEMMA SessionMoves ==
    ASSUME QueueSyncInv, NEW s \in SyncSession, NEW new \in SyncSessionState,
           sync' = [sync EXCEPT ![s] = new],
           UNCHANGED <<serving, connection, queue, crossed>>,
           autoLock' \in SyncSession \cup {NoSession}, moves' \in 0..MaxMoves,
           adopted' \in BOOLEAN, adopted => adopted',
           new.row.error = new.loaded.error, new.pc # "record",
           Calm' => new.row.address = new.loaded.address,
           Calm /\ new.pc \in {"discover", "gate", "script", "build"} =>
               new.loaded.error = connection.error,
           new.pc = "build" => new.read = connection.address,
           sync[s].pc \in WORKING => new.pc \in WORKING
    PROVE  QueueSyncInv'
  <1>1. sync \in [SyncSession -> SyncSessionState]
    BY DEF QueueSyncInv, QueueSyncTypeOK
  <1>2. sync'[s] = new /\ \A t \in SyncSession \ {s} : sync'[t] = sync[t]
    BY <1>1
  <1>3. sync' \in [SyncSession -> SyncSessionState]
    BY <1>1
  <1>4. Calm' => Calm
    BY DEF Calm, QueueSyncInv, QueueSyncTypeOK
  <1>5. QueueSyncTypeOK'
    BY <1>3 DEF QueueSyncInv, QueueSyncTypeOK
  <1>6. NoForeignAddress'
    BY <1>2, <1>4 DEF QueueSyncInv, NoForeignAddress
  <1>7. ErrorIsOutcome' /\ BuildIsTold'
    <2>1. connection.address \in DeviceAddress
      BY DEF QueueSyncInv, QueueSyncTypeOK, Connection
    <2> QED
      BY <1>2, <2>1 DEF QueueSyncInv, ErrorIsOutcome, BuildIsTold
  <1>8. LoadedErrorStands'
    <2> SUFFICES ASSUME Calm', NEW t \in SyncSession, OnTheWay(t)'
                 PROVE  sync'[t].loaded.error = connection.error
      BY DEF LoadedErrorStands
    <2>1. CASE t = s
      BY <1>2, <1>4, <2>1 DEF OnTheWay
    <2>2. CASE t # s
      BY <1>2, <1>4, <2>2 DEF OnTheWay, QueueSyncInv, LoadedErrorStands
    <2> QED
      BY <2>1, <2>2
  <1>9. QueueIsRight'
    <2> SUFFICES ASSUME Calm' PROVE QueueIsRight'
      BY DEF QueueIsRight
    <2>1. (\A t \in SyncSession : sync'[t].pc \notin WORKING) =>
              queue = connection.address \/ connection.error
      BY <1>2, <1>4 DEF QueueSyncInv, QueueIsRight
    <2>2. \A t \in SyncSession \ {s} : Alone(t)' => Alone(t)
      BY <1>2 DEF Alone
    <2>3. \A t \in SyncSession \ {s} :
              Alone(t)' =>
                  /\ sync'[t].pc = "build" => sync'[t].read = connection.address
                  /\ sync'[t].pc = "record" /\ ~sync'[t].row.error =>
                         queue = connection.address
      BY <1>2, <1>4, <2>2 DEF QueueSyncInv, QueueIsRight
    <2>4. /\ sync'[s].pc = "build" => sync'[s].read = connection.address
          /\ sync'[s].pc # "record"
      BY <1>2
    <2> QED
      BY <2>1, <2>3, <2>4 DEF QueueIsRight
  <1> QED
    BY <1>5, <1>6, <1>7, <1>8, <1>9 DEF QueueSyncInv

LEMMA LoopsKeepIt ==
    ASSUME QueueSyncInv, NEW s \in SyncSession,
           \/ CheckStatus(s) \/ Rediscover(s) \/ DiscoverAutomatically(s)
           \/ SkipAutomaticSync(s) \/ RunAutomaticSync(s)
           \/ ReadConnection(s) \/ ResyncQueue(s)
    PROVE  QueueSyncInv'
  <1> USE DEF QueueSyncInv
  <1>1. /\ sync[s] \in SyncSessionState /\ connection \in Connection
        /\ autoLock \in SyncSession \cup {NoSession} /\ moves \in 0..MaxMoves
        /\ adopted \in BOOLEAN /\ serving \in DeviceAddress
        /\ sync \in [SyncSession -> SyncSessionState]
    BY DEF QueueSyncTypeOK
  <1>2. CASE CheckStatus(s) \/ Rediscover(s) \/ ResyncQueue(s)
    <2>1. PICK pc \in {"discover", "commit", "script"} :
              sync' = [sync EXCEPT ![s] = Loaded(pc, connection)]
      BY <1>2 DEF CheckStatus, Rediscover, ResyncQueue
    <2>2. /\ sync[s].pc = "idle"
          /\ UNCHANGED <<serving, connection, queue, autoLock, moves, crossed, adopted>>
      BY <1>2 DEF CheckStatus, Rediscover, ResyncQueue
    <2>3. sync[s].pc \notin WORKING
      BY <2>2 DEF WORKING
    <2> DEFINE new == Loaded(pc, connection)
    <2>4. /\ new \in SyncSessionState /\ new.pc = pc /\ new.row = connection
          /\ new.loaded = connection
      BY <1>1, LoadedIsSession
    <2> HIDE DEF new
    <2> QED
      BY <1>1, <2>1, <2>2, <2>3, <2>4, SessionMoves DEF new
  <1>3. CASE DiscoverAutomatically(s)
    <2>1. PICK address \in {sync[s].row.address, serving}, pc \in {"gate", "commit"} :
              /\ sync' = [sync EXCEPT ![s].pc = pc, ![s].row.address = address]
              /\ adopted' = (adopted \/ address # sync[s].loaded.address)
      BY <1>3 DEF DiscoverAutomatically
    <2>2. /\ sync[s].pc = "discover"
          /\ UNCHANGED <<serving, connection, queue, autoLock, moves, crossed>>
      BY <1>3 DEF DiscoverAutomatically
    <2> DEFINE row == [sync[s].row EXCEPT !.address = address]
               new == [sync[s] EXCEPT !.pc = pc, !.row = row]
    <2>3. address \in DeviceAddress /\ row \in Connection
      BY <1>1 DEF SyncSessionState, Connection
    <2>4. row.error = sync[s].row.error /\ row.address = address
      BY <1>1 DEF SyncSessionState, Connection
    <2>5. sync' = [sync EXCEPT ![s] = new]
      BY <1>1, <2>1
    <2> HIDE DEF row
    <2>6. /\ new \in SyncSessionState /\ new.pc = pc /\ new.row = row
          /\ new.loaded = sync[s].loaded
      BY <1>1, <2>3 DEF SyncSessionState
    <2> HIDE DEF new
    <2>7. new.row.error = new.loaded.error
      BY <2>2, <2>4, <2>6 DEF ErrorIsOutcome
    <2>8. Calm' => new.row.address = new.loaded.address
      BY <2>1, <2>4, <2>6 DEF Calm
    <2>9. Calm => new.loaded.error = connection.error
      BY <2>2, <2>6 DEF LoadedErrorStands, OnTheWay
    <2>10. sync[s].pc \notin WORKING /\ new.pc \notin {"build", "record"}
      BY <2>2, <2>6 DEF WORKING
    <2> QED
      BY <1>1, <2>1, <2>2, <2>5, <2>6, <2>7, <2>8, <2>9, <2>10, SessionMoves
  <1>4. CASE SkipAutomaticSync(s) \/ RunAutomaticSync(s) \/ ReadConnection(s)
    <2>1. PICK pc \in {"commit", "script", "build"},
               read \in DeviceAddress \cup {NoDeviceAddress} :
              /\ sync' = [sync EXCEPT ![s] = [@ EXCEPT !.pc = pc, !.read = read]]
              /\ pc = "build" => read = connection.address
              /\ sync[s].pc = "script" => pc = "build"
      <3>1. CASE SkipAutomaticSync(s) \/ RunAutomaticSync(s)
        <4>1. PICK pc \in {"commit", "script"} : sync' = [sync EXCEPT ![s].pc = pc]
          BY <3>1 DEF SkipAutomaticSync, RunAutomaticSync
        <4>2. sync[s].pc = "gate"
          BY <3>1 DEF SkipAutomaticSync, RunAutomaticSync
        <4>3. [sync[s] EXCEPT !.pc = pc] = [sync[s] EXCEPT !.pc = pc, !.read = sync[s].read]
          BY <1>1 DEF SyncSessionState
        <4>4. sync[s].read \in DeviceAddress \cup {NoDeviceAddress}
          BY <1>1 DEF SyncSessionState
        <4> QED
          BY <4>1, <4>2, <4>3, <4>4
      <3>2. CASE ReadConnection(s)
        <4>1. connection.address \in DeviceAddress
          BY <1>1 DEF Connection
        <4>2. sync' = [sync EXCEPT ![s] = [@ EXCEPT !.pc = "build",
                                                    !.read = connection.address]]
          BY <1>1, <3>2 DEF ReadConnection
        <4> QED
          BY <4>1, <4>2
      <3> QED
        BY <1>4, <3>1, <3>2
    <2>2. /\ sync[s].pc \in {"gate", "script"}
          /\ UNCHANGED <<serving, connection, queue, moves, crossed, adopted>>
          /\ autoLock' \in SyncSession \cup {NoSession}
      BY <1>1, <1>4 DEF SkipAutomaticSync, RunAutomaticSync, ReadConnection
    <2> DEFINE new == [sync[s] EXCEPT !.pc = pc, !.read = read]
    <2>3. sync' = [sync EXCEPT ![s] = new]
      BY <2>1
    <2>4. /\ new \in SyncSessionState /\ new.pc = pc /\ new.row = sync[s].row
          /\ new.loaded = sync[s].loaded /\ new.read = read
      BY <1>1 DEF SyncSessionState
    <2> HIDE DEF new
    <2>5. new.row.error = new.loaded.error
      BY <2>2, <2>4 DEF ErrorIsOutcome
    <2>6. Calm' => new.row.address = new.loaded.address
      BY <2>2, <2>4 DEF Calm, NoForeignAddress
    <2>7. Calm => new.loaded.error = connection.error
      BY <2>2, <2>4 DEF LoadedErrorStands, OnTheWay
    <2>8. sync[s].pc \in WORKING => new.pc \in WORKING
      BY <2>1, <2>2, <2>4 DEF WORKING
    <2>9. new.pc # "record" /\ (new.pc = "build" => new.read = connection.address)
      BY <2>1, <2>4
    <2> QED
      BY <1>1, <2>2, <2>3, <2>4, <2>5, <2>6, <2>7, <2>8, <2>9, SessionMoves
  <1> QED
    BY <1>2, <1>3, <1>4

\* Who changes the row's address starts a sync.
LEMMA EditsKeep ==
    ASSUME QueueSyncInv, NEW s \in SyncSession,
           \/ DiscoverPrinter(s) \/ ConfirmRedirect(s)
           \/ \E address \in DeviceAddress : EditPrinter(s, address)
    PROVE  QueueSyncInv'
  <1> USE DEF QueueSyncInv
  <1>1. PICK address \in DeviceAddress :
            /\ connection' = [connection EXCEPT !.address = address]
            /\ sync' = [sync EXCEPT ![s] = Edited(s, address)]
            /\ UNCHANGED <<serving, queue, autoLock, crossed, adopted>>
            /\ moves' \in 0..MaxMoves
    BY QueueSyncAssumption
    DEF DiscoverPrinter, ConfirmRedirect, EditPrinter, QueueSyncTypeOK
  <1>2. Edited(s, address) = Edited("script", address)
    BY DEF Edited
  <1> DEFINE new == Edited("script", address)
  <1>3. /\ new \in SyncSessionState /\ new.pc = "script"
        /\ new.row = connection' /\ new.loaded = connection'
    BY <1>1, LoadedIsSession
  <1>4. sync' = [sync EXCEPT ![s] = new]
    BY <1>1, <1>2
  <1> HIDE DEF new
  <1>5. connection' \in Connection /\ connection'.error = connection.error
    BY <1>1 DEF QueueSyncTypeOK, Connection
  <1>6. sync \in [SyncSession -> SyncSessionState]
    BY DEF QueueSyncTypeOK
  <1>7. sync'[s] = new /\ \A t \in SyncSession \ {s} : sync'[t] = sync[t]
    BY <1>4, <1>6
  <1>8. QueueSyncTypeOK'
    BY <1>1, <1>3, <1>4, <1>5, <1>6 DEF QueueSyncTypeOK
  <1>9. NoForeignAddress' /\ ErrorIsOutcome' /\ BuildIsTold'
    BY <1>1, <1>3, <1>7 DEF BuildIsTold, NoForeignAddress, ErrorIsOutcome, Calm
  <1>10. LoadedErrorStands'
    BY <1>1, <1>3, <1>5, <1>7 DEF LoadedErrorStands, Calm, OnTheWay
  <1>11. QueueIsRight'
    <2>1. sync'[s].pc = "script" /\ "script" \in WORKING
      BY <1>3, <1>7 DEF WORKING
    <2>2. \A t \in SyncSession \ {s} : ~Alone(t)'
      BY <2>1 DEF Alone
    <2> QED
      BY <2>1, <2>2 DEF QueueIsRight
  <1> QED
    BY <1>8, <1>9, <1>10, <1>11

\* The script ends: what it built is what it was told of.
LEMMA FinishKeepsIt ==
    ASSUME QueueSyncInv, NEW s \in SyncSession, BuildQueue(s) \/ SyncFails(s)
    PROVE  QueueSyncInv'
  <1> USE DEF QueueSyncInv
  <1>1. PICK error \in BOOLEAN :
            /\ Finished(s, error) /\ (~error => queue' = sync[s].read)
            /\ sync[s].pc = "build" /\ queue' \in {queue, sync[s].read}
    BY DEF BuildQueue, SyncFails
  <1>2. /\ sync[s] \in SyncSessionState /\ sync \in [SyncSession -> SyncSessionState]
        /\ autoLock \in SyncSession \cup {NoSession} /\ queue \in DeviceAddress
    BY DEF QueueSyncTypeOK
  <1> DEFINE row == [sync[s].row EXCEPT !.error = error]
             new == [sync[s] EXCEPT !.pc = "record", !.row = row, !.read = NoDeviceAddress]
  <1>3. row \in Connection /\ row.error = error /\ row.address = sync[s].row.address
    BY <1>2 DEF SyncSessionState, Connection
  <1>4. /\ sync' = [sync EXCEPT ![s] = new]
        /\ UNCHANGED <<serving, connection, moves, crossed, adopted>>
        /\ autoLock' \in SyncSession \cup {NoSession}
    BY <1>1, <1>2 DEF Finished
  <1> HIDE DEF row
  <1>5. /\ new \in SyncSessionState /\ new.pc = "record" /\ new.row = row
        /\ new.loaded = sync[s].loaded
    BY <1>2, <1>3 DEF SyncSessionState
  <1> HIDE DEF new
  <1>6. sync'[s] = new /\ \A t \in SyncSession \ {s} : sync'[t] = sync[t]
    BY <1>2, <1>4
  <1>7. QueueSyncTypeOK'
    <2>1. queue' \in DeviceAddress
      BY <1>1, <1>2 DEF BuildIsTold
    <2> QED
      BY <1>2, <1>4, <1>5, <2>1 DEF QueueSyncTypeOK
  <1>8. NoForeignAddress' /\ ErrorIsOutcome' /\ BuildIsTold'
    BY <1>3, <1>4, <1>5, <1>6 DEF BuildIsTold, NoForeignAddress, ErrorIsOutcome, Calm
  <1>9. LoadedErrorStands'
    BY <1>1, <1>4, <1>5, <1>6 DEF LoadedErrorStands, Calm, OnTheWay
  <1>10. QueueIsRight'
    <2>1. sync'[s].pc = "record" /\ "record" \in WORKING
      BY <1>5, <1>6 DEF WORKING
    <2>2. \A t \in SyncSession \ {s} : ~Alone(t)'
      BY <2>1 DEF Alone
    <2>3. Calm' /\ Alone(s)' /\ ~error => queue' = connection.address
      <3>1. Calm' => Calm
        BY <1>4 DEF Calm
      <3>2. Alone(s)' => Alone(s)
        BY <1>6 DEF Alone
      <3> QED
        BY <1>1, <3>1, <3>2 DEF QueueIsRight
    <2>4. sync'[s].row.error = error /\ connection' = connection
      BY <1>3, <1>4, <1>5, <1>6
    <2> QED
      BY <2>1, <2>2, <2>3, <2>4 DEF QueueIsRight
  <1> QED
    BY <1>7, <1>8, <1>9, <1>10

LEMMA CommitSyncKeeps ==
    ASSUME QueueSyncInv, NEW s \in SyncSession, CommitSync(s)
    PROVE  QueueSyncInv'
  <1> USE DEF QueueSyncInv
  <1> DEFINE seen == sync[s]
             written(f) == IF seen.row[f] # seen.loaded[f] THEN seen.row[f] ELSE connection[f]
  <1>1. /\ seen.pc \in {"commit", "record"}
        /\ connection' = [f \in {"address", "error"} |-> written(f)]
        /\ sync' = [sync EXCEPT ![s] = IdleSync]
        /\ crossed' = (crossed \/ (seen.pc = "record" /\ \E t \in SyncSession \ {s} : OnTheWay(t)))
        /\ UNCHANGED <<serving, queue, autoLock, moves, adopted>>
    BY DEF CommitSync
  <1>2. /\ seen \in SyncSessionState /\ sync \in [SyncSession -> SyncSessionState]
        /\ connection \in Connection /\ crossed \in BOOLEAN
    BY DEF QueueSyncTypeOK
  <1>3. /\ connection'.address =
               IF seen.row.address # seen.loaded.address THEN seen.row.address
               ELSE connection.address
        /\ connection'.error =
               IF seen.row.error # seen.loaded.error THEN seen.row.error ELSE connection.error
    BY <1>1
  <1>4. connection' \in Connection
    <2>1. connection' = [address |-> connection'.address, error |-> connection'.error]
      BY <1>1
    <2>2. connection'.address \in DeviceAddress /\ connection'.error \in BOOLEAN
      BY <1>2, <1>3 DEF SyncSessionState, Connection
    <2> QED
      BY <2>1, <2>2 DEF Connection
  <1>5. sync'[s] = IdleSync /\ \A t \in SyncSession \ {s} : sync'[t] = sync[t]
    BY <1>1, <1>2
  <1>6. /\ IdleSync \in SyncSessionState
        /\ IdleSync.pc = "idle" /\ IdleSync.row = IdleSync.loaded
    BY ConnectionIsRow
  <1>7. Calm' => /\ Calm
                 /\ seen.pc = "record" => \A t \in SyncSession \ {s} : ~OnTheWay(t)
                 /\ connection'.address = connection.address
                 /\ seen.pc = "commit" => connection'.error = connection.error
                 /\ seen.pc = "record" => connection'.error = seen.row.error
    <2> SUFFICES ASSUME Calm' PROVE
            /\ Calm
            /\ seen.pc = "record" => \A t \in SyncSession \ {s} : ~OnTheWay(t)
            /\ connection'.address = connection.address
            /\ seen.pc = "commit" => connection'.error = connection.error
            /\ seen.pc = "record" => connection'.error = seen.row.error
      OBVIOUS
    <2>1. Calm /\ (seen.pc = "record" => \A t \in SyncSession \ {s} : ~OnTheWay(t))
      BY <1>1, <1>2 DEF Calm
    <2>2. seen.row.address = seen.loaded.address
      BY <2>1 DEF NoForeignAddress
    <2>3. seen.pc = "commit" => seen.row.error = seen.loaded.error
      BY DEF ErrorIsOutcome
    <2>4. seen.pc = "record" => seen.loaded.error = connection.error
      BY <2>1 DEF LoadedErrorStands, OnTheWay
    <2> QED
      BY <1>3, <2>1, <2>2, <2>3, <2>4
  <1>8. QueueSyncTypeOK'
    BY <1>1, <1>2, <1>4, <1>6 DEF QueueSyncTypeOK
  <1> HIDE DEF seen, written
  <1>9. NoForeignAddress' /\ ErrorIsOutcome' /\ BuildIsTold'
    BY <1>5, <1>6, <1>7 DEF NoForeignAddress, ErrorIsOutcome, BuildIsTold
  <1>10. LoadedErrorStands'
    <2> SUFFICES ASSUME Calm', NEW t \in SyncSession, OnTheWay(t)'
                 PROVE  sync'[t].loaded.error = connection'.error
      BY DEF LoadedErrorStands
    <2>1. t # s /\ sync'[t] = sync[t] /\ OnTheWay(t)
      BY <1>5, <1>6 DEF OnTheWay
    <2>2. seen.pc = "commit"
      BY <1>1, <1>7, <2>1
    <2> QED
      BY <1>7, <2>1, <2>2 DEF LoadedErrorStands
  <1>11. QueueIsRight'
    <2> SUFFICES ASSUME Calm' PROVE QueueIsRight'
      BY DEF QueueIsRight
    <2>1. CASE seen.pc = "record"
      <3>1. \A t \in SyncSession \ {s} : sync[t].pc \notin WORKING
        BY <1>7, <2>1 DEF OnTheWay, WORKING
      <3>2. \A t \in SyncSession : sync'[t].pc \notin {"build", "record"}
        BY <1>5, <1>6, <3>1 DEF WORKING
      <3>3. ~seen.row.error => queue = connection.address
        BY <1>7, <2>1, <3>1 DEF QueueIsRight, Alone, seen
      <3>4. queue' = connection'.address \/ connection'.error
        BY <1>1, <1>2, <1>7, <2>1, <3>3
      <3> QED
        BY <3>2, <3>4 DEF QueueIsRight
    <2>2. CASE seen.pc = "commit"
      <3>1. connection'.address = connection.address /\ connection'.error = connection.error
        BY <1>7, <2>2
      <3>2. sync[s].pc \notin WORKING /\ sync'[s].pc \notin WORKING
        BY <1>5, <1>6, <2>2 DEF WORKING, seen
      <3>3. \A t \in SyncSession : /\ sync'[t].pc \in WORKING <=> sync[t].pc \in WORKING
                                   /\ sync'[t].pc \in WORKING => sync'[t] = sync[t]
        BY <1>5, <3>2
      <3>4. \A t \in SyncSession : Alone(t)' => Alone(t)
        BY <3>3 DEF Alone
      <3> QED
        BY <1>1, <1>7, <3>1, <3>3, <3>4 DEF QueueIsRight, WORKING
    <2> QED
      BY <1>1, <2>1, <2>2
  <1> QED
    BY <1>8, <1>9, <1>10, <1>11

LEMMA QueueSyncIsKept ==
    QueueSyncInv /\ [QueueSyncNext]_queueSyncVars => QueueSyncInv'
  <1> SUFFICES ASSUME QueueSyncInv, [QueueSyncNext]_queueSyncVars PROVE QueueSyncInv'
    OBVIOUS
  <1>1. CASE \E s \in SyncSession :
                 \/ CheckStatus(s) \/ Rediscover(s) \/ DiscoverAutomatically(s)
                 \/ SkipAutomaticSync(s) \/ RunAutomaticSync(s)
                 \/ ReadConnection(s) \/ ResyncQueue(s)
    BY <1>1, LoopsKeepIt
  <1>2. CASE \E s \in SyncSession :
                 \/ DiscoverPrinter(s) \/ ConfirmRedirect(s)
                 \/ \E address \in DeviceAddress : EditPrinter(s, address)
    BY <1>2, EditsKeep
  <1>3. CASE \E s \in SyncSession : BuildQueue(s) \/ SyncFails(s)
    BY <1>3, FinishKeepsIt
  <1>4. CASE \E s \in SyncSession : CommitSync(s)
    BY <1>4, CommitSyncKeeps
  <1>5. CASE \E address \in DeviceAddress : DeviceMoves(address)
    <2>1. /\ UNCHANGED <<connection, queue, sync, autoLock, crossed, adopted>>
          /\ serving' \in DeviceAddress /\ moves < MaxMoves /\ moves' = moves + 1
      BY <1>5 DEF DeviceMoves
    <2>2. QueueSyncTypeOK'
      BY <2>1, QueueSyncAssumption DEF QueueSyncInv, QueueSyncTypeOK
    <2>3. NoForeignAddress' /\ ErrorIsOutcome' /\ BuildIsTold'
      BY <2>1 DEF QueueSyncInv, NoForeignAddress, ErrorIsOutcome, BuildIsTold, Calm
    <2>4. LoadedErrorStands'
      BY <2>1 DEF QueueSyncInv, LoadedErrorStands, Calm, OnTheWay
    <2>5. QueueIsRight'
      BY <2>1 DEF QueueSyncInv, QueueIsRight, Alone, Calm
    <2> QED
      BY <2>2, <2>3, <2>4, <2>5 DEF QueueSyncInv
  <1>6. CASE UNCHANGED queueSyncVars
    BY <1>6
    DEF queueSyncVars, QueueSyncInv, QueueSyncTypeOK, NoForeignAddress, ErrorIsOutcome,
        BuildIsTold, LoadedErrorStands, QueueIsRight, Alone, Calm, OnTheWay
  <1> QED
    BY <1>1, <1>2, <1>3, <1>4, <1>5, <1>6 DEF QueueSyncNext

\* Whoever edits, discovers, resyncs or fails in between, the queue is right or
\* known not to be when no sync is under way (_apply_queue_sync).
THEOREM QueueSyncInvHolds == QueueSyncSpec => []QueueSyncInv
  BY QueueSyncStarts, QueueSyncIsKept, PTL DEF QueueSyncSpec

\* An edit, a discovery or a resync that somebody asked for reaches the queue: at
\* rest, with no failed sync and none recorded while another was on its way, the
\* queue sends to where the row says, for any sessions, addresses and edits
\* (_apply_queue_sync).
THEOREM EditsReachTheQueue == QueueSyncSpec => []EditReachesQueue
  <1>1. QueueSyncInv => EditReachesQueue
    BY DEF QueueSyncInv, QueueIsRight, Calm, WORKING, AtRest, QueueFollowsRow,
           EditReachesQueue
  <1> QED
    BY <1>1, QueueSyncInvHolds, PTL

-----------------------------------------------------------------------------
(***************************************************************************)
(* Updates. That a row in progress is explained while no update runs is    *)
(* not inductive by itself. While no report got lost and no two rows       *)
(* were active at once, a row is in progress only from the watcher's       *)
(* first report to its last, and the last one has that row in hand         *)
(* (ProgressIsWatched); it finds it because it is the only active one      *)
(* (OneActive).                                                            *)
(***************************************************************************)

\* The history is true to the table: until it says otherwise, there was never
\* more than one active row.
OneActive == ~doubled => \A r, q \in Active(schedules) : r = q

Orderly == lostReports = 0 /\ ~doubled

\* A row that is in progress is one that the watcher will report on.
ProgressIsWatched ==
    Orderly =>
        \A r \in Schedule :
            schedules[r].status = "in_progress" =>
                \/ watcher.pc \in {"apply", "done"}
                \/ watcher.pc = "reported" /\ watcher.row = r

\* A request or a report that has a row to write has one of the table.
RequestHasRow ==
    \A a \in Admin : request[a].pc = "cancel" => request[a].row \in Schedule

UpdatesInv == UpdatesTypeOK /\ RequestHasRow /\ OneActive /\ ProgressIsWatched

-----------------------------------------------------------------------------
(* The table.                                                              *)

LEMMA RowsAreRows ==
    /\ NoSchedule \in ScheduleRow
    /\ \A row \in ScheduleRow :
           row.status \in {"none", "pending", "in_progress", "completed", "failed"} /\ row.at \in Nat
    /\ \A at \in Time : [status |-> "pending", at |-> at] \in ScheduleRow
  <1>1. Horizon \in Nat
    BY UpdatesAssumption
  <1> QED
    BY <1>1 DEF NoSchedule, ScheduleRow, Time

LEMMA AdminHasRow ==
    /\ NoRequest \in AdminRequest
    /\ \A r \in Schedule \cup {0}, pc \in {"idle", "schedule", "cancel"} :
           [pc |-> pc, row |-> r] \in AdminRequest
  <1>1. NumSchedules \in Nat
    BY UpdatesAssumption
  <1> QED
    BY <1>1 DEF NoRequest, AdminRequest, Schedule

LEMMA AtMostOne ==
    ASSUME NEW S, IsFiniteSet(S), ~(Cardinality(S) > 1)
    PROVE  \A r, q \in S : r = q
  <1> SUFFICES ASSUME NEW r \in S, NEW q \in S, r # q
               PROVE  Cardinality(S) > 1
    OBVIOUS
  <1>1. {r, q} \in SUBSET S
    OBVIOUS
  <1>2. IsFiniteSet({r}) /\ Cardinality({r}) = 1
    BY FS_Singleton
  <1>3. Cardinality({r} \cup {q}) = 2
    <2>1. q \notin {r}
      OBVIOUS
    <2>2. Cardinality({r} \cup {q}) = Cardinality({r}) + 1
      BY ONLY <1>2, <2>1, FS_AddElement
    <2> QED
      BY ONLY <1>2, <2>2
  <1>4. {r, q} = {r} \cup {q}
    OBVIOUS
  <1>5. Cardinality({r, q}) <= Cardinality(S) /\ Cardinality(S) \in Nat
    BY <1>1, FS_Subset, FS_CardinalityType
  <1> QED
    BY <1>3, <1>4, <1>5

LEMMA ActiveIsFinite == \A rows : IsFiniteSet(Active(rows))
  <1> SUFFICES ASSUME NEW rows PROVE IsFiniteSet(Active(rows))
    OBVIOUS
  <1>1. IsFiniteSet(Schedule)
    BY UpdatesAssumption, FS_Interval DEF Schedule
  <1>2. Active(rows) \in SUBSET Schedule
    BY DEF Active
  <1> QED
    BY <1>1, <1>2, FS_Subset

\* Whoever writes the table, the history is told of it.
LEMMA WritesAreNoticed ==
    ASSUME NEW rows, Writes(rows), doubled \in BOOLEAN
    PROVE  OneActive' /\ doubled' \in BOOLEAN /\ (doubled => doubled')
  <1>1. doubled' \in BOOLEAN /\ (doubled => doubled') /\ schedules' = rows
    BY DEF Writes
  <1>2. ~doubled' => ~(Cardinality(Active(rows)) > 1)
    BY DEF Writes
  <1>3. ~doubled' => \A r, q \in Active(rows) : r = q
    BY <1>2, ActiveIsFinite, AtMostOne
  <1>4. Active(schedules)' = Active(rows)
    BY <1>1 DEF Active
  <1> QED
    BY <1>1, <1>3, <1>4 DEF OneActive

\* A query for the active row finds the one in progress, if it is the only one.
LEMMA OnlyOneIsFound ==
    ASSUME UpdatesTypeOK, NEW r \in Active(schedules), \A q \in Active(schedules) : q = r
    PROVE  Earliest = {r}
  <1>1. schedules[r].at \in Nat
    BY RowsAreRows DEF UpdatesTypeOK, Active
  <1>2. Active(schedules) = {r}
    OBVIOUS
  <1> QED
    BY <1>1, <1>2 DEF Earliest

LEMMA FoundIsRow == Earliest \subseteq Schedule \cup {0}
  BY DEF Earliest, Active

-----------------------------------------------------------------------------
(* The invariant.                                                          *)

LEMMA UpdatesStart == UpdatesInit => UpdatesInv
  <1> SUFFICES ASSUME UpdatesInit PROVE UpdatesInv
    OBVIOUS
  <1>1. UpdatesTypeOK
    <2>1. NumSchedules \in Nat /\ Horizon \in Nat /\ MaxLostReports \in Nat
      BY UpdatesAssumption
    <2>2. NoWatcher \in Watcher
      BY <2>1 DEF NoWatcher, Watcher
    <2>3. 0 \in Time /\ 0 \in 0..MaxLostReports
      BY <2>1 DEF Time
    <2>4. /\ [r \in Schedule |-> NoSchedule] \in [Schedule -> ScheduleRow]
          /\ [a \in Admin |-> NoRequest] \in [Admin -> AdminRequest]
      BY RowsAreRows, AdminHasRow
    <2> QED
      BY <2>2, <2>3, <2>4 DEF UpdatesInit, UpdatesTypeOK
  <1>2. \A r \in Schedule : schedules[r].status = "none"
    BY DEF UpdatesInit, NoSchedule
  <1>3. OneActive /\ ProgressIsWatched
    BY <1>2 DEF OneActive, ProgressIsWatched, Active, ACTIVE_STATUSES
  <1>4. RequestHasRow
    BY DEF RequestHasRow, UpdatesInit, NoRequest
  <1> QED
    BY <1>1, <1>3, <1>4 DEF UpdatesInv

LEMMA AdminKeepsIt ==
    ASSUME UpdatesInv, NEW a \in Admin,
           \/ ReadSchedule(a) \/ CommitSchedule(a)
           \/ ReadCancelSchedule(a) \/ CancelSchedule(a)
    PROVE  UpdatesInv'
  <1> USE DEF UpdatesInv
  <1>0. /\ schedules \in [Schedule -> ScheduleRow] /\ doubled \in BOOLEAN
        /\ request \in [Admin -> AdminRequest]
    BY DEF UpdatesTypeOK
  <1>1. CASE ReadSchedule(a)
    <2>1. PICK r \in Schedule \cup {0} :
              request' = [request EXCEPT ![a] = [pc |-> "schedule", row |-> r]]
      BY <1>1 DEF ReadSchedule
    <2>2. request' \in [Admin -> AdminRequest] /\ RequestHasRow'
      BY <1>0, <2>1, AdminHasRow DEF RequestHasRow
    <2> QED
      BY <1>1, <2>2
      DEF ReadSchedule, UpdatesTypeOK, OneActive, ProgressIsWatched, Orderly, Active
  <1>2. CASE CommitSchedule(a)
    <2>1. /\ request' = [request EXCEPT ![a] = NoRequest]
          /\ UNCHANGED <<now, watcher, lostReports>>
      BY <1>2 DEF CommitSchedule
    <2>2. request' \in [Admin -> AdminRequest] /\ RequestHasRow'
      BY <1>0, <2>1, AdminHasRow DEF RequestHasRow, NoRequest
    <2>3. PICK rows \in [Schedule -> ScheduleRow] :
              /\ Writes(rows)
              /\ \A r \in Schedule : rows[r].status = "in_progress" =>
                                        schedules[r].status = "in_progress"
      <3>1. PICK at \in now..Horizon :
                IF request[a].row # 0
                THEN Writes([schedules EXCEPT ![request[a].row].at = at])
                ELSE \E new \in Schedule :
                         Writes([schedules EXCEPT ![new] = [status |-> "pending", at |-> at]])
        BY <1>2 DEF CommitSchedule
      <3>2. at \in Time
        BY UpdatesAssumption DEF UpdatesTypeOK, Time
      <3>3. CASE request[a].row # 0
        <4>1. request[a].row \in Schedule
          BY <1>0, <3>3, UpdatesAssumption DEF AdminRequest, Schedule
        <4>2. [schedules EXCEPT ![request[a].row].at = at] \in [Schedule -> ScheduleRow]
          BY <1>0, <3>2, <4>1 DEF ScheduleRow
        <4>3. \A r \in Schedule :
                  [schedules EXCEPT ![request[a].row].at = at][r].status = schedules[r].status
          BY <1>0, <4>1 DEF ScheduleRow
        <4> QED
          BY <3>1, <3>3, <4>2, <4>3
      <3>4. CASE request[a].row = 0
        <4>1. PICK new \in Schedule :
                  Writes([schedules EXCEPT ![new] = [status |-> "pending", at |-> at]])
          BY <3>1, <3>4
        <4>2. [schedules EXCEPT ![new] = [status |-> "pending", at |-> at]]
                  \in [Schedule -> ScheduleRow]
          BY <1>0, <3>2, RowsAreRows
        <4>3. \A r \in Schedule :
                  [schedules EXCEPT ![new] = [status |-> "pending", at |-> at]][r].status
                      = "in_progress" => schedules[r].status = "in_progress"
          BY <1>0
        <4> QED
          BY <4>1, <4>2, <4>3
      <3> QED
        BY <3>3, <3>4
    <2>4. OneActive' /\ doubled' \in BOOLEAN /\ (doubled => doubled') /\ schedules' = rows
      BY <1>0, <2>3, WritesAreNoticed DEF Writes
    <2>5. ProgressIsWatched'
      BY <2>1, <2>3, <2>4 DEF ProgressIsWatched, Orderly
    <2> QED
      BY <2>1, <2>2, <2>3, <2>4, <2>5 DEF UpdatesTypeOK
  <1>3. CASE ReadCancelSchedule(a)
    <2>1. PICK r \in Schedule :
              request' = [request EXCEPT ![a] = [pc |-> "cancel", row |-> r]]
      BY <1>3 DEF ReadCancelSchedule, Active
    <2>2. request' \in [Admin -> AdminRequest] /\ RequestHasRow'
      BY <1>0, <2>1, AdminHasRow DEF RequestHasRow
    <2> QED
      BY <1>3, <2>2
      DEF ReadCancelSchedule, UpdatesTypeOK, OneActive, ProgressIsWatched, Orderly, Active
  <1>4. CASE CancelSchedule(a)
    <2> DEFINE r == request[a].row
               rows == [schedules EXCEPT ![r].status = "failed"]
    <2>1. /\ request' = [request EXCEPT ![a] = NoRequest]
          /\ UNCHANGED <<now, watcher, lostReports>> /\ Writes(rows) /\ r \in Schedule
      BY <1>4 DEF CancelSchedule, RequestHasRow
    <2>2. request' \in [Admin -> AdminRequest] /\ RequestHasRow'
      BY <1>0, <2>1, AdminHasRow DEF RequestHasRow, NoRequest
    <2>3. /\ rows \in [Schedule -> ScheduleRow]
          /\ \A q \in Schedule : rows[q].status = "in_progress" =>
                                     schedules[q].status = "in_progress"
      BY <1>0, <2>1 DEF ScheduleRow
    <2>4. OneActive' /\ doubled' \in BOOLEAN /\ (doubled => doubled') /\ schedules' = rows
      BY <1>0, <2>1, WritesAreNoticed DEF Writes
    <2>5. ProgressIsWatched'
      BY <2>1, <2>3, <2>4 DEF ProgressIsWatched, Orderly
    <2> QED
      BY <2>1, <2>2, <2>3, <2>4, <2>5 DEF UpdatesTypeOK
  <1> QED
    BY <1>1, <1>2, <1>3, <1>4

LEMMA WatcherReadsKeepIt ==
    ASSUME UpdatesInv, UpdateStatus \/ ReadReport \/ ApplyUpdate \/ ReportLost \/ Clock
    PROVE  UpdatesInv'
  <1> USE DEF UpdatesInv
  <1>1. schedules' = schedules /\ doubled' = doubled
    BY DEF UpdateStatus, ReadReport, ApplyUpdate, ReportLost, Clock
  <1>2. OneActive'
    BY <1>1 DEF OneActive, Active
  <1>3. NumSchedules \in Nat /\ Horizon \in Nat /\ MaxLostReports \in Nat
    BY UpdatesAssumption
  <1>4. /\ request \in [Admin -> AdminRequest] /\ watcher \in Watcher
        /\ now \in Time /\ lostReports \in 0..MaxLostReports
    BY DEF UpdatesTypeOK
  <1>5. CASE UpdateStatus
    <2>1. watcher.pc = "idle" /\ watcher' = [pc |-> "start", row |-> 0, ok |-> FALSE]
      BY <1>5 DEF UpdateStatus, WatcherGoes
    <2>2. watcher' \in Watcher
      BY <1>3, <2>1 DEF Watcher
    <2>3. UNCHANGED <<now, request, lostReports>>
      BY <1>5 DEF UpdateStatus
    <2> QED
      BY <1>1, <1>2, <2>1, <2>2, <2>3
      DEF UpdatesTypeOK, RequestHasRow, ProgressIsWatched, Orderly
  <1>6. CASE ReadReport
    <2>1. PICK r \in Earliest, ok \in BOOLEAN :
              \/ watcher.pc = "start" /\ watcher' = [pc |-> "started", row |-> r, ok |-> ok]
              \/ watcher.pc = "done" /\ watcher' = [pc |-> "reported", row |-> r, ok |-> ok]
      BY <1>4, <1>6 DEF ReadReport, ReportFinds, WatcherGoes, Watcher
    <2>2. watcher' \in Watcher
      BY <1>3, <2>1, FoundIsRow DEF Watcher, Schedule
    <2>3. UNCHANGED <<now, request, lostReports>>
      BY <1>6 DEF ReadReport
    <2>4. ProgressIsWatched'
      <3> SUFFICES ASSUME Orderly, NEW q \in Schedule, schedules[q].status = "in_progress"
                   PROVE  watcher'.pc = "reported" /\ watcher'.row = q
        BY <1>1, <2>3 DEF ProgressIsWatched, Orderly
      <3>1. watcher.pc = "done"
        BY <2>1 DEF ProgressIsWatched
      <3>2. q \in Active(schedules)
        BY DEF Active, ACTIVE_STATUSES
      <3>3. r = q
        BY <3>2, OnlyOneIsFound DEF OneActive, Orderly
      <3> QED
        BY <2>1, <3>1, <3>3
    <2> QED
      BY <1>1, <1>2, <2>2, <2>3, <2>4 DEF UpdatesTypeOK, RequestHasRow
  <1>7. CASE ApplyUpdate
    <2>1. PICK ok \in BOOLEAN : /\ watcher.pc = "apply"
                                /\ watcher' = [pc |-> "done", row |-> 0, ok |-> ok]
      BY <1>7 DEF ApplyUpdate, WatcherGoes
    <2>2. watcher' \in Watcher
      BY <1>3, <2>1 DEF Watcher
    <2>3. request' = [a \in Admin |-> NoRequest] \/ request' = request
      BY <1>7 DEF ApplyUpdate
    <2>4. request' \in [Admin -> AdminRequest] /\ RequestHasRow'
      BY <1>4, <2>3, AdminHasRow DEF RequestHasRow, NoRequest
    <2>5. UNCHANGED <<now, lostReports>>
      BY <1>7 DEF ApplyUpdate
    <2> QED
      BY <1>1, <1>2, <2>1, <2>2, <2>4, <2>5 DEF UpdatesTypeOK, ProgressIsWatched
  <1>8. CASE ReportLost
    <2>1. /\ lostReports < MaxLostReports /\ lostReports' = lostReports + 1
          /\ watcher' = IF watcher.pc = "start" THEN [watcher EXCEPT !.pc = "apply"]
                        ELSE NoWatcher
          /\ UNCHANGED <<now, request>>
      BY <1>8 DEF ReportLost
    <2>2. watcher' \in Watcher
      BY <1>3, <1>4, <2>1 DEF Watcher, NoWatcher
    <2>3. lostReports' \in 0..MaxLostReports /\ lostReports' # 0
      BY <1>3, <1>4, <2>1
    <2> QED
      BY <1>1, <1>2, <2>1, <2>2, <2>3
      DEF UpdatesTypeOK, RequestHasRow, ProgressIsWatched, Orderly
  <1>9. CASE Clock
    <2>1. now' \in Time /\ UNCHANGED <<request, watcher, lostReports>>
      BY <1>3, <1>4, <1>9 DEF Clock, Time
    <2> QED
      BY <1>1, <1>2, <2>1 DEF UpdatesTypeOK, RequestHasRow, ProgressIsWatched, Orderly
  <1> QED
    BY <1>5, <1>6, <1>7, <1>8, <1>9

LEMMA WatcherWritesKeepIt ==
    ASSUME UpdatesInv, CommitStarted \/ CommitFinished
    PROVE  UpdatesInv'
  <1> USE DEF UpdatesInv
  <1>1. /\ schedules \in [Schedule -> ScheduleRow] /\ doubled \in BOOLEAN
        /\ watcher \in Watcher
    BY DEF UpdatesTypeOK
  <1>2. PICK status \in {"in_progress", "completed", "failed"} :
            /\ Reports(status)
            /\ \/ watcher.pc = "started" /\ watcher' = [pc |-> "apply", row |-> 0, ok |-> FALSE]
               \/ /\ watcher.pc = "reported" /\ watcher' = NoWatcher
                  /\ status # "in_progress"
            /\ UNCHANGED <<now, request, lostReports>>
    BY DEF CommitStarted, CommitFinished, WatcherGoes
  <1>3. watcher' \in Watcher
    <2>1. 0 \in 0..NumSchedules
      BY UpdatesAssumption
    <2>2. NoWatcher \in Watcher /\ [pc |-> "apply", row |-> 0, ok |-> FALSE] \in Watcher
      BY <2>1 DEF Watcher, NoWatcher
    <2> QED
      BY <1>2, <2>2
  <1>4. /\ schedules' \in [Schedule -> ScheduleRow]
        /\ \A q \in Schedule : \/ schedules'[q] = schedules[q] /\ q # watcher.row
                               \/ schedules'[q].status = status
        /\ OneActive' /\ doubled' \in BOOLEAN /\ (doubled => doubled')
    <2>1. CASE watcher.row = 0
      <3>1. UNCHANGED <<schedules, doubled>>
        BY <1>2, <2>1 DEF Reports
      <3> QED
        BY <1>1, <2>1, <3>1 DEF OneActive, Active, Schedule
    <2>2. CASE watcher.row # 0
      <3>1. watcher.row \in Schedule
        BY <1>1, <2>2, UpdatesAssumption DEF Watcher, Schedule
      <3> DEFINE rows == [schedules EXCEPT ![watcher.row].status = status]
      <3>2. Writes(rows)
        BY <1>2, <2>2 DEF Reports
      <3>3. /\ rows \in [Schedule -> ScheduleRow]
            /\ \A q \in Schedule : \/ rows[q] = schedules[q] /\ q # watcher.row
                                   \/ rows[q].status = status
        BY <1>1, <3>1 DEF ScheduleRow
      <3>4. schedules' = rows
        BY <3>2 DEF Writes
      <3>5. OneActive' /\ doubled' \in BOOLEAN /\ (doubled => doubled')
        BY <1>1, <3>2, WritesAreNoticed
      <3> QED
        BY <3>3, <3>4, <3>5
    <2> QED
      BY <2>1, <2>2
  <1>5. ProgressIsWatched'
    <2> SUFFICES ASSUME Orderly, NEW q \in Schedule, schedules'[q].status = "in_progress"
                 PROVE  watcher'.pc = "apply"
      BY <1>2, <1>4 DEF ProgressIsWatched, Orderly
    <2>1. CASE watcher.pc = "started"
      BY <1>2, <2>1
    <2>2. CASE watcher.pc # "started"
      <3>1. watcher.pc = "reported" /\ status # "in_progress"
        BY <1>2, <2>2
      <3>2. schedules[q].status = "in_progress" /\ q # watcher.row
        BY <1>4, <3>1
      <3> QED
        BY <3>1, <3>2 DEF ProgressIsWatched
    <2> QED
      BY <2>1, <2>2
  <1> QED
    BY <1>2, <1>3, <1>4, <1>5 DEF UpdatesTypeOK, RequestHasRow

LEMMA UpdatesAreKept == UpdatesInv /\ [UpdatesNext]_updatesVars => UpdatesInv'
  <1> SUFFICES ASSUME UpdatesInv, [UpdatesNext]_updatesVars PROVE UpdatesInv'
    OBVIOUS
  <1>1. CASE UNCHANGED updatesVars
    BY <1>1 DEF updatesVars, UpdatesInv, UpdatesTypeOK, RequestHasRow, OneActive,
                ProgressIsWatched, Orderly, Active
  <1>2. CASE UpdatesNext
    BY <1>2, AdminKeepsIt, WatcherReadsKeepIt, WatcherWritesKeepIt DEF UpdatesNext
  <1> QED
    BY <1>1, <1>2

\* Whoever schedules, cancels and reports in between, a row in progress is one
\* that the watcher has in hand (schedule_update, complete_update).
THEOREM UpdatesInvHolds == UpdatesSpec => []UpdatesInv
  BY UpdatesStart, UpdatesAreKept, PTL DEF UpdatesSpec

\* A row that stays in progress although no update runs is explained by a
\* report that got lost or by two active rows, whatever was cancelled and
\* scheduled again while the update ran (complete_update).
THEOREM StuckNeedsAReason == UpdatesSpec => []StuckIsExplained
  <1>1. UpdatesInv => StuckIsExplained
    BY DEF UpdatesInv, UpdatesTypeOK, ProgressIsWatched, Orderly, StuckIsExplained
  <1> QED
    BY <1>1, UpdatesInvHolds, PTL

-----------------------------------------------------------------------------
(***************************************************************************)
(* ReportingPeriods. The rows of one edit lie in the year they were        *)
(* checked against, and apart (WrittenWhole); they are told from the       *)
(* rows of other edits by a number that no other has (EditsAreTold). The   *)
(* terms of an undisturbed year then partition days of that year, and a    *)
(* day is of one year (YearOfItsDays).                                     *)
(***************************************************************************)

\* An edit in progress has a number that is on no row and on no other edit.
EditsAreTold ==
    /\ \A e \in Editor : editing[e].pc # "idle" =>
          /\ editing[e].id \in 1..changes
          /\ \A i \in instances : i.by # editing[e].id
          /\ \A t \in terms : t.by # editing[e].id
          /\ \A f \in Editor \ {e} : editing[f].pc # "idle" => editing[f].id # editing[e].id
    /\ \A i \in instances : i.by <= changes
    /\ \A t \in terms : t.by <= changes

InsideItsYear(i) ==
    /\ ReportingYearBounds(i.year, i.under).start <= i.start
    /\ i.end < ReportingYearBounds(i.year, i.under).end

\* What one edit has written lies in the year it was checked against, and apart.
WrittenWhole ==
    /\ \A i \in instances : InsideItsYear(i)
    /\ \A i, j \in instances : i.by = j.by /\ i # j => Disjoint(i, j)
    /\ \A t, u \in terms : t.by = u.by /\ t.start = u.start => t = u

ReportingInv == ReportingTypeOK /\ EditsAreTold /\ WrittenWhole

-----------------------------------------------------------------------------
(* Days and years.                                                         *)

\* A set of numbers with a lower bound has a least one.
LEMMA LeastOfBounded ==
    ASSUME NEW low \in Int, NEW S \in SUBSET Int, S # {}, \A x \in S : low <= x
    PROVE  Min(S) \in S /\ \A x \in S : Min(S) <= x
<1> DEFINE T == {n \in Nat : low + n \in S}
<1>1. PICK x \in S : TRUE
  OBVIOUS
<1>2. x - low \in T
  BY <1>1
<1> HIDE DEF T
<1>3. T \in SUBSET Nat
  BY DEF T
<1>4. PICK n \in T : \A m \in T : <<m, n>> \notin OpToRel(<, Nat)
  BY <1>2, <1>3, NatLessThanWellFounded, WFMin
<1>5. \A m \in T : ~(m < n)
  BY <1>3, <1>4 DEF OpToRel
<1>6. low + n \in S
  BY <1>4 DEF T
<1>7. ASSUME NEW y \in S PROVE low + n <= y
  <2>1. y - low \in T
    BY DEF T
  <2>2. ~(y - low < n) /\ n \in Nat /\ y \in Int
    BY <1>3, <1>5, <2>1
  <2> QED BY <2>2
<1>8. \E y \in S : \A z \in S : y <= z
  BY <1>6, <1>7
<1> QED
  BY <1>8 DEF Min

LEMMA YearsAreNumbers ==
    StatedYear \in SUBSET Int /\ StatedYear # {} /\ \A y \in StatedYear : 0 <= y
<1>1. StatedYear \in SUBSET Nat /\ StatedYear # {}
  BY ReportingPeriodsAssumption
<1> QED BY <1>1

LEMMA YearsFollow ==
    ASSUME NEW year \in Int, NEW start \in DayOfYear
    PROVE  LET B == ReportingYearBounds(year, start)
           IN  /\ B.start \in Int /\ B.end \in Int /\ B.end = B.start + DaysInYear
               /\ B.start = year * DaysInYear + start /\ year * DaysInYear \in Int
  BY ReportingPeriodsAssumption DEF ReportingYearBounds, DayOfYear

\* The days of a year are those between its bounds.
LEMMA YearOfItsDays ==
    ASSUME yearStart \in DayOfYear, NEW year \in Int, NEW day \in Int,
           ReportingYearBounds(year, yearStart).start <= day,
           day < ReportingYearBounds(year, yearStart).end
    PROVE  ReportingYearOf(day) = year
<1>1. DaysInYear \in Nat \ {0} /\ yearStart \in 0..DaysInYear - 1
  BY ReportingPeriodsAssumption DEF DayOfYear
<1>2. /\ year * DaysInYear + yearStart <= day
      /\ day < (year + 1) * DaysInYear + yearStart
  BY DEF ReportingYearBounds
<1>3. CASE day < (year + 1) * DaysInYear
  <2>1. day \div DaysInYear = year
    BY <1>1, <1>2, <1>3
  <2> QED BY <1>2, <2>1 DEF ReportingYearOf, ReportingYearBounds
<1>4. CASE ~(day < (year + 1) * DaysInYear)
  <2>1. day < (year + 2) * DaysInYear
    BY <1>1, <1>2
  <2>2. day \div DaysInYear = year + 1
    BY <1>1, <1>2, <1>4, <2>1
  <2>3. ~(day >= ReportingYearBounds(year + 1, yearStart).start)
    BY <1>1, <1>2 DEF ReportingYearBounds
  <2> QED BY <2>2, <2>3 DEF ReportingYearOf
<1> QED
  BY <1>3, <1>4

-----------------------------------------------------------------------------
(* The terms of a year.                                                    *)

LEMMA PlacedInTheYear ==
    ASSUME ReportingInv, NEW year \in Int, NEW t \in terms
    PROVE  /\ Placed(year, t) \in Int
           /\ ReportingYearBounds(year, yearStart).start <= Placed(year, t)
           /\ Placed(year, t) < ReportingYearBounds(year, yearStart).end
           /\ Placed(year, t) = year * DaysInYear + t.start
              \/ Placed(year, t) = year * DaysInYear + t.start + DaysInYear
<1>1. t.start \in DayOfYear /\ yearStart \in DayOfYear
  BY DEF ReportingInv, ReportingTypeOK, ReportingTerm
<1> DEFINE first == year * DaysInYear
           B == ReportingYearBounds(year, yearStart)
<1>2. /\ first \in Int /\ B.start = first + yearStart /\ B.end = B.start + DaysInYear
      /\ B.start \in Int /\ B.end \in Int
  BY <1>1, YearsFollow
<1>3. /\ t.start \in 0..DaysInYear - 1 /\ yearStart \in 0..DaysInYear - 1
      /\ DaysInYear \in Nat
  BY <1>1, ReportingPeriodsAssumption DEF DayOfYear
<1>4. Placed(year, t) = IF first + t.start < B.start THEN first + t.start + DaysInYear
                        ELSE first + t.start
  BY DEF Placed
<1> HIDE DEF first, B
<1>5. /\ Placed(year, t) \in Int /\ B.start <= Placed(year, t) /\ Placed(year, t) < B.end
      /\ Placed(year, t) = first + t.start \/ Placed(year, t) = first + t.start + DaysInYear
  BY <1>2, <1>3, <1>4
<1> QED BY <1>5 DEF first, B

\* Terms of one pattern that are placed on one day are one term.
LEMMA PlacedApart ==
    ASSUME ReportingInv, NEW year \in Int, NEW t \in terms, NEW u \in terms, t.by = u.by,
           Placed(year, t) = Placed(year, u)
    PROVE  t = u
<1>1. t.start \in 0..DaysInYear - 1 /\ u.start \in 0..DaysInYear - 1 /\ DaysInYear \in Nat
  BY ReportingPeriodsAssumption DEF ReportingInv, ReportingTypeOK, ReportingTerm, DayOfYear
<1>2. year * DaysInYear \in Int
  BY <1>1
<1>3. t.start = u.start
  BY <1>1, <1>2, PlacedInTheYear
<1> QED
  BY <1>3 DEF ReportingInv, WrittenWhole

\* A generated term ends where the next one starts, or with the year.
After(year, t) == {Placed(year, u) : u \in {v \in terms : Placed(year, v) > Placed(year, t)}}

EndOf(year, t) == Min(After(year, t) \cup {ReportingYearBounds(year, yearStart).end})

LEMMA GeneratedTerm ==
    ASSUME NEW year, NEW term \in GeneratedTerms(year)
    PROVE  \E t \in terms : term = Term(year, t.position, Placed(year, t), EndOf(year, t))
  BY DEF GeneratedTerms, EndOf, After

LEMMA GeneratedEnds ==
    ASSUME ReportingInv, NEW year \in Int, NEW t \in terms
    PROVE  /\ EndOf(year, t) \in Int
           /\ EndOf(year, t) <= ReportingYearBounds(year, yearStart).end
           /\ \A u \in terms : Placed(year, u) > Placed(year, t) => EndOf(year, t) <= Placed(year, u)
<1> DEFINE last == ReportingYearBounds(year, yearStart).end
           S == After(year, t) \cup {last}
<1>1. yearStart \in DayOfYear /\ last \in Int
  BY YearsFollow DEF ReportingInv, ReportingTypeOK
<1>2. Placed(year, t) \in Int /\ Placed(year, t) < last
  BY PlacedInTheYear
<1> HIDE DEF last
<1>3. \A x \in After(year, t) : x \in Int /\ Placed(year, t) <= x
  BY <1>2, PlacedInTheYear DEF After
<1>4. S \in SUBSET Int /\ S # {} /\ last \in S /\ \A x \in S : Placed(year, t) <= x
  BY <1>1, <1>2, <1>3
<1>5. \A u \in terms : Placed(year, u) > Placed(year, t) => Placed(year, u) \in S
  BY DEF After
<1> HIDE DEF S
<1>6. Min(S) \in S /\ \A x \in S : Min(S) <= x
  BY <1>2, <1>4, LeastOfBounded
<1>7. EndOf(year, t) = Min(S)
  BY DEF EndOf, S, last
<1> QED
  BY <1>4, <1>5, <1>6, <1>7 DEF last

LEMMA StatedRow ==
    ASSUME ReportingInv, NEW i \in instances
    PROVE  /\ i.start \in Int /\ i.end \in Int /\ i.year \in Int /\ i.under \in DayOfYear
           /\ InsideItsYear(i)
<1>1. i \in TermInstance
  BY DEF ReportingInv, ReportingTypeOK
<1>2. i.year \in Int /\ i.under \in DayOfYear /\ i.start \in Day /\ i.end \in Day
  BY <1>1, YearsAreNumbers DEF TermInstance
<1>3. Day \subseteq Int
  BY DEF Day
<1> QED BY <1>2, <1>3 DEF ReportingInv, WrittenWhole

\* The terms of a year that nobody disturbed lie in it.
LEMMA TermsInTheYear ==
    ASSUME ReportingInv, Undisturbed, NEW year \in Int, NEW term \in TermsForYear(year)
    PROVE  /\ term.start \in Int /\ term.end \in Int
           /\ ReportingYearBounds(year, yearStart).start <= term.start
           /\ term.end <= ReportingYearBounds(year, yearStart).end
<1>0. yearStart \in DayOfYear
  BY DEF ReportingInv, ReportingTypeOK
<1>1. CASE Stated(year) # {}
  <2>1. PICK i \in Stated(year) : term = Term(year, i.position, i.start, i.end + 1)
    BY <1>1 DEF TermsForYear
  <2>2. i \in instances /\ i.year = year /\ i.under = yearStart
    BY DEF Stated, Undisturbed
  <2>3. term.start = i.start /\ term.end = i.end + 1
    BY <2>1 DEF Term
  <2>4. InsideItsYear(i) /\ i.start \in Int /\ i.end \in Int
    BY <2>2, StatedRow
  <2> QED BY <1>0, <2>2, <2>3, <2>4, YearsFollow DEF InsideItsYear
<1>2. CASE Stated(year) = {}
  <2>1. term \in GeneratedTerms(year)
    BY <1>2 DEF TermsForYear
  <2>2. PICK t \in terms : term = Term(year, t.position, Placed(year, t), EndOf(year, t))
    BY <2>1, GeneratedTerm
  <2>3. term.start = Placed(year, t) /\ term.end = EndOf(year, t)
    BY <2>2 DEF Term
  <2> QED BY <2>3, GeneratedEnds, PlacedInTheYear
<1> QED BY <1>1, <1>2

\* No day lies in two of them.
LEMMA TermsApart ==
    ASSUME ReportingInv, Undisturbed, NEW year \in Int, NEW day \in Int,
           NEW term \in TermsForYear(year), NEW other \in TermsForYear(year),
           Contains(term, day), Contains(other, day)
    PROVE  term = other
<1>1. CASE Stated(year) # {}
  <2>1. PICK i \in Stated(year) : term = Term(year, i.position, i.start, i.end + 1)
    BY <1>1 DEF TermsForYear
  <2>2. PICK j \in Stated(year) : other = Term(year, j.position, j.start, j.end + 1)
    BY <1>1 DEF TermsForYear
  <2>3. i \in instances /\ j \in instances /\ i.by = j.by
    BY DEF Stated, Undisturbed
  <2>4. i.start <= day /\ day < i.end + 1 /\ j.start <= day /\ day < j.end + 1
    BY <2>1, <2>2 DEF Contains, Term
  <2>5. ~Disjoint(i, j)
    BY <2>3, <2>4, StatedRow DEF Disjoint
  <2>6. i = j
    BY <2>3, <2>5 DEF ReportingInv, WrittenWhole
  <2> QED BY <2>1, <2>2, <2>6
<1>2. CASE Stated(year) = {}
  <2>1. term \in GeneratedTerms(year) /\ other \in GeneratedTerms(year)
    BY <1>2 DEF TermsForYear
  <2>2. PICK t \in terms : term = Term(year, t.position, Placed(year, t), EndOf(year, t))
    BY <2>1, GeneratedTerm
  <2>3. PICK u \in terms : other = Term(year, u.position, Placed(year, u), EndOf(year, u))
    BY <2>1, GeneratedTerm
  <2>4. /\ Placed(year, t) \in Int /\ EndOf(year, t) \in Int
        /\ Placed(year, u) \in Int /\ EndOf(year, u) \in Int
    BY GeneratedEnds, PlacedInTheYear
  <2>5. /\ Placed(year, t) <= day /\ day < EndOf(year, t)
        /\ Placed(year, u) <= day /\ day < EndOf(year, u)
    BY <2>2, <2>3 DEF Contains, Term
  <2>6. Placed(year, t) = Placed(year, u)
    BY <2>4, <2>5, GeneratedEnds
  <2>7. t = u
    BY <2>6, PlacedApart DEF Undisturbed
  <2> QED BY <2>2, <2>3, <2>7
<1> QED BY <1>1, <1>2

-----------------------------------------------------------------------------
(* The steps.                                                              *)

LEMMA IdleEditIsEdit == IdleEdit \in Edit /\ IdleEdit.pc = "idle"
<1>1. Min(StatedYear) \in StatedYear
  <2>1. 0 \in Int /\ StatedYear \in SUBSET Int /\ StatedYear # {}
    BY YearsAreNumbers
  <2>2. \A y \in StatedYear : 0 <= y
    BY YearsAreNumbers
  <2> QED BY <2>1, <2>2, LeastOfBounded
<1>2. 0 \in DayOfYear /\ 0 \in 0..MaxChanges
  BY ReportingPeriodsAssumption DEF DayOfYear
<1> QED BY <1>1, <1>2 DEF IdleEdit, Edit

LEMMA ReportingStarts == ReportingInit => ReportingInv
<1> SUFFICES ASSUME ReportingInit PROVE ReportingInv
  OBVIOUS
<1>1. yearStart \in DayOfYear /\ changes \in 0..MaxChanges
  BY ReportingPeriodsAssumption DEF ReportingInit, DayOfYear
<1>2. ReportingTypeOK
  BY <1>1, IdleEditIsEdit DEF ReportingInit, ReportingTypeOK
<1>3. EditsAreTold /\ WrittenWhole
  BY IdleEditIsEdit DEF ReportingInit, EditsAreTold, WrittenWhole
<1> QED
  BY <1>2, <1>3 DEF ReportingInv

\* The number of an edit that begins is on nothing yet.
LEMMA BeginsKeeps ==
    ASSUME ReportingInv, NEW e \in Editor, NEW edit \in Edit, edit.pc # "idle", Begins(e, edit)
    PROVE  ReportingInv'
<1> DEFINE new == [edit EXCEPT !.id = changes']
<1>1. /\ editing[e].pc = "idle" /\ changes < MaxChanges /\ changes' = changes + 1
      /\ editing' = [editing EXCEPT ![e] = new]
      /\ UNCHANGED <<yearStart, terms, instances>>
  BY DEF Begins
<1>2. /\ changes \in Nat /\ changes' \in 1..MaxChanges /\ changes' \in 0..MaxChanges
      /\ editing \in [Editor -> Edit] /\ instances \subseteq TermInstance
      /\ terms \subseteq ReportingTerm
  BY <1>1, ReportingPeriodsAssumption DEF ReportingInv, ReportingTypeOK
<1>3. new \in Edit /\ new.pc # "idle" /\ new.id = changes + 1
  BY <1>1, <1>2 DEF Edit
<1> HIDE DEF new
<1>4. ReportingTypeOK'
  BY <1>1, <1>2, <1>3 DEF ReportingInv, ReportingTypeOK
<1>5. editing'[e] = new /\ \A f \in Editor \ {e} : editing'[f] = editing[f]
  BY <1>1, <1>2
<1>6. /\ \A i \in instances : i.by \in Nat /\ i.by <= changes
      /\ \A t \in terms : t.by \in Nat /\ t.by <= changes
      /\ \A f \in Editor : editing[f].pc # "idle" => editing[f].id \in 1..changes
  BY <1>2 DEF ReportingInv, EditsAreTold, TermInstance, ReportingTerm
<1>7. EditsAreTold'
  <2> SUFFICES ASSUME NEW f \in Editor, editing'[f].pc # "idle"
               PROVE  /\ editing'[f].id \in 1..changes'
                      /\ \A i \in instances : i.by # editing'[f].id
                      /\ \A t \in terms : t.by # editing'[f].id
                      /\ \A g \in Editor \ {f} : editing'[g].pc # "idle" =>
                            editing'[g].id # editing'[f].id
    BY <1>1, <1>2, <1>6 DEF EditsAreTold
  <2>1. CASE f = e
    BY <1>1, <1>2, <1>3, <1>5, <1>6, <2>1
  <2>2. CASE f # e
    <3>1. editing'[f] = editing[f] /\ editing[f].id \in 1..changes
      BY <1>5, <1>6, <2>2
    <3>2. ASSUME NEW g \in Editor \ {f}, editing'[g].pc # "idle"
          PROVE  editing'[g].id # editing'[f].id
      <4>1. CASE g = e
        BY <1>2, <1>3, <1>5, <3>1, <4>1
      <4>2. CASE g # e
        BY <1>5, <2>2, <3>1, <3>2, <4>2 DEF ReportingInv, EditsAreTold
      <4> QED BY <4>1, <4>2
    <3> QED BY <1>1, <1>2, <3>1, <3>2 DEF ReportingInv, EditsAreTold
  <2> QED BY <2>1, <2>2
<1>8. WrittenWhole'
  BY <1>1 DEF ReportingInv, WrittenWhole, InsideItsYear, Disjoint
<1> QED
  BY <1>4, <1>7, <1>8 DEF ReportingInv

\* An edit that ends may have replaced rows by rows that are whole and bear its
\* number.
LEMMA EndsKeeps ==
    ASSUME ReportingInv, NEW e \in Editor, editing[e].pc # "idle", Ends(e),
           yearStart' \in DayOfYear,
           NEW pattern \in SUBSET ReportingTerm, NEW rows \in SUBSET TermInstance,
           terms' \subseteq terms \cup pattern, instances' \subseteq instances \cup rows,
           \A t \in pattern : t.by = editing[e].id,
           \A t, u \in pattern : t.start = u.start => t = u,
           \A i \in rows : i.by = editing[e].id /\ InsideItsYear(i),
           \A i, j \in rows : i # j => Disjoint(i, j)
    PROVE  ReportingInv'
<1>1. editing' = [editing EXCEPT ![e] = IdleEdit] /\ changes' = changes
  BY DEF Ends
<1>2. editing \in [Editor -> Edit] /\ changes \in 0..MaxChanges /\ changes \in Nat
  BY ReportingPeriodsAssumption DEF ReportingInv, ReportingTypeOK
<1>3. editing'[e] = IdleEdit /\ \A f \in Editor \ {e} : editing'[f] = editing[f]
  BY <1>1, <1>2
<1>4. ReportingTypeOK'
  BY <1>1, <1>2, IdleEditIsEdit DEF ReportingInv, ReportingTypeOK
<1>5. editing[e].id \in 1..changes
  BY DEF ReportingInv, EditsAreTold
<1>6. EditsAreTold'
  <2>1. ASSUME NEW f \in Editor, editing'[f].pc # "idle"
        PROVE  /\ editing'[f].id \in 1..changes'
               /\ \A i \in instances' : i.by # editing'[f].id
               /\ \A t \in terms' : t.by # editing'[f].id
               /\ \A g \in Editor \ {f} : editing'[g].pc # "idle" =>
                     editing'[g].id # editing'[f].id
    <3>1. f # e /\ editing'[f] = editing[f] /\ editing[f].pc # "idle"
      BY <1>3, <2>1, IdleEditIsEdit
    <3>2. editing[f].id # editing[e].id
      BY <3>1 DEF ReportingInv, EditsAreTold
    <3>3. ASSUME NEW g \in Editor \ {f}, editing'[g].pc # "idle"
          PROVE  editing'[g].id # editing'[f].id
      <4>1. g # e /\ editing'[g] = editing[g]
        BY <1>3, <3>3, IdleEditIsEdit
      <4> QED BY <3>1, <3>3, <4>1 DEF ReportingInv, EditsAreTold
    <3> QED BY <1>1, <3>1, <3>2, <3>3 DEF ReportingInv, EditsAreTold
  <2>2. (\A i \in instances' : i.by <= changes') /\ (\A t \in terms' : t.by <= changes')
    BY <1>1, <1>2, <1>5 DEF ReportingInv, EditsAreTold
  <2> QED BY <2>1, <2>2 DEF EditsAreTold
<1>7. WrittenWhole'
  <2>1. \A i \in instances' : InsideItsYear(i)
    BY DEF ReportingInv, WrittenWhole
  <2>2. ASSUME NEW i \in instances', NEW j \in instances', i.by = j.by, i # j
        PROVE  Disjoint(i, j)
    BY <2>2 DEF ReportingInv, EditsAreTold, WrittenWhole
  <2>3. ASSUME NEW t \in terms', NEW u \in terms', t.by = u.by, t.start = u.start PROVE t = u
    BY <2>3 DEF ReportingInv, EditsAreTold, WrittenWhole
  <2> QED BY <2>1, <2>2, <2>3 DEF WrittenWhole, InsideItsYear, Disjoint
<1> QED
  BY <1>4, <1>6, <1>7 DEF ReportingInv

LEMMA LoadsKeep ==
    ASSUME ReportingInv, NEW e \in Editor, LoadCalendar(e) \/ LoadYear(e)
    PROVE  ReportingInv'
<1>1. CASE LoadCalendar(e)
  <2> DEFINE edit == [IdleEdit EXCEPT !.pc = "calendar", !.terms = terms]
  <2>1. edit \in Edit /\ edit.pc # "idle"
    BY IdleEditIsEdit DEF ReportingInv, ReportingTypeOK, Edit
  <2>2. Begins(e, edit)
    BY <1>1 DEF LoadCalendar
  <2> HIDE DEF edit
  <2> QED BY <2>1, <2>2, BeginsKeeps
<1>2. CASE LoadYear(e)
  <2>1. PICK year \in StatedYear :
            Begins(e, [IdleEdit EXCEPT !.pc = "year", !.year = year, !.under = yearStart,
                                       !.rows = Stated(year)])
    BY <1>2 DEF LoadYear
  <2> DEFINE edit == [IdleEdit EXCEPT !.pc = "year", !.year = year, !.under = yearStart,
                                      !.rows = Stated(year)]
  <2>2. Stated(year) \in SUBSET TermInstance
    BY DEF Stated, ReportingInv, ReportingTypeOK
  <2>3. edit \in Edit /\ edit.pc # "idle"
    BY <2>2, IdleEditIsEdit DEF ReportingInv, ReportingTypeOK, Edit
  <2> HIDE DEF edit
  <2> QED BY <2>1, <2>3, BeginsKeeps DEF edit
<1> QED BY <1>1, <1>2

\* A pattern that is submitted has its terms on different days.
LEMMA PatternIsWhole ==
    ASSUME ReportingInv, NEW e \in Editor, editing[e].pc # "idle",
           NEW n \in 0..NumTerms, NEW pattern \in Pattern(e, n)
    PROVE  /\ pattern \in SUBSET ReportingTerm
           /\ \A t \in pattern : t.by = editing[e].id
           /\ \A t, u \in pattern : t.start = u.start => t = u
<1>1. PICK starts \in [0..n - 1 -> DayOfYear] :
          /\ \A p, q \in 0..n - 1 : starts[p] = starts[q] => p = q
          /\ pattern = {[start |-> starts[p], position |-> p, by |-> editing[e].id] : p \in 0..n - 1}
  BY DEF Pattern
<1>2. editing[e].id \in 1..MaxChanges
  BY ReportingPeriodsAssumption DEF ReportingInv, EditsAreTold, ReportingTypeOK
<1>3. 0..n - 1 \subseteq Position
  BY ReportingPeriodsAssumption DEF Position
<1>4. ASSUME NEW p \in 0..n - 1
      PROVE  [start |-> starts[p], position |-> p, by |-> editing[e].id] \in ReportingTerm
  BY <1>2, <1>3 DEF ReportingTerm
<1> QED
  BY <1>1, <1>4

LEMMA CalendarKeeps ==
    ASSUME ReportingInv, NEW e \in Editor, UpdateReportingCalendar(e) PROVE ReportingInv'
<1>1. PICK n \in 0..NumTerms : \E pattern \in Pattern(e, n) :
          terms' = (terms \ editing[e].terms) \cup pattern
  BY DEF UpdateReportingCalendar
<1>2. PICK pattern \in Pattern(e, n) : terms' = (terms \ editing[e].terms) \cup pattern
  BY <1>1
<1>3. editing[e].pc # "idle" /\ Ends(e) /\ yearStart' \in DayOfYear /\ instances' = instances
  BY DEF UpdateReportingCalendar
<1>4. /\ pattern \in SUBSET ReportingTerm
      /\ \A t \in pattern : t.by = editing[e].id
      /\ \A t, u \in pattern : t.start = u.start => t = u
  BY <1>3, PatternIsWhole
<1>5. /\ {} \in SUBSET TermInstance /\ instances' \subseteq instances \cup {}
      /\ terms' \subseteq terms \cup pattern
  BY <1>2, <1>3
<1> QED BY <1>3, <1>4, <1>5, EndsKeeps

\* The segments of a request are few, and are apart.
LEMMA PayloadIsWhole ==
    ASSUME ReportingInv, NEW e \in Editor, NEW S \in Payloads(e)
    PROVE  /\ S \in SUBSET {s \in Segment : Inside(e, s)}
           /\ IsFiniteSet(S) /\ Cardinality(S) <= NumTerms
           /\ \A s, t \in S : s # t => Disjoint(s, t)
<1>1. PICK f \in [1..NumTerms -> {s \in Segment : Inside(e, s)}] : S = Range(f)
  BY DEF Payloads
<1>2. f \in Surjection(1..NumTerms, S) /\ S \in SUBSET {s \in Segment : Inside(e, s)}
  BY <1>1 DEF Surjection, Range
<1>3. IsFiniteSet(1..NumTerms) /\ Cardinality(1..NumTerms) = NumTerms
  BY FS_Interval, ReportingPeriodsAssumption
<1>4. IsFiniteSet(S) /\ Cardinality(S) <= NumTerms
  BY <1>2, <1>3, FS_Surjection
<1> QED
  BY <1>2, <1>4 DEF Payloads

LEMMA InstancesAreWhole ==
    ASSUME ReportingInv, NEW e \in Editor, editing[e].pc # "idle", NEW S \in Payloads(e)
    PROVE  /\ Instances(e, S) \in SUBSET TermInstance
           /\ \A i \in Instances(e, S) : i.by = editing[e].id /\ InsideItsYear(i)
           /\ \A i, j \in Instances(e, S) : i # j => Disjoint(i, j)
<1> DEFINE place(s) == IF s.position # NoPosition THEN s.position
                       ELSE Cardinality({t \in S : t.start < s.start})
           row(s) == [year |-> editing[e].year, start |-> s.start, end |-> s.end,
                      position |-> place(s), under |-> editing[e].under, by |-> editing[e].id]
<1>1. /\ editing[e].id \in 1..MaxChanges /\ editing[e].year \in StatedYear
      /\ editing[e].under \in DayOfYear
  BY ReportingPeriodsAssumption DEF ReportingInv, EditsAreTold, ReportingTypeOK, Edit
<1>2. ASSUME NEW s \in S
      PROVE  /\ s.start \in Day /\ s.end \in Day /\ s.position \in Position \cup {NoPosition}
             /\ Inside(e, s)
  BY PayloadIsWhole DEF Segment
<1>3. ASSUME NEW s \in S PROVE place(s) \in Position
  <2> DEFINE T == {t \in S : t.start < s.start}
  <2>1. T \in SUBSET S /\ s \notin T
    <3>1. s.start \in Int
      BY <1>2 DEF Day
    <3> QED BY <3>1
  <2>2. T # S
    BY <2>1
  <2> HIDE DEF T
  <2>3. /\ Cardinality(T) \in Nat /\ Cardinality(S) \in Nat /\ Cardinality(T) <= Cardinality(S)
        /\ Cardinality(T) # Cardinality(S)
    <3>1. IsFiniteSet(S) /\ IsFiniteSet(T)
      BY <2>1, FS_Subset, PayloadIsWhole
    <3> QED BY <2>1, <2>2, <3>1, FS_Subset, FS_CardinalityType
  <2>4. Cardinality(T) \in Position
    BY <2>3, PayloadIsWhole, ReportingPeriodsAssumption DEF Position
  <2> QED BY <1>2, <2>4 DEF T
<1> HIDE DEF place
<1>4. ASSUME NEW s \in S PROVE row(s) \in TermInstance
  BY <1>1, <1>2, <1>3 DEF TermInstance
<1>5. ASSUME NEW s \in S PROVE row(s).by = editing[e].id /\ InsideItsYear(row(s))
  BY <1>2 DEF Inside, InsideItsYear
<1>6. ASSUME NEW s \in S, NEW t \in S, row(s) # row(t) PROVE Disjoint(row(s), row(t))
  <2>1. Disjoint(s, t)
    BY <1>6, PayloadIsWhole
  <2> QED BY <2>1 DEF Disjoint
<1>7. Instances(e, S) = {row(s) : s \in S}
  BY DEF Instances, place
<1> HIDE DEF row
<1> QED
  BY <1>4, <1>5, <1>6, <1>7

LEMMA YearKeeps ==
    ASSUME ReportingInv, NEW e \in Editor,
           OverrideReportingYear(e) \/ ClearReportingYearOverride(e) \/ EditFails(e)
    PROVE  ReportingInv'
<1>1. /\ editing[e].pc # "idle" /\ Ends(e) /\ yearStart' \in DayOfYear
      /\ terms' \subseteq terms \cup {} /\ {} \in SUBSET ReportingTerm
      /\ {} \in SUBSET TermInstance
  BY DEF OverrideReportingYear, ClearReportingYearOverride, EditFails, ReportingInv,
         ReportingTypeOK
<1>2. CASE instances' \subseteq instances \cup {}
  BY <1>1, <1>2, EndsKeeps
<1>3. ASSUME NEW S \in Payloads(e),
             instances' = (instances \ editing[e].rows) \cup Instances(e, S)
      PROVE  ReportingInv'
  <2>1. instances' \subseteq instances \cup Instances(e, S)
    BY <1>3
  <2>2. /\ Instances(e, S) \in SUBSET TermInstance
        /\ \A i \in Instances(e, S) : i.by = editing[e].id /\ InsideItsYear(i)
        /\ \A i, j \in Instances(e, S) : i # j => Disjoint(i, j)
    BY <1>1, InstancesAreWhole
  <2> QED BY <1>1, <2>1, <2>2, EndsKeeps
<1> QED
  BY <1>2, <1>3 DEF OverrideReportingYear, ClearReportingYearOverride, EditFails

LEMMA ReportingIsKept == ReportingInv /\ [ReportingNext]_reportingVars => ReportingInv'
<1> SUFFICES ASSUME ReportingInv, [ReportingNext]_reportingVars PROVE ReportingInv'
  OBVIOUS
<1>1. ASSUME NEW e \in Editor, LoadCalendar(e) \/ LoadYear(e) PROVE ReportingInv'
  BY <1>1, LoadsKeep
<1>2. ASSUME NEW e \in Editor, UpdateReportingCalendar(e) PROVE ReportingInv'
  BY <1>2, CalendarKeeps
<1>3. ASSUME NEW e \in Editor,
             OverrideReportingYear(e) \/ ClearReportingYearOverride(e) \/ EditFails(e)
      PROVE  ReportingInv'
  BY <1>3, YearKeeps
<1>4. CASE UNCHANGED reportingVars
  <2>1. UNCHANGED <<yearStart, terms, instances, editing, changes>>
    BY <1>4 DEF reportingVars
  <2> QED BY <2>1 DEF ReportingInv, ReportingTypeOK, EditsAreTold, WrittenWhole,
                      InsideItsYear, Disjoint
<1> QED
  BY <1>1, <1>2, <1>3, <1>4 DEF ReportingNext

\* Every edit writes rows that are whole, under a number of its own, however the
\* edits interleave (override_reporting_year, update_reporting_calendar).
THEOREM ReportingInvHolds == ReportingSpec => []ReportingInv
  BY ReportingStarts, ReportingIsKept, PTL DEF ReportingSpec

\* A day that lies in some term, generated or stated, lies in no other term of
\* any year and is resolved to that one, as long as edits of the same rows did
\* not overlap and the calendar was not moved under years that were stated
\* (terms_for_year, current_term, override_reporting_year).
THEOREM DaysBelongToOneTerm == ReportingSpec => []OneTermADay
<1>1. ASSUME ReportingInv PROVE OneTermADay
  <2> DEFINE Years == {y - 1 : y \in StatedYear} \cup StatedYear \cup {y + 1 : y \in StatedYear}
  <2> SUFFICES ASSUME Undisturbed, NEW year \in Years, NEW term \in TermsForYear(year),
                      NEW day \in term.start..term.end - 1
               PROVE  CurrentTerm(day) = {term}
    BY DEF OneTermADay
  <2>1. year \in Int
    <3>1. \A y \in StatedYear : y \in Int
      BY YearsAreNumbers
    <3> QED BY <3>1
  <2> HIDE DEF Years
  <2>2. /\ day \in Int /\ Contains(term, day)
        /\ ReportingYearBounds(year, yearStart).start <= day
        /\ day < ReportingYearBounds(year, yearStart).end
    <3>1. yearStart \in DayOfYear
      BY <1>1 DEF ReportingInv, ReportingTypeOK
    <3> QED BY <1>1, <2>1, <3>1, TermsInTheYear, YearsFollow DEF Contains
  <2>3. ReportingYearOf(day) = year
    BY <1>1, <2>1, <2>2, YearOfItsDays DEF ReportingInv, ReportingTypeOK
  <2>4. ASSUME NEW other \in CurrentTerm(day) PROVE other = term
    <3>1. other \in TermsForYear(year) /\ Contains(other, day)
      BY <2>3 DEF CurrentTerm
    <3> QED BY <1>1, <2>1, <2>2, <3>1, TermsApart
  <2>5. term \in CurrentTerm(day)
    BY <2>2, <2>3 DEF CurrentTerm
  <2> QED BY <2>4, <2>5
<1> QED BY <1>1, ReportingInvHolds, PTL

-----------------------------------------------------------------------------
(***************************************************************************)
(* Attribution. A job is left under a name only if it came in when that    *)
(* name was nobody's alias (ResolvedAsKnown). A writer of aliases has      *)
(* found every such job by the time it commits, and a sync need not look   *)
(* for jobs under the aliases it knew, since none was left under them      *)
(* (MovesAll).                                                             *)
(***************************************************************************)

\* A job that is logged under n, by its own word.
LoggedAs(j, n) ==
    /\ logged[j].pc = "logged" /\ ~logged[j].late
    /\ logged[j].method = "cups" /\ logged[j].user = n

\* What a job was resolved to is what the tables say, before it is logged and
\* after.
ResolvedAsKnown ==
    \A j \in PrintJob : logged[j].pc # "none" /\ ~logged[j].late =>
        /\ logged[j].method = "cups" => /\ logged[j].user \in Name
                                        /\ aliases[logged[j].user] = NoAlias
        /\ logged[j].mac /\ override # NoName => logged[j].method \in {"override", "alias"}

\* A sync knows of no alias that a job was left under, and what is written and
\* not committed takes every job with it that it should.
MovesAll(t) ==
    /\ t.pc = "read" => \A k \in Keys(t.known), j \in PrintJob : ~LoggedAs(j, k)
    /\ t.pc = "commit" =>
          /\ \A k \in Keys(t.puts), j \in PrintJob : LoggedAs(j, k) => j \in Keys(t.moves)
          /\ t.by = "override" /\ t.rows # {} =>
                \A j \in PrintJob :
                    logged[j].pc = "logged" /\ ~logged[j].late /\ logged[j].mac =>
                    j \in Keys(t.moves)
    /\ t.by = "override" => t.puts = {}
    /\ t.pc \in {"listed", "read"} => t.by = "sync"

WritersMoveAll == \A w \in Writer : MovesAll(writer[w])

AttributionInv == AttributionTypeOK /\ ResolvedAsKnown /\ WritersMoveAll

-----------------------------------------------------------------------------
LEMMA IdleWriterIsWriter ==
    IdleWriter \in WriterState /\ IdleWriter.pc = "idle" /\ IdleWriter.by = "manual"
  BY DEF IdleWriter, WriterState

LEMMA IdleMovesAll == MovesAll(IdleWriter)
  BY IdleWriterIsWriter DEF MovesAll

LEMMA NobodyLogged == AttributionInit => AttributionInv
<1> SUFFICES ASSUME AttributionInit PROVE AttributionInv
  OBVIOUS
<1>1. directory \in Directory /\ roster \subseteq Address /\ override \in Address \cup {NoName}
  <2>1. PICK a \in Address : directory = [roster |-> {a}, claims |-> {}] /\ roster = {a}
    BY DEF AttributionInit
  <2> QED BY <2>1 DEF AttributionInit, Directory
<1>2. NotLogged \in Attributed /\ NotLogged.pc = "none"
  BY DEF NotLogged, Attributed
<1>3. AttributionTypeOK
  BY <1>1, <1>2, IdleWriterIsWriter, AttributionAssumption DEF AttributionInit, AttributionTypeOK
<1>4. ResolvedAsKnown
  BY <1>2 DEF AttributionInit, ResolvedAsKnown
<1>5. WritersMoveAll
  BY IdleMovesAll DEF AttributionInit, WritersMoveAll
<1> QED
  BY <1>3, <1>4, <1>5 DEF AttributionInv

-----------------------------------------------------------------------------
(* A job.                                                                  *)

\* A job that comes to be logged while somebody writes is late.
LEMMA LogKeeps ==
    ASSUME AttributionInv, NEW j \in PrintJob, LogJob(j) PROVE AttributionInv'
<1> DEFINE new == [logged[j] EXCEPT !.pc = "logged", !.late = @ \/ Writing]
<1>1. /\ logged[j].pc = "resolved" /\ logged' = [logged EXCEPT ![j] = new]
      /\ UNCHANGED <<directory, directories, roster, aliases, override, writer, edits>>
  BY DEF LogJob
<1>2. logged \in [PrintJob -> Attributed] /\ logged[j] \in Attributed
  BY DEF AttributionInv, AttributionTypeOK
<1>3. /\ new \in Attributed /\ new.pc = "logged" /\ new.late = (logged[j].late \/ Writing)
      /\ new.user = logged[j].user /\ new.method = logged[j].method /\ new.mac = logged[j].mac
  <2>1. Writing \in BOOLEAN
    BY DEF Writing
  <2> HIDE DEF Writing
  <2> QED BY <1>2, <2>1 DEF Attributed
<1> HIDE DEF new
<1>4. logged'[j] = new /\ \A k \in PrintJob : k # j => logged'[k] = logged[k]
  BY <1>1, <1>2
<1>5. AttributionTypeOK'
  BY <1>1, <1>2, <1>3 DEF AttributionInv, AttributionTypeOK
<1>6. ResolvedAsKnown'
  <2>1. ASSUME NEW k \in PrintJob, logged'[k].pc # "none", ~logged'[k].late
        PROVE  /\ logged[k].pc # "none" /\ ~logged[k].late
               /\ logged'[k].user = logged[k].user /\ logged'[k].mac = logged[k].mac
               /\ logged'[k].method = logged[k].method
    <3>1. CASE k = j
      BY <1>1, <1>3, <1>4, <2>1, <3>1
    <3>2. CASE k # j
      BY <1>4, <2>1, <3>2
    <3> QED BY <3>1, <3>2
  <2> QED
    BY <1>1, <2>1 DEF AttributionInv, ResolvedAsKnown
<1>7. WritersMoveAll'
  <2>1. ASSUME NEW w \in Writer PROVE MovesAll(writer[w])'
    <3>1. writer'[w] = writer[w] /\ MovesAll(writer[w])
      BY <1>1 DEF AttributionInv, WritersMoveAll
    <3>2. writer[w].pc \in {"read", "commit"} => logged'[j].late
      BY <1>3, <1>4 DEF Writing
    <3> QED BY <1>4, <3>1, <3>2 DEF MovesAll, LoggedAs
  <2> QED BY <2>1 DEF WritersMoveAll
<1> QED
  BY <1>5, <1>6, <1>7 DEF AttributionInv

LEMMA ResolveKeeps ==
    ASSUME AttributionInv, NEW j \in PrintJob, NEW n \in Name \cup {NoName}, ResolveUser(j, n)
    PROVE  AttributionInv'
<1>0. /\ logged \in [PrintJob -> Attributed] /\ Writing \in BOOLEAN
      /\ aliases \in [Name -> AliasRow \cup {NoAlias}] /\ override \in Address \cup {NoName}
  BY DEF AttributionInv, AttributionTypeOK, Writing
<1>1. ASSUME NEW user \in Name \cup {NoName}, NEW mac \in BOOLEAN,
             NEW method \in {"cups", "alias", "override", "device", "unresolved"}
      PROVE  LET r == Resolved(user, method, mac)
             IN  /\ r \in Attributed /\ r.pc = "resolved" /\ r.user = user
                 /\ r.method = method /\ r.mac = mac
  BY <1>0 DEF Resolved, Attributed
<1> DEFINE Fits(r) ==
        /\ r \in Attributed /\ r.pc = "resolved"
        /\ r.method = "cups" => r.user \in Name /\ aliases[r.user] = NoAlias
        /\ r.mac /\ override # NoName => r.method \in {"override", "alias"}
<1>2. ASSUME NEW k \in Name, NEW mac \in BOOLEAN, mac => override = NoName
      PROVE  Fits(ByAlias(k, mac))
  <2>1. CASE aliases[k] # NoAlias
    <3>1. aliases[k].email \in Name \cup {NoName}
      BY <1>0, <2>1 DEF AliasRow, Name
    <3> QED BY <1>1, <2>1, <3>1 DEF ByAlias
  <2>2. CASE aliases[k] = NoAlias
    BY <1>1, <1>2, <2>2 DEF ByAlias
  <2> QED BY <2>1, <2>2
<1>3. PICK r : Fits(r) /\ logged' = [logged EXCEPT ![j] = r]
  <2>1. CASE n \in Address /\ logged' = [logged EXCEPT ![j] = ByAlias(n, FALSE)]
    BY <1>2, <2>1 DEF Name
  <2>2. ASSUME n \notin Address, NEW mac \in BOOLEAN, NEW reported \in Address \cup {NoName},
               logged' = [logged EXCEPT ![j] =
                   IF mac /\ override # NoName THEN Resolved(override, "override", TRUE)
                   ELSE IF mac /\ reported # NoName THEN Resolved(reported, "device", TRUE)
                   ELSE IF n = NoName THEN Resolved(NoName, "unresolved", mac)
                   ELSE ByAlias(n, mac)]
        PROVE  \E r : Fits(r) /\ logged' = [logged EXCEPT ![j] = r]
    <3>1. CASE mac /\ override # NoName
      <4>0. override \in Name \cup {NoName}
        BY <1>0 DEF Name
      <4>1. Fits(Resolved(override, "override", TRUE))
        <5> DEFINE r == Resolved(override, "override", TRUE)
        <5>1. r \in Attributed /\ r.pc = "resolved" /\ r.method = "override"
          BY <1>0, <4>0 DEF Resolved, Attributed
        <5> HIDE DEF r
        <5>2. Fits(r)
          BY <5>1
        <5> QED BY <5>2 DEF r
      <4> HIDE DEF Fits
      <4> QED BY <2>2, <3>1, <4>1
    <3>2. CASE ~(mac /\ override # NoName) /\ mac /\ reported # NoName
      <4>0. reported \in Name \cup {NoName}
        BY DEF Name
      <4>1. Fits(Resolved(reported, "device", TRUE))
        <5> DEFINE r == Resolved(reported, "device", TRUE)
        <5>1. r \in Attributed /\ r.pc = "resolved" /\ r.method = "device"
          BY <1>0, <4>0 DEF Resolved, Attributed
        <5> HIDE DEF r
        <5>2. Fits(r)
          BY <3>2, <5>1
        <5> QED BY <5>2 DEF r
      <4> HIDE DEF Fits
      <4> QED BY <2>2, <3>2, <4>1
    <3>3. CASE ~(mac /\ override # NoName) /\ ~(mac /\ reported # NoName) /\ n = NoName
      <4>1. Fits(Resolved(NoName, "unresolved", mac))
        BY <1>1, <3>3
      <4> HIDE DEF Fits
      <4> QED BY <2>2, <3>3, <4>1
    <3>4. CASE ~(mac /\ override # NoName) /\ ~(mac /\ reported # NoName) /\ n # NoName
      <4>1. Fits(ByAlias(n, mac))
        BY <1>2, <3>4
      <4> HIDE DEF Fits
      <4> QED BY <2>2, <3>4, <4>1
    <3> QED BY <3>1, <3>2, <3>3, <3>4
  <2> HIDE DEF Fits
  <2> QED BY <2>1, <2>2, <1>2 DEF ResolveUser, Name
<1>4. logged'[j] = r /\ \A k \in PrintJob : k # j => logged'[k] = logged[k]
  BY <1>0, <1>3
<1>5. UNCHANGED <<directory, directories, roster, aliases, override, writer, edits>>
  BY DEF ResolveUser
<1>6. AttributionTypeOK'
  BY <1>0, <1>3, <1>5 DEF AttributionInv, AttributionTypeOK
<1>7. ResolvedAsKnown'
  BY <1>3, <1>4, <1>5 DEF AttributionInv, ResolvedAsKnown
<1>8. WritersMoveAll'
  <2>1. ASSUME NEW w \in Writer PROVE MovesAll(writer[w])'
    <3>1. writer'[w] = writer[w] /\ MovesAll(writer[w])
      BY <1>5 DEF AttributionInv, WritersMoveAll
    <3> QED BY <1>3, <1>4, <3>1 DEF MovesAll, LoggedAs
  <2> QED BY <2>1 DEF WritersMoveAll
<1> QED
  BY <1>6, <1>7, <1>8 DEF AttributionInv

-----------------------------------------------------------------------------
(* A transaction that goes on without being seen.                          *)

LEMMA WriterGoesOn ==
    ASSUME AttributionInv, NEW w \in Writer, NEW t \in WriterState, MovesAll(t),
           writer' = [writer EXCEPT ![w] = t], edits' \in 0..MaxEdits,
           UNCHANGED <<directory, directories, roster, aliases, override, logged>>
    PROVE  AttributionInv'
<1>1. writer \in [Writer -> WriterState]
  BY DEF AttributionInv, AttributionTypeOK
<1>2. AttributionTypeOK'
  BY <1>1 DEF AttributionInv, AttributionTypeOK
<1>3. ResolvedAsKnown'
  BY DEF AttributionInv, ResolvedAsKnown
<1>4. ASSUME NEW v \in Writer PROVE MovesAll(writer[v])'
  <2>1. MovesAll(writer'[v])
    BY <1>1 DEF AttributionInv, WritersMoveAll
  <2> QED BY <2>1 DEF MovesAll, LoggedAs
<1> QED
  BY <1>2, <1>3, <1>4 DEF AttributionInv, WritersMoveAll

\* It is refused by the unique key, or goes to commit what was handed to it.
LEMMA OpensKeeps ==
    ASSUME AttributionInv, NEW w \in Writer, NEW t \in WriterState, Opens(w, t),
           MovesAll([t EXCEPT !.pc = "commit"]), edits' \in 0..MaxEdits,
           UNCHANGED <<directory, directories, roster, aliases, override, logged>>
    PROVE  AttributionInv'
<1>1. \/ writer' = [writer EXCEPT ![w] = [t EXCEPT !.pc = "commit"]]
      \/ writer' = [writer EXCEPT ![w] = IdleWriter]
  BY DEF Opens
<1>2. [t EXCEPT !.pc = "commit"] \in WriterState
  BY DEF WriterState
<1> QED
  BY <1>1, <1>2, WriterGoesOn, IdleMovesAll, IdleWriterIsWriter

LEMMA MovesThem ==
    ASSUME NEW rows \in SUBSET (Name \X Address)
    PROVE  /\ Moves(rows) \in SUBSET (PrintJob \X Address)
           /\ \A r \in rows, j \in PrintJob : LoggedAs(j, r[1]) => j \in Keys(Moves(rows))
<1>1. Moves(rows) \in SUBSET (PrintJob \X Address)
  BY DEF Moves, Under
<1>2. ASSUME NEW r \in rows, NEW j \in PrintJob, LoggedAs(j, r[1]) PROVE j \in Keys(Moves(rows))
  <2>1. j \in Under(r[1])
    BY <1>2 DEF LoggedAs, Under
  <2>2. <<j, r[2]>> \in Moves(rows)
    BY <2>1 DEF Moves
  <2> QED BY <2>2 DEF Keys
<1> QED
  BY <1>1, <1>2

LEMMA SyncKeeps ==
    ASSUME AttributionInv, NEW w \in Writer, ListUsers(w) \/ ReadAliases(w) \/ ReplaceAliases(w)
    PROVE  AttributionInv'
<1>0. /\ writer[w] \in WriterState /\ directory \in Directory
      /\ aliases \in [Name -> AliasRow \cup {NoAlias}] /\ edits \in 0..MaxEdits
      /\ MovesAll(writer[w])
  BY DEF AttributionInv, AttributionTypeOK, WritersMoveAll
<1>1. CASE ListUsers(w)
  <2> DEFINE t == [IdleWriter EXCEPT !.pc = "listed", !.by = "sync",
                                     !.roster = directory.roster,
                                     !.rows = Unambiguous(directory.claims)]
  <2>1. directory.roster \in SUBSET Address /\ Unambiguous(directory.claims) \in SUBSET (Name \X Address)
    BY <1>0 DEF Directory, Unambiguous
  <2>2. t \in WriterState /\ t.pc = "listed" /\ t.by = "sync"
    BY <2>1 DEF IdleWriter, WriterState
  <2>3. /\ writer' = [writer EXCEPT ![w] = t] /\ edits' = edits
        /\ UNCHANGED <<directory, directories, roster, aliases, override, logged>>
    BY <1>1 DEF ListUsers
  <2> HIDE DEF t
  <2>4. MovesAll(t)
    BY <2>2 DEF MovesAll
  <2> QED BY <1>0, <2>2, <2>3, <2>4, WriterGoesOn
<1>2. CASE ReadAliases(w)
  <2> DEFINE rows == {r \in writer[w].rows : aliases[r[1]].by # "manual"}
             t == [writer[w] EXCEPT !.pc = "read", !.known = SyncedAliases, !.rows = rows]
  <2>1. writer' = [writer EXCEPT ![w] = t] /\ writer[w].pc = "listed" /\ edits' = edits
    BY <1>2 DEF ReadAliases
  <2>2. UNCHANGED <<directory, directories, roster, aliases, override, logged>>
    BY <1>2 DEF ReadAliases
  <2>3. SyncedAliases \in SUBSET (Name \X Address)
    BY <1>0 DEF SyncedAliases, AliasRow, NoAlias
  <2>4. rows \in SUBSET (Name \X Address)
    BY <1>0 DEF WriterState
  <2> HIDE DEF rows
  <2>5. /\ t \in WriterState /\ t.pc = "read" /\ t.known = SyncedAliases
        /\ t.by = writer[w].by /\ t.puts = writer[w].puts
    BY <1>0, <2>3, <2>4 DEF WriterState
  <2> HIDE DEF t
  <2>6. ASSUME NEW k \in Keys(SyncedAliases), NEW j \in PrintJob PROVE ~LoggedAs(j, k)
    <3>1. k \in Name /\ aliases[k] # NoAlias
      BY DEF Keys, SyncedAliases, NoAlias
    <3> QED BY <3>1 DEF AttributionInv, ResolvedAsKnown, LoggedAs
  <2>7. MovesAll(t)
    BY <1>0, <2>1, <2>5, <2>6 DEF MovesAll
  <2> QED BY <1>0, <2>1, <2>2, <2>5, <2>7, WriterGoesOn
<1>3. CASE ReplaceAliases(w)
  <2> DEFINE drops == {k \in Keys(writer[w].known) : aliases[k].by = "sync"}
             renamed == Moves(Changed(writer[w]))
             t == [writer[w] EXCEPT !.rows = {}, !.known = {}, !.puts = writer[w].rows,
                                    !.drops = drops, !.moves = renamed]
  <2>1. /\ writer[w].pc = "read" /\ Opens(w, t) /\ edits' = edits
        /\ UNCHANGED <<directory, directories, roster, aliases, override, logged>>
    BY <1>3 DEF ReplaceAliases
  <2>2. /\ writer[w].rows \in SUBSET (Name \X Address)
        /\ writer[w].known \in SUBSET (Name \X Address)
        /\ Changed(writer[w]) \in SUBSET (Name \X Address)
    BY <1>0 DEF WriterState, Changed
  <2>3. renamed \in SUBSET (PrintJob \X Address)
    BY <2>2, MovesThem
  <2>4. drops \in SUBSET Name
    BY <2>2 DEF Keys
  <2> HIDE DEF drops, renamed
  <2>5. /\ t \in WriterState
        /\ LET u == [t EXCEPT !.pc = "commit"]
           IN  /\ u.pc = "commit" /\ u.puts = writer[w].rows /\ u.moves = renamed
               /\ u.by = writer[w].by /\ u.rows = {}
    BY <1>0, <2>2, <2>3, <2>4 DEF WriterState
  <2>6. ASSUME NEW k \in Keys(writer[w].rows), NEW j \in PrintJob, LoggedAs(j, k)
        PROVE  j \in Keys(renamed)
    <3>1. PICK r \in writer[w].rows : k = r[1]
      BY DEF Keys
    <3>2. r \notin writer[w].known
      BY <1>0, <2>1, <2>6, <3>1 DEF MovesAll, Keys
    <3>3. r \in Changed(writer[w])
      BY <3>2 DEF Changed
    <3> QED BY <2>2, <2>6, <3>1, <3>3, MovesThem DEF renamed
  <2> DEFINE u == [t EXCEPT !.pc = "commit"]
  <2>7. /\ t \in WriterState /\ u.pc = "commit" /\ u.puts = writer[w].rows
        /\ u.moves = renamed /\ u.by = "sync"
    BY <1>0, <2>1, <2>5 DEF MovesAll
  <2> HIDE DEF t
  <2>8. MovesAll(u)
    <3> HIDE DEF u
    <3> QED BY <2>6, <2>7 DEF MovesAll
  <2> QED BY <1>0, <2>1, <2>7, <2>8, OpensKeeps
<1> QED BY <1>1, <1>2, <1>3

LEMMA FailureKeeps ==
    ASSUME AttributionInv, NEW w \in Writer, WriterFails(w) PROVE AttributionInv'
<1>1. edits' \in 0..MaxEdits
  BY DEF WriterFails, AttributionInv, AttributionTypeOK
<1> QED BY <1>1, WriterGoesOn, IdleMovesAll, IdleWriterIsWriter DEF WriterFails

-----------------------------------------------------------------------------
(* Administrators.                                                         *)

LEMMA EditBeginsIsTyped ==
    ASSUME AttributionInv, NEW w \in Writer, EditBegins(w)
    PROVE  /\ edits' \in 0..MaxEdits
           /\ UNCHANGED <<directory, directories, roster, aliases, override, logged>>
  BY AttributionAssumption DEF EditBegins, AttributionInv, AttributionTypeOK

LEMMA CreateKeeps ==
    ASSUME AttributionInv, NEW w \in Writer, NEW n \in Name, NEW email \in Address,
           CreateAttributionAlias(w, n, email)
    PROVE  AttributionInv'
<1> DEFINE rows == {<<n, email>>}
           renamed == Moves(rows)
           t == [IdleWriter EXCEPT !.puts = rows, !.moves = renamed]
           u == [t EXCEPT !.pc = "commit"]
<1>1. EditBegins(w) /\ Opens(w, t)
  BY DEF CreateAttributionAlias
<1>2. rows \in SUBSET (Name \X Address) /\ \A k \in Keys(rows) : k = n
  BY DEF Keys
<1>3. renamed \in SUBSET (PrintJob \X Address)
  BY <1>2, MovesThem
<1>4. ASSUME NEW j \in PrintJob, LoggedAs(j, n) PROVE j \in Keys(renamed)
  <2>1. <<n, email>> \in rows /\ <<n, email>>[1] = n
    OBVIOUS
  <2> HIDE DEF rows
  <2> QED BY <1>2, <1>4, <2>1, MovesThem
<1> HIDE DEF rows, renamed
<1>5. /\ t \in WriterState /\ u.pc = "commit" /\ u.by = "manual" /\ u.puts = rows
      /\ u.moves = renamed
  BY <1>2, <1>3 DEF IdleWriter, WriterState
<1>6. MovesAll(u)
  <2> HIDE DEF u
  <2> QED BY <1>2, <1>4, <1>5 DEF MovesAll
<1> HIDE DEF t
<1> QED BY <1>1, <1>5, <1>6, EditBeginsIsTyped, OpensKeeps

LEMMA DeleteKeeps ==
    ASSUME AttributionInv, NEW w \in Writer, NEW n \in Name, DeleteAttributionAlias(w, n)
    PROVE  AttributionInv'
<1> DEFINE t == [IdleWriter EXCEPT !.drops = {n}]
           u == [t EXCEPT !.pc = "commit"]
<1>1. EditBegins(w) /\ Opens(w, t)
  BY DEF DeleteAttributionAlias
<1>2. t \in WriterState /\ u.pc = "commit" /\ u.by = "manual" /\ u.puts = {}
  BY DEF IdleWriter, WriterState
<1>3. MovesAll(u)
  <2> HIDE DEF u
  <2> QED BY <1>2 DEF MovesAll, Keys
<1> HIDE DEF t
<1> QED BY <1>1, <1>2, <1>3, EditBeginsIsTyped, OpensKeeps

LEMMA OverrideKeeps ==
    ASSUME AttributionInv, NEW w \in Writer,
           DeleteDeviceOverride(w) \/ \E email \in Address : SetDeviceOverride(w, email)
    PROVE  AttributionInv'
<1>1. CASE DeleteDeviceOverride(w)
  <2> DEFINE t == [IdleWriter EXCEPT !.by = "override"]
             u == [t EXCEPT !.pc = "commit"]
  <2>1. EditBegins(w) /\ Opens(w, t)
    BY <1>1 DEF DeleteDeviceOverride
  <2>2. t \in WriterState /\ u.pc = "commit" /\ u.puts = {} /\ u.rows = {}
    BY DEF IdleWriter, WriterState
  <2>3. MovesAll(u)
    <3> HIDE DEF u
    <3> QED BY <2>2 DEF MovesAll, Keys
  <2> HIDE DEF t
  <2> QED BY <2>1, <2>2, <2>3, EditBeginsIsTyped, OpensKeeps
<1>2. ASSUME NEW email \in Address, SetDeviceOverride(w, email) PROVE AttributionInv'
  <2> DEFINE jobs == {j \in PrintJob : logged[j].pc = "logged" /\ logged[j].mac}
             rows == {<<email, email>>}
             renamed == jobs \X {email}
             t == [IdleWriter EXCEPT !.by = "override", !.rows = rows, !.moves = renamed]
             u == [t EXCEPT !.pc = "commit"]
  <2>1. EditBegins(w) /\ Opens(w, t)
    BY <1>2 DEF SetDeviceOverride
  <2>2. rows \in SUBSET (Name \X Address) /\ renamed \in SUBSET (PrintJob \X Address)
    BY DEF Name
  <2>3. ASSUME NEW j \in jobs PROVE j \in Keys(renamed)
    <3>1. <<j, email>> \in renamed /\ <<j, email>>[1] = j
      OBVIOUS
    <3> HIDE DEF renamed
    <3> QED BY <3>1 DEF Keys
  <2> HIDE DEF rows, renamed
  <2>4. t \in WriterState /\ u.pc = "commit" /\ u.puts = {} /\ u.moves = renamed
    BY <2>2 DEF IdleWriter, WriterState
  <2>5. MovesAll(u)
    <3> HIDE DEF u
    <3> QED BY <2>3, <2>4 DEF MovesAll, Keys
  <2> HIDE DEF t
  <2> QED BY <2>1, <2>4, <2>5, EditBeginsIsTyped, OpensKeeps
<1> QED BY <1>1, <1>2

-----------------------------------------------------------------------------
(* A commit.                                                               *)

\* What a commit writes is typed, and it moves a job or leaves it as it was,
\* late if it was about to be logged.
LEMMA CommitWrites ==
    ASSUME AttributionInv, NEW w \in Writer, CommitWriter(w)
    PROVE  /\ AttributionTypeOK'
           /\ \A n \in Name : aliases[n] = NoAlias /\ n \notin Keys(writer[w].puts)
                              => aliases'[n] = NoAlias
           /\ \A j \in PrintJob :
                 /\ logged'[j].pc = logged[j].pc /\ logged'[j].mac = logged[j].mac
                 /\ logged[j].late => logged'[j].late
                 /\ logged'[j].method \in {"alias", "override"} \/
                    /\ j \notin Keys(writer[w].moves)
                    /\ logged'[j].user = logged[j].user
                    /\ logged'[j].method = logged[j].method
                    /\ logged[j].pc = "resolved" => logged'[j].late
<1> DEFINE t == writer[w]
           by == IF t.by = "override" THEN "override" ELSE "alias"
           moved(j) == [logged[j] EXCEPT !.user = (CHOOSE m \in t.moves : m[1] = j)[2],
                                         !.method = by]
           left(j) == [logged[j] EXCEPT !.late = @ \/ logged[j].pc = "resolved"]
<1>0. /\ t \in WriterState /\ writer \in [Writer -> WriterState]
      /\ logged \in [PrintJob -> Attributed] /\ override \in Address \cup {NoName}
      /\ aliases \in [Name -> AliasRow \cup {NoAlias}] /\ roster \subseteq Address
      /\ MovesAll(t) /\ t.pc = "commit"
  BY DEF AttributionInv, AttributionTypeOK, WritersMoveAll, CommitWriter
<1>1. /\ t.moves \in SUBSET (PrintJob \X Address) /\ t.puts \in SUBSET (Name \X Address)
      /\ t.rows \in SUBSET (Name \X Address) /\ t.roster \in SUBSET Address
      /\ t.by \in {"manual", "sync", "override"}
  BY <1>0 DEF WriterState
<1>2. /\ logged' = [j \in PrintJob |-> IF j \in Keys(t.moves) THEN moved(j) ELSE left(j)]
      /\ aliases' = [n \in Name |->
             IF n \in Keys(t.puts)
             THEN [email |-> (CHOOSE r \in t.puts : r[1] = n)[2], by |-> t.by]
             ELSE IF n \in t.drops THEN NoAlias ELSE aliases[n]]
      /\ roster' = IF t.by = "sync" THEN t.roster ELSE roster
      /\ override' = IF t.by = "override"
                     THEN IF t.rows = {} THEN NoName ELSE (CHOOSE r \in t.rows : TRUE)[2]
                     ELSE override
      /\ writer' = [writer EXCEPT ![w] = IdleWriter]
      /\ UNCHANGED <<directory, directories, edits>>
  BY DEF CommitWriter
<1>3. ASSUME NEW j \in PrintJob, j \in Keys(t.moves)
      PROVE  /\ moved(j) \in Attributed /\ moved(j).pc = logged[j].pc
             /\ moved(j).mac = logged[j].mac /\ moved(j).late = logged[j].late
             /\ moved(j).method \in {"alias", "override"}
  <2>1. \E m \in t.moves : m[1] = j
    BY <1>3 DEF Keys
  <2>2. (CHOOSE m \in t.moves : m[1] = j) \in t.moves
    BY <2>1
  <2>3. (CHOOSE m \in t.moves : m[1] = j)[2] \in Name \cup {NoName}
    BY <1>1, <2>2 DEF Name
  <2>4. by \in {"alias", "override"} /\ logged[j] \in Attributed
    BY <1>0
  <2> HIDE DEF by
  <2> QED BY <2>3, <2>4 DEF Attributed
<1>4. ASSUME NEW j \in PrintJob
      PROVE  /\ left(j) \in Attributed /\ left(j).pc = logged[j].pc
             /\ left(j).user = logged[j].user /\ left(j).method = logged[j].method
             /\ left(j).mac = logged[j].mac
             /\ left(j).late = (logged[j].late \/ logged[j].pc = "resolved")
  <2>1. logged[j] \in Attributed
    BY <1>0
  <2> QED BY <2>1 DEF Attributed
<1>5. ASSUME NEW n \in Name
      PROVE  /\ aliases'[n] \in AliasRow \cup {NoAlias}
             /\ aliases[n] = NoAlias /\ n \notin Keys(t.puts) => aliases'[n] = NoAlias
  <2>1. CASE n \in Keys(t.puts)
    <3>1. \E r \in t.puts : r[1] = n
      BY <2>1 DEF Keys
    <3>2. (CHOOSE r \in t.puts : r[1] = n) \in t.puts
      BY <3>1
    <3>3. (CHOOSE r \in t.puts : r[1] = n)[2] \in Address
      BY <1>1, <3>2
    <3>4. t.by \in {"manual", "sync"}
      BY <1>0, <1>1, <2>1 DEF MovesAll, Keys
    <3> QED BY <1>2, <2>1, <3>3, <3>4 DEF AliasRow
  <2>2. CASE n \notin Keys(t.puts)
    BY <1>0, <1>2, <2>2
  <2> QED BY <2>1, <2>2
<1>6. override' \in Address \cup {NoName}
  <2>1. CASE t.by = "override" /\ t.rows # {}
    <3>1. (CHOOSE r \in t.rows : TRUE) \in t.rows
      BY <2>1
    <3>2. (CHOOSE r \in t.rows : TRUE)[2] \in Address
      BY <1>1, <3>1
    <3> QED BY <1>2, <2>1, <3>2
  <2>2. CASE ~(t.by = "override" /\ t.rows # {})
    BY <1>0, <1>2, <2>2
  <2> QED BY <2>1, <2>2
<1>7. logged' \in [PrintJob -> Attributed]
  <2> HIDE DEF moved, left
  <2> QED BY <1>2, <1>3, <1>4
<1>8. aliases' \in [Name -> AliasRow \cup {NoAlias}]
  <2> DEFINE f(n) == IF n \in Keys(t.puts)
                     THEN [email |-> (CHOOSE r \in t.puts : r[1] = n)[2], by |-> t.by]
                     ELSE IF n \in t.drops THEN NoAlias ELSE aliases[n]
  <2>1. aliases' = [n \in Name |-> f(n)]
    BY <1>2
  <2> HIDE DEF f
  <2> QED BY <1>5, <2>1
<1>9. roster' \subseteq Address /\ writer' \in [Writer -> WriterState]
  BY <1>0, <1>1, <1>2, IdleWriterIsWriter
<1>10. AttributionTypeOK'
  BY <1>2, <1>6, <1>7, <1>8, <1>9 DEF AttributionInv, AttributionTypeOK
<1>11. ASSUME NEW j \in PrintJob
       PROVE  /\ logged'[j].pc = logged[j].pc /\ logged'[j].mac = logged[j].mac
              /\ logged[j].late => logged'[j].late
              /\ logged'[j].method \in {"alias", "override"} \/
                 /\ j \notin Keys(t.moves)
                 /\ logged'[j].user = logged[j].user
                 /\ logged'[j].method = logged[j].method
                 /\ logged[j].pc = "resolved" => logged'[j].late
  <2>1. CASE j \in Keys(t.moves)
    <3> HIDE DEF moved, left, t
    <3>1. logged'[j] = moved(j)
      BY <1>2, <2>1
    <3> QED BY <1>3, <2>1, <3>1
  <2>2. CASE j \notin Keys(t.moves)
    <3> HIDE DEF moved, left, t
    <3>1. logged'[j] = left(j)
      BY <1>2, <2>2
    <3> QED BY <1>4, <2>2, <3>1
  <2> QED BY <2>1, <2>2
<1> QED
  BY <1>5, <1>10, <1>11

LEMMA CommitWriterKeeps ==
    ASSUME AttributionInv, NEW w \in Writer, CommitWriter(w) PROVE AttributionInv'
<1> DEFINE t == writer[w]
<1>1. /\ MovesAll(t) /\ t.pc = "commit" /\ writer \in [Writer -> WriterState]
      /\ writer' = [writer EXCEPT ![w] = IdleWriter]
      /\ override' # NoName => override' = override \/ (t.by = "override" /\ t.rows # {})
  <2>1. MovesAll(t) /\ writer \in [Writer -> WriterState]
    BY DEF AttributionInv, AttributionTypeOK, WritersMoveAll
  <2>2. /\ t.pc = "commit" /\ writer' = [writer EXCEPT ![w] = IdleWriter]
        /\ override' = IF t.by = "override"
                       THEN IF t.rows = {} THEN NoName ELSE (CHOOSE r \in t.rows : TRUE)[2]
                       ELSE override
    BY DEF CommitWriter
  <2> QED BY <2>1, <2>2
<1>2. ResolvedAsKnown'
  <2> SUFFICES ASSUME NEW j \in PrintJob, logged'[j].pc # "none", ~logged'[j].late
               PROVE  /\ logged'[j].method = "cups" =>
                            /\ logged'[j].user \in Name
                            /\ aliases'[logged'[j].user] = NoAlias
                      /\ logged'[j].mac /\ override' # NoName =>
                            logged'[j].method \in {"override", "alias"}
    BY DEF ResolvedAsKnown
  <2>1. CASE logged'[j].method \in {"alias", "override"}
    BY <2>1
  <2>2. CASE /\ j \notin Keys(t.moves)
             /\ logged'[j].user = logged[j].user
             /\ logged'[j].method = logged[j].method
             /\ logged[j].pc = "resolved" => logged'[j].late
    <3>1. /\ logged[j].pc # "none" /\ logged[j].pc # "resolved" /\ ~logged[j].late
          /\ logged'[j].mac = logged[j].mac
      BY <2>2, CommitWrites
    <3>2. logged[j].pc = "logged"
      BY <3>1 DEF AttributionInv, AttributionTypeOK, Attributed
    <3>3. ASSUME logged[j].method = "cups"
          PROVE  logged[j].user \in Name /\ aliases'[logged[j].user] = NoAlias
      <4>1. logged[j].user \in Name /\ aliases[logged[j].user] = NoAlias
        BY <3>1, <3>3 DEF AttributionInv, ResolvedAsKnown
      <4>2. logged[j].user \notin Keys(t.puts)
        BY <1>1, <2>2, <3>1, <3>2, <3>3 DEF MovesAll, LoggedAs
      <4> HIDE DEF t
      <4> QED BY <4>1, <4>2, CommitWrites DEF t
    <3>4. ASSUME logged[j].mac, override' # NoName
          PROVE  logged[j].method \in {"override", "alias"}
      <4>1. ~(t.by = "override" /\ t.rows # {})
        BY <1>1, <2>2, <3>1, <3>2, <3>4 DEF MovesAll
      <4> QED BY <1>1, <3>1, <3>4, <4>1 DEF AttributionInv, ResolvedAsKnown
    <3> QED BY <2>2, <3>1, <3>3, <3>4
  <2> QED BY <2>1, <2>2, CommitWrites
<1>3. ASSUME NEW k, NEW j \in PrintJob, LoggedAs(j, k)' PROVE LoggedAs(j, k)
  <2>1. /\ logged'[j].pc = "logged" /\ ~logged'[j].late /\ logged'[j].method = "cups"
        /\ logged'[j].user = k
    BY <1>3 DEF LoggedAs
  <2> QED BY <2>1, CommitWrites DEF LoggedAs
<1>4. ASSUME NEW v \in Writer PROVE MovesAll(writer[v])'
  <2>1. MovesAll(writer'[v])
    BY <1>1, IdleMovesAll DEF AttributionInv, WritersMoveAll
  <2>2. ASSUME NEW j \in PrintJob
        PROVE  /\ logged'[j].pc = logged[j].pc /\ logged'[j].mac = logged[j].mac
               /\ logged[j].late => logged'[j].late
    BY CommitWrites
  <2> QED BY <1>3, <2>1, <2>2 DEF MovesAll
<1> QED
  BY <1>2, <1>4, CommitWrites DEF AttributionInv, WritersMoveAll

-----------------------------------------------------------------------------

LEMMA DirectoryKeeps ==
    ASSUME AttributionInv, DirectoryChanges PROVE AttributionInv'
<1>1. UNCHANGED <<roster, aliases, override, logged, writer, edits>>
  BY DEF DirectoryChanges
<1>2. directories' \in 0..MaxDirectories
  BY AttributionAssumption DEF DirectoryChanges, AttributionInv, AttributionTypeOK
<1>3. directory' \in Directory
  <2>1. PICK people \in SUBSET Address, claims \in SUBSET (Name \X Address) :
            directory' = [roster |-> people, claims |-> claims]
    BY DEF DirectoryChanges
  <2> QED BY <2>1 DEF Directory
<1>4. AttributionTypeOK'
  BY <1>1, <1>2, <1>3 DEF AttributionInv, AttributionTypeOK
<1>5. ResolvedAsKnown'
  BY <1>1 DEF AttributionInv, ResolvedAsKnown
<1>6. WritersMoveAll'
  BY <1>1 DEF AttributionInv, WritersMoveAll, MovesAll, LoggedAs
<1> QED
  BY <1>4, <1>5, <1>6 DEF AttributionInv

LEMMA AttributionIsKept == AttributionInv /\ [AttributionNext]_attributionVars => AttributionInv'
<1> SUFFICES ASSUME AttributionInv, [AttributionNext]_attributionVars PROVE AttributionInv'
  OBVIOUS
<1>1. ASSUME NEW j \in PrintJob, LogJob(j) \/ \E n \in Name \cup {NoName} : ResolveUser(j, n)
      PROVE  AttributionInv'
  BY <1>1, LogKeeps, ResolveKeeps
<1>2. ASSUME NEW w \in Writer, ListUsers(w) \/ ReadAliases(w) \/ ReplaceAliases(w)
      PROVE  AttributionInv'
  BY <1>2, SyncKeeps
<1>3. ASSUME NEW w \in Writer, CommitWriter(w) PROVE AttributionInv'
  BY <1>3, CommitWriterKeeps
<1>4. ASSUME NEW w \in Writer, WriterFails(w) PROVE AttributionInv'
  BY <1>4, FailureKeeps
<1>5. ASSUME NEW w \in Writer,
             DeleteDeviceOverride(w) \/ \E email \in Address : SetDeviceOverride(w, email)
      PROVE  AttributionInv'
  BY <1>5, OverrideKeeps
<1>6. ASSUME NEW w \in Writer, NEW n \in Name,
             \/ DeleteAttributionAlias(w, n)
             \/ \E email \in Address : CreateAttributionAlias(w, n, email)
      PROVE  AttributionInv'
  BY <1>6, CreateKeeps, DeleteKeeps
<1>7. CASE DirectoryChanges
  BY <1>7, DirectoryKeeps
<1>8. CASE UNCHANGED attributionVars
  <2>1. UNCHANGED <<directory, directories, roster, aliases, override, logged, writer, edits>>
    BY <1>8 DEF attributionVars
  <2> QED BY <2>1 DEF AttributionInv, AttributionTypeOK, ResolvedAsKnown, WritersMoveAll,
                      MovesAll, LoggedAs
<1> QED
  BY <1>1, <1>2, <1>3, <1>4, <1>5, <1>6, <1>7, <1>8 DEF AttributionNext

\* Jobs are resolved as the tables say, and whoever writes the tables has found
\* every job that the change is about (resolve_user, create_attribution_alias,
\* set_device_override, _refresh_google_sourced_aliases).
THEOREM AttributionInvHolds == AttributionSpec => []AttributionInv
  BY NobodyLogged, AttributionIsKept, PTL DEF AttributionSpec

\* No job is left behind under a name that an alias, or the override of its
\* device, has since given to somebody: the sync that replaces all aliases but
\* looks for jobs under new ones only leaves none (sync_users, create_job).
THEOREM NobodyIsLeftBehind == AttributionSpec => []NoJobLeftBehind
<1>1. AttributionInv => NoJobLeftBehind
  BY DEF AttributionInv, ResolvedAsKnown, NoJobLeftBehind
<1> QED BY <1>1, AttributionInvHolds, PTL
===============================================================================
