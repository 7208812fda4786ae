------------------------------ MODULE QueueSync ------------------------------
(***************************************************************************)
(* The address of a printer, and the CUPS queues built from it             *)
(* (routers/printers.py, printers/queue_sync.py, printers/discovery.py).   *)
(*                                                                         *)
(* A request or a loop works on the row it loaded and commits what it      *)
(* changed.  The script that builds the queues asks the API for the        *)
(* address, which tells it what is committed by then.                      *)
(*                                                                         *)
(* Not here: an archived or a virtual printer, and the process dying       *)
(* between a commit and its sync.                                          *)
(***************************************************************************)
EXTENDS Naturals

CONSTANTS
    SyncSession,    \* requests and loops at work on this printer
    DeviceAddress,  \* port, scheme and path it may be reached by
    MaxMoves        \* bound: moves of the device, and edits

ASSUME QueueSyncAssumption == MaxMoves \in Nat

VARIABLES
    serving,      \* the address the device answers at
    connection,   \* its row
    queue,        \* the address the release queue sends to
    sync,         \* what each session is doing
    autoLock,     \* _AUTO_RESYNC_LOCK: who holds it
    moves,
    crossed,      \* history: a sync was recorded while another was on its way
    adopted       \* history: a loop gave the row an address that it discovered

queueSyncVars == <<serving, connection, queue, sync, autoLock, moves, crossed, adopted>>

NoSession == "nobody"
NoDeviceAddress == "none"

\* error: queue_sync_error.
Connection == [address: DeviceAddress, error: BOOLEAN]

\* read: what the script was told.  record: the sync's outcome is to be committed.
SyncSessionState ==
    [pc: {"idle", "discover", "gate", "script", "build", "record", "commit"},
     loaded: Connection, row: Connection, read: DeviceAddress \cup {NoDeviceAddress}]

Loaded(pc, row) == [pc |-> pc, loaded |-> connection, row |-> row, read |-> NoDeviceAddress]

NoConnection == CHOOSE c \in Connection : TRUE

IdleSync == [pc |-> "idle", loaded |-> NoConnection, row |-> NoConnection,
             read |-> NoDeviceAddress]

QueueSyncTypeOK ==
    /\ serving \in DeviceAddress
    /\ connection \in Connection
    /\ queue \in DeviceAddress
    /\ sync \in [SyncSession -> SyncSessionState]
    /\ autoLock \in SyncSession \cup {NoSession}
    /\ moves \in 0..MaxMoves
    /\ crossed \in BOOLEAN /\ adopted \in BOOLEAN

\* A printer that was created, discovered and synced.
QueueSyncInit ==
    /\ serving \in DeviceAddress
    /\ connection = [address |-> serving, error |-> FALSE]
    /\ queue = serving
    /\ sync = [s \in SyncSession |-> IdleSync]
    /\ autoLock = NoSession
    /\ moves = 0 /\ crossed = FALSE /\ adopted = FALSE

-----------------------------------------------------------------------------
(* The loops.                                                              *)

\* The printer is found back, or not (PrinterStatus.tla has what the row says of
\* it).  A device that only wants TLS by now may still answer at its old address.
CheckStatus(s) ==
    /\ sync[s].pc = "idle"
    /\ \E pc \in {"discover", "commit"} :
           sync' = [sync EXCEPT ![s] = Loaded(pc, connection)]
    /\ UNCHANGED <<serving, connection, queue, autoLock, moves, crossed, adopted>>

\* The half-hourly rediscovery, of every printer.
Rediscover(s) ==
    /\ sync[s].pc = "idle"
    /\ sync' = [sync EXCEPT ![s] = Loaded("discover", connection)]
    /\ UNCHANGED <<serving, connection, queue, autoLock, moves, crossed, adopted>>

\* A device that moved says where to, and its word is taken when it answers there.
\* The rediscovery goes on to a sync only if the capabilities changed.
DiscoverAutomatically(s) ==
    /\ sync[s].pc = "discover"
    /\ \E address \in {sync[s].row.address, serving}, pc \in {"gate", "commit"} :
           /\ sync' = [sync EXCEPT ![s].pc = pc, ![s].row.address = address]
           /\ adopted' = (adopted \/ address # sync[s].loaded.address)
    /\ UNCHANGED <<serving, connection, queue, autoLock, moves, crossed>>

\* Not due, no room at the scheduler, or a queue that has or may have work on it.
SkipAutomaticSync(s) ==
    /\ sync[s].pc = "gate"
    /\ sync' = [sync EXCEPT ![s].pc = "commit"]
    /\ UNCHANGED <<serving, connection, queue, autoLock, moves, crossed, adopted>>

RunAutomaticSync(s) ==
    /\ sync[s].pc = "gate" /\ autoLock = NoSession
    /\ sync' = [sync EXCEPT ![s].pc = "script"]
    /\ autoLock' = s
    /\ UNCHANGED <<serving, connection, queue, moves, crossed, adopted>>

-----------------------------------------------------------------------------
(* The script.                                                             *)

ReadConnection(s) ==
    /\ sync[s].pc = "script"
    /\ sync' = [sync EXCEPT ![s].pc = "build", ![s].read = connection.address]
    /\ UNCHANGED <<serving, connection, queue, autoLock, moves, crossed, adopted>>

Finished(s, error) ==
    /\ sync' = [sync EXCEPT ![s].pc = "record", ![s].row.error = error, ![s].read = NoDeviceAddress]
    /\ autoLock' = IF autoLock = s THEN NoSession ELSE autoLock
    /\ UNCHANGED <<serving, connection, moves, crossed, adopted>>

BuildQueue(s) ==
    /\ sync[s].pc = "build"
    /\ queue' = sync[s].read
    /\ Finished(s, FALSE)

\* Also after lpadmin has run.
SyncFails(s) ==
    /\ sync[s].pc = "build"
    /\ queue' \in {queue, sync[s].read}
    /\ Finished(s, TRUE)

OnTheWay(s) == sync[s].pc \in {"discover", "gate", "script", "build", "record"}

\* What is the same as was loaded is not written, an error included.
CommitSync(s) ==
    LET seen == sync[s]
        written(f) == IF seen.row[f] # seen.loaded[f] THEN seen.row[f] ELSE connection[f]
    IN /\ seen.pc \in {"commit", "record"}
       /\ connection' = [f \in {"address", "error"} |-> written(f)]
       /\ sync' = [sync EXCEPT ![s] = IdleSync]
       /\ crossed' = (crossed \/ (seen.pc = "record" /\ \E t \in SyncSession \ {s} : OnTheWay(t)))
       /\ UNCHANGED <<serving, queue, autoLock, moves, adopted>>

-----------------------------------------------------------------------------
(* Requests.                                                               *)

Edited(s, address) ==
    [Loaded("script", connection) EXCEPT !.row.address = address,
                                                 !.loaded.address = address]

\* Fault: the commit comes after the sync.
EditThenCommit(s, address) ==
    /\ sync[s].pc = "idle" /\ moves < MaxMoves /\ moves' = moves + 1
    /\ sync' = [sync EXCEPT ![s] = [Loaded("script", connection) EXCEPT
                                       !.row.address = address]]
    /\ UNCHANGED <<serving, connection, queue, autoLock, crossed, adopted>>

\* "Must run after the printer is already committed."  An administrator names an
\* address.
EditPrinter(s, address) ==
    /\ sync[s].pc = "idle" /\ moves < MaxMoves /\ moves' = moves + 1
    /\ connection' = [connection EXCEPT !.address = address]
    /\ sync' = [sync EXCEPT ![s] = Edited(s, address)]
    /\ UNCHANGED <<serving, queue, autoLock, crossed, adopted>>

\* Synced only if the address is another one.
DiscoverPrinter(s) ==
    /\ sync[s].pc = "idle" /\ serving # connection.address
    /\ connection' = [connection EXCEPT !.address = serving]
    /\ sync' = [sync EXCEPT ![s] = Edited(s, serving)]
    /\ UNCHANGED <<serving, queue, autoLock, moves, crossed, adopted>>

\* An administrator takes the address the device named, which is probed and has
\* answered; the sync follows whether or not it is another one.
ConfirmRedirect(s) ==
    /\ sync[s].pc = "idle"
    /\ connection' = [connection EXCEPT !.address = serving]
    /\ sync' = [sync EXCEPT ![s] = Edited(s, serving)]
    /\ UNCHANGED <<serving, queue, autoLock, moves, crossed, adopted>>

ResyncQueue(s) ==
    /\ sync[s].pc = "idle"
    /\ sync' = [sync EXCEPT ![s] = Loaded("script", connection)]
    /\ UNCHANGED <<serving, connection, queue, autoLock, moves, crossed, adopted>>

DeviceMoves(address) ==
    /\ serving # address /\ moves < MaxMoves /\ moves' = moves + 1
    /\ serving' = address
    /\ UNCHANGED <<connection, queue, sync, autoLock, crossed, adopted>>

QueueSyncNext ==
    \/ \E s \in SyncSession :
           \/ CheckStatus(s) \/ Rediscover(s) \/ DiscoverAutomatically(s)
           \/ SkipAutomaticSync(s) \/ RunAutomaticSync(s)
           \/ ReadConnection(s) \/ BuildQueue(s) \/ SyncFails(s) \/ CommitSync(s)
           \/ DiscoverPrinter(s) \/ ConfirmRedirect(s) \/ ResyncQueue(s)
           \/ \E address \in DeviceAddress : EditPrinter(s, address)
    \/ \E address \in DeviceAddress : DeviceMoves(address)

QueueSyncSpec == QueueSyncInit /\ [][QueueSyncNext]_queueSyncVars

-----------------------------------------------------------------------------
(* Properties.                                                             *)

AtRest == \A s \in SyncSession : sync[s].pc = "idle"

\* "None of that should require someone remembering to click Rediscover or Resync
\* Queue": when nobody is at work and no sync is said to have failed, the queue
\* sends to where the row says (refresh_printer_status_and_rediscover).
QueueFollowsRow == AtRest /\ ~crossed /\ ~connection.error => queue = connection.address

\* The same, while no loop has given the printer an address of its own accord: an
\* edit, a discovery or a resync that somebody asked for reaches the queue, with
\* failed syncs and with loops at work on the same row (_apply_queue_sync).
EditReachesQueue == ~adopted => QueueFollowsRow
=============================================================================
