----------------------------- MODULE CopierUsage -----------------------------
(***************************************************************************)
(* What people copied, from the counters of one copier's accounts          *)
(* (copiers/account_counters.py).  The copier only knows running totals;   *)
(* a poll charges the difference to the reading before it.                 *)
(*                                                                         *)
(* The loop and the poll-counters endpoint poll alike.  A poll fixes its   *)
(* time first, waits for the copier's admin session, which the user sync   *)
(* may hold for minutes, reads, and only then looks at the database.       *)
(*                                                                         *)
(* Each account has one counter here: copy, scan and fax are subtracted    *)
(* and charged alike, print is not charged.                                *)
(***************************************************************************)
EXTENDS Integers, FiniteSetsExt

CONSTANTS
    Account,       \* account numbers of the copier
    MaxPages,      \* bound: pages made on one account
    NumPolls,      \* bound: polls
    MaxByHand      \* bound: what is done to accounts at the copier itself

ASSUME CopierUsageAssumption == {MaxPages, NumPolls, MaxByHand} \subseteq Nat

VARIABLES
    counter,      \* the copier: the total of each account, Absent if there is none
    recorded,     \* accounts with a copier_provisioned_accounts row
    readings,     \* the readings that are not superseded
    provisioning, \* the user sync: the accounts it has added, while it runs
    poll,         \* what each poll has found out
    byHand,
    made,         \* history: pages made on each account
    charged,      \* history: pages in the usage records of each account, where
                  \* all that is beyond MaxPages is the same
    inexact,      \* history: accounts with pages that no poll can know of
    overlapped    \* history: two polls have been at work on what they read

copierUsageVars == <<counter, recorded, readings, provisioning, poll,
                     byHand, made, charged, inexact, overlapped>>

Absent == -1

Pages == 0..MaxPages

Poll == 1..NumPolls

Reading == [poll: Poll, account: Account, pages: Pages]

\* owners: accounts with a holder at the time of the poll.
PollState == [pc: {"new", "wait", "rows", "commit", "over"}, owners: SUBSET Account,
         seen: [Account -> Pages \cup {Absent}], previous: SUBSET Reading]

NewPoll == [pc |-> "new", owners |-> {}, seen |-> [n \in Account |-> Absent],
            previous |-> {}]

Over(p) == [poll EXCEPT ![p] = [NewPoll EXCEPT !.pc = "over"]]

CopierUsageTypeOK ==
    /\ counter \in [Account -> Pages \cup {Absent}]
    /\ recorded \subseteq Account
    /\ readings \subseteq Reading
    /\ provisioning \in [on: BOOLEAN, added: SUBSET Account]
    /\ poll \in [Poll -> PollState]
    /\ byHand \in 0..MaxByHand
    /\ made \in [Account -> Pages]
    /\ charged \in [Account -> 0..(MaxPages + 1)]
    /\ inexact \subseteq Account
    /\ overlapped \in BOOLEAN

CopierUsageInit ==
    /\ counter = [n \in Account |-> Absent]
    /\ recorded = {} /\ readings = {}
    /\ provisioning = [on |-> FALSE, added |-> {}]
    /\ poll = [p \in Poll |-> NewPoll]
    /\ byHand = 0
    /\ made = [n \in Account |-> 0]
    /\ charged = [n \in Account |-> 0]
    /\ inexact = {} /\ overlapped = FALSE

-----------------------------------------------------------------------------
(* A poll (poll_account_counters).                                         *)

\* _owner_map: a record made later than the poll's time does not count.
StartCounterPoll(p) ==
    /\ poll[p].pc = "new" /\ \A q \in 1..(p - 1) : poll[q].pc # "new"
    /\ poll' = [poll EXCEPT ![p].pc = "wait", ![p].owners = recorded]
    /\ UNCHANGED <<counter, recorded, readings, provisioning, byHand, made, charged,
                   inexact, overlapped>>

AtWork(p) == poll[p].pc \in {"rows", "commit"}

ReadAccountCounters(p) ==
    /\ poll[p].pc = "wait" /\ ~provisioning.on
    /\ poll' = [poll EXCEPT ![p].pc = "rows", ![p].seen = counter]
    /\ overlapped' = (overlapped \/ \E q \in Poll : AtWork(q))
    /\ UNCHANGED <<counter, recorded, readings, provisioning, byHand, made, charged, inexact>>

\* One current reading of each account: which, if there are more, is chance.
ReadReadings(p) ==
    /\ poll[p].pc = "rows"
    /\ \E previous \in SUBSET readings :
           /\ \A n \in Account : (\E r \in readings : r.account = n) =>
                  Cardinality({r \in previous : r.account = n}) = 1
           /\ poll' = [poll EXCEPT ![p].pc = "commit", ![p].previous = previous]
    /\ UNCHANGED <<counter, recorded, readings, provisioning, byHand, made, charged,
                   inexact, overlapped>>

\* A counter that went down was cleared: all of it is new.
DiffCounters(before, now) == IF now < before THEN now ELSE now - before

SeenAccounts(p) == {n \in Account : poll[p].seen[n] # Absent}

Previous(p, n) == {r \in poll[p].previous : r.account = n}

\* A first reading is charged if PrintOps made the account, and is only a
\* baseline otherwise.
UsagePages(p, n) ==
    LET now == poll[p].seen[n]
    IN IF n \notin SeenAccounts(p) THEN 0
       ELSE IF Previous(p, n) = {} THEN IF n \in poll[p].owners THEN now ELSE 0
       ELSE DiffCounters((CHOOSE r \in Previous(p, n) : TRUE).pages, now)

Replaced(p) == {r \in poll[p].previous :
                   r.account \in SeenAccounts(p) /\ r.pages # poll[p].seen[r.account]}

NewlyRead(p) ==
    {n \in SeenAccounts(p) : Previous(p, n) = {} \/ Previous(p, n) \subseteq Replaced(p)}

Charges(p) ==
    /\ charged' = [n \in Account |-> Min({charged[n] + UsagePages(p, n), MaxPages + 1})]
    /\ inexact' = inexact \cup {n \in NewlyRead(p) : Previous(p, n) = {} /\ n \notin poll[p].owners}
    /\ poll' = Over(p)
    /\ UNCHANGED <<counter, recorded, provisioning, byHand, made, overlapped>>

NewReadings(p) ==
    {[poll |-> p, account |-> n, pages |-> poll[p].seen[n]] : n \in NewlyRead(p)}

\* Fault: what was read before stays current.
CommitBesides(p) ==
    /\ poll[p].pc = "commit"
    /\ readings' = readings \cup NewReadings(p)
    /\ Charges(p)

CommitPoll(p) ==
    /\ poll[p].pc = "commit"
    /\ readings' = (readings \ Replaced(p)) \cup NewReadings(p)
    /\ Charges(p)

\* The copier does not answer, somebody is logged in to it, or the database
\* fails: nothing is written but the message.
PollFails(p) ==
    /\ poll[p].pc \in {"wait", "rows", "commit"}
    /\ poll' = Over(p)
    /\ UNCHANGED <<counter, recorded, readings, provisioning, byHand, made, charged,
                   inexact, overlapped>>

-----------------------------------------------------------------------------
(* The user sync, and the copier.                                          *)

\* A sync with nobody to add changes nothing.
ProvisioningStarts ==
    /\ ~provisioning.on /\ provisioning.added = {} /\ \E n \in Account : counter[n] = Absent
    /\ provisioning' = [on |-> TRUE, added |-> {}]
    /\ UNCHANGED <<counter, recorded, readings, poll, byHand, made, charged, inexact, overlapped>>

ProvisionAccount(n) ==
    /\ provisioning.on /\ counter[n] = Absent
    /\ counter' = [counter EXCEPT ![n] = 0]
    /\ provisioning' = [provisioning EXCEPT !.added = @ \cup {n}]
    /\ UNCHANGED <<recorded, readings, poll, byHand, made, charged, inexact, overlapped>>

\* The session is given up first, and the accounts are recorded after it.
ProvisioningEnds ==
    /\ provisioning.on
    /\ provisioning' = [provisioning EXCEPT !.on = FALSE]
    /\ UNCHANGED <<counter, recorded, readings, poll, byHand, made, charged, inexact, overlapped>>

RecordAccounts ==
    /\ ~provisioning.on /\ provisioning.added # {}
    /\ recorded' = recorded \cup provisioning.added
    /\ provisioning' = [provisioning EXCEPT !.added = {}]
    /\ UNCHANGED <<counter, readings, poll, byHand, made, charged, inexact, overlapped>>

PageMade(n) ==
    /\ counter[n] # Absent /\ made[n] < MaxPages
    /\ counter' = [counter EXCEPT ![n] = @ + 1]
    /\ made' = [made EXCEPT ![n] = @ + 1]
    /\ UNCHANGED <<recorded, readings, provisioning, poll, byHand, charged, inexact, overlapped>>

AtTheCopier(n, total) ==
    /\ byHand < MaxByHand /\ byHand' = byHand + 1
    /\ counter' = [counter EXCEPT ![n] = total]
    /\ inexact' = inexact \cup {n}
    /\ UNCHANGED <<recorded, readings, provisioning, poll, made, charged, overlapped>>

AccountEntered(n) == counter[n] = Absent /\ AtTheCopier(n, 0)

CounterCleared(n) == counter[n] # Absent /\ AtTheCopier(n, 0)

\* The next sync may give its number to somebody else.
AccountDeleted(n) == counter[n] # Absent /\ AtTheCopier(n, Absent)

CopierUsageNext ==
    \/ \E p \in Poll : \/ StartCounterPoll(p) \/ ReadAccountCounters(p)
                         \/ ReadReadings(p) \/ CommitPoll(p) \/ PollFails(p)
    \/ ProvisioningStarts \/ ProvisioningEnds \/ RecordAccounts
    \/ \E n \in Account : \/ ProvisionAccount(n) \/ PageMade(n)
                          \/ AccountEntered(n) \/ CounterCleared(n) \/ AccountDeleted(n)

CopierUsageSpec == CopierUsageInit /\ [][CopierUsageNext]_copierUsageVars

-----------------------------------------------------------------------------
(* Properties.                                                             *)

\* What is charged was copied, and what was copied is charged.  However polls
\* fail or overlap, and whenever the copier's session was waited for, the pages
\* that were read on an account that PrintOps made, had on record when its first
\* poll began, and that nobody cleared, are charged; and no account is charged
\* for more than was made on it, also when it was cleared or its number given to
\* somebody else, unless two polls were at work on their readings at once.
ChargesAreTrue ==
    \A n \in Account :
        /\ n \notin inexact => \A r \in readings : r.account = n => charged[n] >= r.pages
        /\ ~overlapped => charged[n] <= made[n]
=============================================================================
