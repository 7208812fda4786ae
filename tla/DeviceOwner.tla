----------------------------- MODULE DeviceOwner -----------------------------
(***************************************************************************)
(* A copier that nobody logs in to: its copies are credited to one person  *)
(* that an administrator names (copiers/device_owner.py), from the         *)
(* readings of the linked printer's copy meter, which are purged when they *)
(* are old.                                                                *)
(*                                                                         *)
(* The hourly loop, the attribute-copies endpoint and the endpoint that    *)
(* names an owner each load the device's row and commit later, and nothing *)
(* keeps two of them apart.  What they write is what they changed of the   *)
(* row they loaded.  The link to the printer does not change here.         *)
(***************************************************************************)
EXTENDS Integers, FiniteSetsExt

CONSTANTS
    OwnerSession,   \* the hourly loop and the requests
    Owner,          \* who may be named
    NoOwner,
    NumReadings,    \* bound: readings of the meter
    MaxCopies,      \* bound: copies made
    MaxResets       \* bound: meters reset or exchanged

ASSUME DeviceOwnerAssumption ==
    /\ NoOwner \notin Owner
    /\ {NumReadings, MaxCopies, MaxResets} \subseteq Nat

VARIABLES
    meter,        \* the copier: what its copy meter says
    meterReadings,\* the readings that are kept, by the time they were made
    read,         \* how many there have been
    mfp,          \* the device's row
    work,         \* what each session has loaded
    resets,
    copies,       \* history: copies made
    credited,     \* history: pages credited to the owner since the naming
    mark,         \* history: copies made by the last reading before the naming
    unseen        \* history: what a session had not seen, a naming or a run, and
                  \* overwrote, left or counted again since then

deviceOwnerVars == <<meter, meterReadings, read, mfp, work, resets, copies, credited,
                     mark, unseen>>

Copies == 0..MaxCopies

ReadingTime == 1..NumReadings

\* copies: history, how many there had been.
MeterReading == [at: ReadingTime, value: Copies, copies: Copies]

\* through: default_owner_attributed_through, 0 for none.
Mfp == [owner: Owner \cup {NoOwner}, through: 0..NumReadings]

\* name: the owner to be named.  missed: history, what others have committed
\* since the row was loaded.
Work == [pc: {"idle", "loaded", "attribute", "name"}, mfp: Mfp,
         readings: SUBSET MeterReading, name: Owner \cup {NoOwner},
         missed: SUBSET {"naming", "run"}]

Nameless == [owner |-> NoOwner, through |-> 0]

IdleWork == [pc |-> "idle", mfp |-> Nameless, readings |-> {}, name |-> NoOwner,
             missed |-> {}]

DeviceOwnerTypeOK ==
    /\ meter \in Copies
    /\ meterReadings \subseteq MeterReading
    /\ read \in 0..NumReadings
    /\ mfp \in Mfp
    /\ work \in [OwnerSession -> Work]
    /\ resets \in 0..MaxResets
    /\ {copies, mark} \subseteq Copies
    /\ credited \in Nat
    /\ unseen \subseteq {"naming", "run"}

DeviceOwnerInit ==
    /\ meter = 0 /\ meterReadings = {} /\ read = 0
    /\ mfp = Nameless
    /\ work = [s \in OwnerSession |-> IdleWork]
    /\ resets = 0 /\ copies = 0 /\ credited = 0 /\ mark = 0 /\ unseen = {}

-----------------------------------------------------------------------------
(* Readings and sessions.                                                  *)

NewestOf(S) == CHOOSE r \in S : \A q \in S : q.at <= r.at
OldestOf(S) == CHOOSE r \in S : \A q \in S : r.at <= q.at

\* The row as it is committed now.
LoadsRow(s, pc, name) ==
    /\ work[s].pc = "idle"
    /\ work' = [work EXCEPT ![s] = [IdleWork EXCEPT !.pc = pc, !.mfp = mfp, !.name = name]]
    /\ UNCHANGED <<meter, meterReadings, read, mfp, resets, copies, credited, mark, unseen>>

\* The others have the row as it was.
Saves(s, row, what) ==
    /\ mfp' = row
    /\ work' = [q \in OwnerSession |->
                    IF q = s \/ work[q].pc = "idle" THEN IdleWork
                    ELSE [work[q] EXCEPT !.missed = @ \cup {what}]]

-----------------------------------------------------------------------------
(* Attribution (attribute_device_copies).                                  *)

\* Not begun without an owner, on a copier with readings of accounts, or with a
\* printer that is not read or does not tell copies apart.
StartAttribution(s) == mfp.owner # NoOwner /\ LoadsRow(s, "loaded", NoOwner)

LoadReadings(s) ==
    /\ work[s].pc = "loaded"
    /\ work' = [work EXCEPT ![s] = IF meterReadings = {} THEN IdleWork
                                   ELSE [@ EXCEPT !.pc = "attribute", !.readings = meterReadings]]
    /\ UNCHANGED <<meter, meterReadings, read, mfp, resets, copies, credited, mark, unseen>>

\* The last reading up to the watermark, or the first one that is left.
BaseReading(s) ==
    LET before == {r \in work[s].readings : r.at <= work[s].mfp.through}
    IN IF before # {} THEN NewestOf(before) ELSE OldestOf(work[s].readings)

\* Fault: a meter that went down is not told apart.
PlainDifference(s) ==
    IF work[s].mfp.through = 0 THEN 0
    ELSE NewestOf(work[s].readings).value - BaseReading(s).value

\* A meter that went down, like an owner just named, only moves the watermark.
AttributedPages(s) ==
    IF work[s].mfp.through = 0 THEN 0
    ELSE Max({NewestOf(work[s].readings).value - BaseReading(s).value, 0})

NothingNew(s) ==
    work[s].mfp.through # 0 /\ BaseReading(s).at = NewestOf(work[s].readings).at

SkipAttribution(s) ==
    /\ work[s].pc = "attribute" /\ NothingNew(s)
    /\ work' = [work EXCEPT ![s] = IdleWork]
    /\ UNCHANGED <<meter, meterReadings, read, mfp, resets, copies, credited, mark, unseen>>

\* The pages are the loaded owner's, and the watermark the row's.
CommitAttribution(s) ==
    /\ work[s].pc = "attribute" /\ ~NothingNew(s)
    /\ Saves(s, [mfp EXCEPT !.through = NewestOf(work[s].readings).at], "run")
    /\ credited' = credited + IF "naming" \in work[s].missed THEN 0 ELSE AttributedPages(s)
    /\ unseen' = unseen \cup work[s].missed
    /\ UNCHANGED <<meter, meterReadings, read, resets, copies, mark>>

-----------------------------------------------------------------------------
(* Naming an owner (update_mfp_device).                                    *)

LoadToName(s, o) == o # mfp.owner /\ LoadsRow(s, "name", o)

Names(s, through) ==
    /\ work[s].pc = "name"
    /\ Saves(s, [owner |-> work[s].name, through |-> through], "naming")
    /\ credited' = 0
    /\ mark' = IF meterReadings = {} THEN copies ELSE NewestOf(meterReadings).copies
    /\ unseen' = IF work[s].mfp.through = 0 /\ mfp.through # 0 THEN {"run"} ELSE {}
    /\ UNCHANGED <<meter, meterReadings, read, resets, copies>>

\* Fault: the new owner goes on where the last one stopped.
NameOnly(s) == Names(s, mfp.through)

\* A different owner restarts the watermark, and so does none.  A watermark that
\* was null when it was loaded is no change, and is not written.
NameOwner(s) == Names(s, IF work[s].mfp.through = 0 THEN mfp.through ELSE 0)

-----------------------------------------------------------------------------
(* The meter.                                                              *)

CopyMade ==
    /\ copies < MaxCopies
    /\ copies' = copies + 1 /\ meter' = meter + 1
    /\ UNCHANGED <<meterReadings, read, mfp, work, resets, credited, mark, unseen>>

MeterReset ==
    /\ resets < MaxResets /\ resets' = resets + 1
    /\ meter' = 0
    /\ UNCHANGED <<meterReadings, read, mfp, work, copies, credited, mark, unseen>>

ReadMeter ==
    /\ read < NumReadings /\ read' = read + 1
    /\ meterReadings' = meterReadings \cup {[at |-> read + 1, value |-> meter, copies |-> copies]}
    /\ UNCHANGED <<meter, mfp, work, resets, copies, credited, mark, unseen>>

PurgeReading ==
    /\ meterReadings # {}
    /\ meterReadings' = meterReadings \ {OldestOf(meterReadings)}
    /\ UNCHANGED <<meter, read, mfp, work, resets, copies, credited, mark, unseen>>

DeviceOwnerNext ==
    \/ \E s \in OwnerSession :
           \/ StartAttribution(s) \/ LoadReadings(s) \/ SkipAttribution(s) \/ CommitAttribution(s)
           \/ NameOwner(s) \/ \E o \in Owner \cup {NoOwner} : LoadToName(s, o)
    \/ CopyMade \/ MeterReset \/ ReadMeter \/ PurgeReading

DeviceOwnerSpec == DeviceOwnerInit /\ [][DeviceOwnerNext]_deviceOwnerVars

-----------------------------------------------------------------------------
(* Properties.                                                             *)

\* "The new owner is credited only with copies made from here on", and with each
\* of them once: no order of runs, purged readings and meter resets credits more
\* than was copied since the last reading before the naming.  It is not promised
\* once a run has saved over a naming or another run that it had not seen, or a
\* naming has left the watermark of a run that it had not seen; the next naming
\* that starts afresh restores it.
CreditedFromHereOn == unseen = {} => credited <= copies - mark

\* "Naming a different owner restarts the meter watermark, so the new owner is
\* credited only with copies made from here on": so it would be with a run at work
\* while the owner is named.  The run that loaded the row before the naming and
\* commits after it puts its own watermark over the reset, and the next run credits
\* the new owner from there.
NamingStartsAfresh == "run" \notin unseen => credited <= copies - mark
=============================================================================
