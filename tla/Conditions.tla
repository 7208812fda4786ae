----------------------------- MODULE Conditions -----------------------------
(***************************************************************************)
(* Raising notifications (notifications/conditions.py): one condition, and *)
(* the sessions that report whether they see it.                           *)
(*                                                                         *)
(* A session reads the state row of the condition, decides, and writes in  *)
(* a transaction its caller commits later.  What is not committed is seen  *)
(* by nobody else; who wants to write the row, or to insert one under the  *)
(* same key, waits for the transaction that has written it.                *)
(***************************************************************************)
EXTENDS Naturals, FiniteSets

CONSTANTS
    Observer,     \* sessions: the status loop, requests, the counter loop
    RowId,        \* primary keys of state rows
    NoId,         \* no row
    Settle,       \* settle_minutes, in ticks
    MaxUpsets     \* bound: transactions that something else in them undoes, and
                  \* changes of the settings

ASSUME ConditionsAssumption ==
    /\ Settle \in Nat /\ MaxUpsets \in Nat
    /\ NoId \notin RowId
    /\ IsFiniteSet(Observer)

VARIABLES
    cond,       \* the condition holds in the world
    immediate,  \* raise_immediately, which goes with its kind
    enabled,    \* kind_enabled: the switch and the trigger of this kind are on
    state,      \* the committed row, NoState when there is none
    session,    \* what each session has read and written
    upsets      \* so far

conditionVars == <<cond, immediate, enabled, state, session, upsets>>

\* muted: first seen while the kind was off, and so taken as known.
\* events: history, the events raised for this row.
StateRow == [id: RowId, age: 0..Settle, notified: BOOLEAN,
             muted: BOOLEAN, events: 0..2]

NoState == [id |-> NoId, age |-> 0, notified |-> FALSE, muted |-> FALSE, events |-> 0]

\* on: kind_enabled for the settings the session has read.
\* wrote: what its transaction has written.
Session == [pc: {"idle", "observe", "clear", "commit"},
            read: StateRow \cup {NoState},
            on: BOOLEAN,
            wrote: {"nothing", "first", "firstRaised", "seen", "raised", "deleted"}]

IdleSession == [pc |-> "idle", read |-> NoState, on |-> FALSE,
                wrote |-> "nothing"]

ConditionsTypeOK ==
    /\ cond \in BOOLEAN /\ immediate \in BOOLEAN /\ enabled \in BOOLEAN
    /\ state \in StateRow \cup {NoState}
    /\ session \in [Observer -> Session]
    /\ upsets \in 0..MaxUpsets

ConditionsInit ==
    /\ cond = FALSE /\ immediate \in BOOLEAN /\ enabled \in BOOLEAN
    /\ state = NoState
    /\ session = [o \in Observer |-> IdleSession]
    /\ upsets = 0

-----------------------------------------------------------------------------
(* Sessions.                                                               *)

\* The settings, what the caller sees, and the row as it is committed now.  For
\* an immediate kind only the condition itself is looked for, never its end.
Look(o) ==
    /\ session[o].pc = "idle"
    /\ cond \/ ~immediate
    /\ session' = [session EXCEPT ![o] =
                      [pc |-> IF cond THEN "observe" ELSE "clear",
                       read |-> state, on |-> enabled, wrote |-> "nothing"]]
    /\ UNCHANGED <<cond, immediate, enabled, state, upsets>>

\* Nobody else has an uncommitted write on this key.
MayWrite(o) == \A p \in Observer \ {o} : session[p].wrote = "nothing"

Wrote(o, what) ==
    /\ session' = [session EXCEPT ![o].pc = "commit", ![o].wrote = what,
                                  ![o].read = NoState]
    /\ UNCHANGED <<cond, immediate, enabled, state, upsets>>

Aborts(o) ==
    /\ session' = [session EXCEPT ![o] = IdleSession]
    /\ UNCHANGED <<cond, immediate, enabled, state, upsets>>

\* The insert, in a savepoint: who comes second leaves it at that.
FirstSight(o) ==
    /\ session[o].pc = "observe" /\ session[o].read = NoState
    /\ MayWrite(o)
    /\ Wrote(o, IF state # NoState THEN "nothing"
                ELSE IF immediate /\ session[o].on THEN "firstRaised"
                ELSE "first")

\* The row that was read is still there; otherwise the flush of last_seen_at
\* fails, and the caller's transaction with it.
StillThere(o) == state.id = session[o].read.id

MayRaise(o) ==
    LET read == session[o].read
    IN ~read.notified /\ session[o].on /\ (immediate \/ read.age >= Settle)

SeenAgain(o) ==
    /\ session[o].pc = "observe" /\ session[o].read # NoState /\ ~MayRaise(o)
    /\ MayWrite(o)
    /\ IF StillThere(o) THEN Wrote(o, "seen") ELSE Aborts(o)

\* Fault: what was read decides.
ClaimAsRead(o) ==
    /\ session[o].pc = "observe" /\ session[o].read # NoState /\ MayRaise(o)
    /\ MayWrite(o)
    /\ IF StillThere(o) THEN Wrote(o, "raised") ELSE Aborts(o)

\* Compare-and-set: the UPDATE looks at notified_at as it is by then.
Claim(o) ==
    /\ session[o].pc = "observe" /\ session[o].read # NoState /\ MayRaise(o)
    /\ MayWrite(o)
    /\ IF StillThere(o)
       THEN Wrote(o, IF state.notified THEN "seen" ELSE "raised")
       ELSE Aborts(o)

\* Deleting what is not there any more is not an error.
Clear(o) ==
    /\ session[o].pc = "clear"
    /\ MayWrite(o)
    /\ Wrote(o, IF state = NoState THEN "nothing" ELSE "deleted")

\* The row that was read, and not one that has taken its place since.
ClearMissing(o) ==
    /\ session[o].pc = "clear"
    /\ MayWrite(o)
    /\ Wrote(o, IF state # NoState /\ StillThere(o) THEN "deleted" ELSE "nothing")

\* A new key is nobody's: least of all one that a session still holds.
NewKeys == RowId \ {session[o].read.id : o \in Observer}

NewState(id, on, raised) ==
    [id |-> id, age |-> 0, notified |-> raised \/ ~on, muted |-> ~on,
     events |-> IF raised THEN 1 ELSE 0]

\* Fault: each sight of the condition starts the settle window again.
WrittenAfresh(o) ==
    IF session[o].wrote = "seen" THEN {[state EXCEPT !.age = 0]}
    ELSE IF session[o].wrote \in {"first", "firstRaised"}
    THEN {NewState(id, session[o].on, session[o].wrote = "firstRaised") : id \in NewKeys}
    ELSE IF session[o].wrote = "raised"
    THEN {[state EXCEPT !.notified = TRUE, !.events = @ + 1]}
    ELSE IF session[o].wrote = "deleted" THEN {NoState} ELSE {state}

\* What the transaction wrote: the state row and the event together.
Written(o) ==
    LET on == session[o].on
        new(raised) == {NewState(id, on, raised) : id \in NewKeys}
    IN CASE session[o].wrote = "first" -> new(FALSE)
         [] session[o].wrote = "firstRaised" -> new(TRUE)
         [] session[o].wrote = "raised" ->
                {[state EXCEPT !.notified = TRUE, !.events = @ + 1]}
         [] session[o].wrote = "deleted" -> {NoState}
         [] OTHER -> {state}

Commit(o) ==
    /\ session[o].pc = "commit"
    /\ state' \in Written(o)
    /\ session' = [session EXCEPT ![o] = IdleSession]
    /\ UNCHANGED <<cond, immediate, enabled, upsets>>

SessionProceeds(o) ==
    \/ FirstSight(o) \/ SeenAgain(o) \/ Claim(o)
    \/ Clear(o) \/ ClearMissing(o) \/ Commit(o)

SessionStep(o) == Look(o) \/ SessionProceeds(o)

\* No polling path stands behind an immediate kind.
PolledLook(o) == ~immediate /\ Look(o)

\* The transaction is rolled back by something else that went wrong in it.
RollBack(o) ==
    /\ session[o].pc # "idle"
    /\ session' = [session EXCEPT ![o] = IdleSession]
    /\ upsets < MaxUpsets /\ upsets' = upsets + 1
    /\ UNCHANGED <<cond, immediate, enabled, state>>

-----------------------------------------------------------------------------
(* The world.                                                              *)

ConditionChanges == cond' = ~cond /\ UNCHANGED <<immediate, enabled, state, session, upsets>>

SettingChanges ==
    /\ enabled' = ~enabled
    /\ upsets < MaxUpsets /\ upsets' = upsets + 1
    /\ UNCHANGED <<cond, immediate, state, session>>

SettleTick ==
    /\ state # NoState /\ state.age < Settle
    /\ state' = [state EXCEPT !.age = @ + 1]
    /\ UNCHANGED <<cond, immediate, enabled, session, upsets>>

ConditionsNext ==
    \/ \E o \in Observer : SessionStep(o) \/ RollBack(o)
    \/ ConditionChanges \/ SettingChanges \/ SettleTick

ConditionsSpec == ConditionsInit /\ [][ConditionsNext]_conditionVars

\* A loop that polls comes round, a transaction that was begun ends, and time
\* passes.  Nobody has to meet an immediate condition a second time.
ConditionsFairness ==
    /\ WF_conditionVars(SettleTick)
    /\ \A o \in Observer : WF_conditionVars(SessionProceeds(o) \/ PolledLook(o))

ConditionsFairSpec == ConditionsSpec /\ ConditionsFairness

-----------------------------------------------------------------------------
(* Properties.                                                             *)

\* One event for each episode: whatever the order of two sessions, a row that
\* was claimed has exactly one event, and a row that was not, or that was first
\* seen while its kind was off, has none (observe).
OneEventPerEpisode ==
    state # NoState =>
        state.events = IF state.notified /\ ~state.muted THEN 1 ELSE 0

\* Somebody keeps meeting the condition, which for a kind that is polled is no
\* assumption: its loop does.
KeepsBeingMet == immediate => []<>(\E o \in Observer : session[o].pc = "observe")

\* A condition that stays, while its kind is on, has its event in the end,
\* whatever a session that saw it gone, a rolled back transaction or a race for
\* the row did to earlier reports.  It is not promised of one that was there
\* while the kind was off, which is taken as known, nor of an immediate one that
\* nobody meets again after its transaction was rolled back (observe, clear).
ConditionIsReported ==
    <>[](cond /\ enabled /\ ~state.muted) /\ KeepsBeingMet => <>[](state.events = 1)
=============================================================================
